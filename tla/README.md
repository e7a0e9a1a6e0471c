# NEXIUM Storage: a verification project

TLA+ models of the server in `src/`: an HTTP API (Go, chi) over PostgreSQL and
Cloudflare R2, with two payment gateways (Adullam and SasPay) and one daily job. The
modules model the parts of the server whose handlers make several calls in a row and
keep no transaction around them. TLC checks small instances, and TLAPS proves the safety
properties that matter most for every size.

## 1. Inventory

Every request runs in a goroutine of its own. Almost every statement to PostgreSQL is
autocommitted and each handler is a sequence of such statements and of HTTP calls. The
only shared memory is the rate limiters' maps. What interacts does so through rows, so
the hard behaviours are interleavings between calls, calls that fail half way through a
handler, crashes, and answers applied late.

| Part | State | Operations | Interacts through | Hard behaviour | What makes it correct |
|---|---|---|---|---|---|
| billing (`internal/billing`) | `plans`, `subscriptions`, `billing_payments`, `storage_addons`, `users.storage_quota_bytes` | checkout of a plan or an add-on, status poll, two webhooks, lazy expiry | gateways, the job, the quota check | webhook and poll at once, webhook before the id is stored, a webhook nobody signed, failure between record and activation, expiry against renewal | nothing unpaid is granted; what is paid is activated; the quota equals plan plus add-ons |
| daily job (`internal/expiry/job.go`) | `subscriptions.*_at`, `data_grace_end`, `users.last_active_at`, `inactivity_warned_at`, `files` | six passes: expire, remind, remind of the grace period, delete after it, warn the inactive, purge them | billing, activity tracking, files, R2, Mailjet | selections that are stale when acted upon, mail and mark in two calls, crash inside a pass | payers keep their files; nobody loses files unannounced; no mail twice |
| activity tracking (`middleware/auth.go`) | `users.last_active_at` | asynchronous update after each authenticated request | the job | late update | as above |
| files (`internal/files`) | `files`, objects in R2 | upload, presign, confirm, delete; quota and size check | buckets, billing's quota, R2 | check and write apart, two stores without a transaction | no row without object, quota kept |
| buckets, projects | `buckets`, `projects` | CRUD, delete by prefix | files, R2 | deletion against a running upload | no object outlives its bucket |
| authentication (`internal/auth`) | `users`, `refresh_tokens`, `verification_codes` | register, login, refresh, codes, password and address changes | mailer | token and code used twice, reset against refresh, profile written back stale | a token and a code work once; a reset ends all sessions |
| rate limits, API quota (`pkg/middleware`) | map under a mutex; `api_request_counts` | count, clean; read before and increment after the request | all API requests | window boundary, requests under way not counted | bounded overshoot |
| webhooks of projects (`internal/webhooks`) | `webhooks`, `webhook_deliveries` | fire, deliver with retries, save | files | one deadline for all hooks, order, crash | each event saved or lost as documented |
| API keys (`internal/apikeys`) | `api_keys` | create, revoke, check | the two limits | | a revoked key lets nothing in |
| administration (`internal/admin`) | `users`, `plans`, `platform_settings`, channels, countries | `createAdmin`; single updates | all of the above | an account inserted past `Register` | as authentication |
| usage, logs | rows | single statements | | | |
| mailer, gateway clients, R2 client | none | HTTP calls | | failures and timeouts | modelled as faults of the callers |
| migrations, wiring | `schema_migrations` | once at start | | crash between execution and record | |

`PROJECT.json` lists the same parts with their files and says of each whether it is
modelled, and every hazard at its line with the properties that would catch it.

## 2. Plan

In order of what the system has to lose: money, data, access, limits.

1. **`Billing`** with the abstract **`Entitlement`**, and **`BillingHistory`**, which says
   when the quota is right (done, proved in `BillingProofs`).
2. **`Retention`**, the daily job (done; its safety properties proved in
   `RetentionProofs`).
3. **`Files`**, objects and rows as two stores, with the quota check and all deletions
   (done; proved in `FilesProofs` and `FilesStoresProofs`).
4. **`Auth`**: accounts, codes and sessions, call by call (done, proved in `AuthProofs`).
5. **`Limits`**: API keys, fixed windows with their cleaner, and the monthly count (done,
   proved in `LimitsProofs`).
6. **`Webhooks`**: a goroutine per event, retries, one deadline, delivery rows (done; its
   safety properties proved in `WebhooksProofs`).

Every safety and action property of a passing run is proved, for every value of the
constants that the modules' assumptions admit.

Composition. `Billing` and `Retention` share the row of a subscription, `Retention` and
`Files` the purge, `Billing` and `Limits` the plan in force (section 3). `Files` takes
the user's quota as fixed: letting `Billing` or an operator change it between any two
calls multiplies the states of its instance beyond what TLC goes through in minutes, and
`QuotaKept` compares an upload with the quota that its own check has read.

## 3. Modules

### Billing

One process per request (`Workers`) and one for the job (`Job`). `worker[w].pc` names
the call a process is about to make, so each action is one call with the state changes
the code makes up to the next one; between two calls anything may run.

| Model | Code |
|---|---|
| `sub` | row of `subscriptions`: status, plan, `current_period_end` |
| `quota` | `users.storage_quota_bytes` |
| `ledger` | rows of `billing_payments` and `storage_addons`: status, and whether `adullam_id` is set |
| `gateway`, `acked` | external: the gateway's own record, and the webhooks answered with 200 |
| `InitiateCheckout` .. `StoreRefusal` | `InitiateCheckout`, `InitiateAddonCheckout` |
| `WebhookFound`, `WebhookIgnored`, `WebhookCompletes` | `HandleWebhook`, `HandleSaspayWebhook` |
| `UnsignedWebhook` | `saspayWebhook` where `SASPAY_WEBHOOK_SECRET` is not set: no signature is checked, and the id in the event is enough |
| `GetStatus`, `PollAnswered`, `PollRecords` | `GetPaymentStatus`, `GetAddonStatus` |
| `UpsertSubscription`, `AddonBase`, `SumCompletedAddonBytes`, `SetQuota` | `activateSubscription`, `activateAddon` |
| `GetSubscription`, `JobSelects`, `JobTakes`, `ExpireSubscription`, `ResetQuota` | lazy expiry and `expireSubscriptions` |
| `CallFails`, `GatewayAnswerLost`, `Crash` | a call that returns an error, an answer that is lost, a process that dies |

Abstractions. Bytes are symbolic: a quota is the plan whose bytes were taken and the set
of add-ons added to it, so that two quotas are equal exactly when their origin is. A
quota of NULL, with which users start, is read as the platform default; it is written as
the free plan's. `failed` stands for failed and expired, which nothing distinguishes.
The two payment tables form one ledger. A call whose write was applied although an error
came back is the step followed by a fault of the next call. Where the error leaves the
handler's path unchanged (`record`, and the ignored sum of `activateSubscription`), the
process goes on. A client that disconnects cancels `r.Context()`, so any call of a
handler can fail.

Configuration. `Unsigned` is the set of purchases made at SasPay by a server without
`SASPAY_WEBHOOK_SECRET`, which the repository's README marks as optional; the Adullam
webhook refuses everything when its own secret is missing. `claimed` is a history: the
unsigned purchases of which an event has said that they succeeded. What such an event
says need not be so, and the properties count it as a confirmation beside the gateway's
(`Confirmed`): a server without the secret promises no more. With `Unsigned = {}` the two
coincide, which `SignedIsPaid` states.

Assumptions about the gateways. The answer to a creation may carry any status, completed
included, and carries an id: one without would clear the column (`client.go:200-204` of
`pkg/saspay` lets it through, `NULLIF($3, '')` stores it as NULL). A signed success event
is sent for a payment the gateway took, and what a gateway took it keeps.

### BillingHistory

The quota is computed from rows read some calls before it is written, without a
transaction, and an error on the way leaves it as it was; so it is wrong now and then.
The module extends `Billing` by three histories that say when, follow every step and
constrain none (`HSpec` is `Spec` with them):

- `overtaken`: processes on their way to a write of the quota whose reads another process
  has changed since, or which went on past an error the code ignores (the sum of a
  renewal; a poll's write of completed);
- `disturbed`: users whose last activation or reset was one of those, or ended without its
  write, or one of whose completed add-ons appeared or disappeared without an activation
  (an older status written by a poll, a create answer of completed). The next write from
  rows that are up to date takes the user out again;
- `lost`: purchases the gateway has and whose id was not stored, whose create answer said
  completed, or whose activation ended without its write.

`Calm(u)` is a user of whom none of this is true and for whom no process is midway. Two
handlers at once, a handler during the job's loop, a failed call and a crash all leave the
user calm unless they really meet as described, and each of these exceptions is needed:
dropping any one of them lets TLC find a quota that does not add up. `PaidIsActivated`
excuses `lost` purchases only, whatever else fails.

### Entitlement

What billing promises, without handlers: payments are made and never taken back; a
user's plan becomes one that user paid; a quota is a paid plan, or the free one, and
paid add-ons. A claim made for an unsigned purchase counts as a payment of it, and of no
other. `EntitlementSpec` in `Billing` maps `paid` to the gateway's completed purchases,
`claimed` to the history of that name, `plan` to the plan of the row and `quota` to the
column.

### Retention

`job` holds the pass, the milestone, the users still selected and the call for the
current one. `Query` selects, the other steps are the calls of the loops, and the
requests (`Act`, `Renew`, `LazyExpire`, `Upload`) run in between. A unit of time is a
day, the files of a user are one thing, and the quota is left to `Billing`, whose
`GetSubscription` to `ResetQuota` are the single calls of what is one step here
(`Expired`). `mailed`, `raced` and `late` are histories: mails of the current period,
grace period and spell of inactivity; users who renewed or acted while the job held them
in a selection; users whose mail was marked after that.

`Renew` is allowed up to `PayDelay` days after the user's last activity, since a payment
is asked for in an authenticated request, which `TrackActivity` records, and confirmed
later. `TouchUser` also moves `last_active_at`, so the model admits some renewals the
program does not have.

### Files

`rows` and `objects` are the two stores; no transaction spans them. A process is a
request or the job, `worker[w].pc` again names its next call, and a file stands for its
identifier, which is new for each upload.

| Model | Code |
|---|---|
| `Upload`, `PresignUpload`, `ConfirmUpload`, `Head` .. `Undo` | the same of `internal/files/service.go`, call by call |
| `Fits`, `CheckQuota`, `Refuse` | `checkQuota`, `checkFileSize`, the platform lock |
| `Insertable` | primary and foreign key of `files` |
| `ClientPut` | external: the client's PUT to R2 |
| `Delete`, `Erase`, `Unlist` | `Delete`: the object, then the row |
| `DeleteBucket`, `DeleteProject`, `ListObjects`, `Wipe`, `Drop` | deletion by prefix, then the row with its cascade |
| `SelectFiles`, `Wipe`, `Drop` of `Job` | `deleteUserFiles`, one step of `Retention` (`SelectFiles` to `DeleteFiles`) |
| `CallFails`, `AnswerLost`, `Crash` | an error, with or without the write, and a process that dies |

Histories: `stored`, objects R2 has held; `contested`, files confirmed while they were
listed or worked on; `missed`, files whose row a bulk deletion took without having
listed them; `raced`, files whose quota check another row overtook.

Abstractions. All buckets exist from the start and belong to one project: one created
during a deletion is to it what a file uploaded after the listing is. Key and size
belong to the identifier, so a client puts the same bytes each time. A presigned URL
does not expire, which only adds behaviours, and a URL is signed without a call. The
quota is read once and fixed; `Refuse` may happen at any check, which covers the lock
and the size limit, whose own errors the code ignores. `DeleteObjects` removes up to
1000 objects in one call; here objects go one by one, as they do in the job.

### Auth

A request is a row of calls, as in `Files`; `req[w].pc` names the next one, and the rest
of the record is what the handler keeps in local variables until then.

| Model | Code |
|---|---|
| `users`, `codes`, `tokens` | `users`, `verification_codes`, `refresh_tokens` |
| `Register`, `createAdmin`, `CreateUser`, `WriteBack` | `Register`, `createAdmin` of `internal/admin`, `CreateUser`, `UpdateUser` |
| `sendCode`, `ResendVerification`, `ForgotPassword` | the same |
| `Login`, `Refresh`, `DeleteRefreshToken`, `issueTokenPair`, `Logout` | the same |
| `UpdateProfile`, `RequestEmailChange` .. `SetPendingEmail`, `ConfirmEmailChange` .. `ClearPendingEmail`, `CancelEmailChange` | the same, call by call |
| `VerifyEmail`, `ResetPassword`, `GetLatestCode`, `MarkCodeUsed`, `SetVerified`, `UpdatePassword`, `DeleteUserTokens` | the same, call by call |
| `CodeExpires` | `codeTTL` |
| `CallFails`, `Crash` | a failed call, a client that has gone, a process that dies |

The first read of a handler is joined with the arrival of its request, since nothing has
been written before it. Histories: `issued`, all tokens with the session they prolong
and the number of resets (`era`) their password or code was accepted after; `raced` of a
request, that another one has changed the account since; `uses`, how many requests have marked
a code; `loose`,
users whose pending address need not be the one the newest code was sent to.

Abstractions. A password is its hash and a code its row, so that whoever names a code
was sent it; mails are left out, since whether one arrives changes no row. Access tokens
name their user and do not expire, nor do refresh tokens, which only adds behaviours.
Names, avatars, roles and `Me` are left out. `GetUserByID` in `Refresh` finds the user,
since nothing deletes one.

`VerifyEmail` of an account that is verified already issues a pair without looking at the
code, used or not (`service.go:293-295`). The model has this branch; `CodeUsedOnce` is
about requests that `GetLatestCode` let through to change an account, of which this is
none. It is the reason why the property does not count token pairs.

### Limits

The order of the route groups in `main.go`: a key, the window of the project, the
monthly quota, the handler; for `/auth`, the window of the IP alone.

| Model | Code |
|---|---|
| `keys`, `CreateKey`, `Revoke`, `AuthenticateAPIKey` | `api_keys` and its routes, the middleware of that name |
| `windows`, `Throttle`, `Cleanup` | the map, the section under its mutex, the cleaner |
| `req[w].at` | the time, which the code reads before it locks the mutex |
| `counts`, `increments`, `EnforceAPIQuota`, `HandlerReturns`, `Increment` | `api_request_counts`, the goroutines, the middleware up to the handler, its return, the upsert |
| `FailOpen`, `IncrementFails`, `HandlerPanics`, `Crash` | the errors the code lets pass, a panic that `Recoverer` answers, a process that dies |
| `ChangePlan`, `Tick`, `NewMonth` | external: billing or an operator, the clocks |

Histories: `admitted` by limiter and tick, `served`, `lost`, and the highest number of
uncounted requests (`peak`) and quota (`top`) of a month. Abstractions: the month and
the limiters' clock move independently of one another, which only adds behaviours, and
all projects belong to one user, whom the monthly count is for.

### Webhooks

| Model | Code |
|---|---|
| `hooks`, `Create`, `Delete`, `PatchReads`, `PatchWrites`, `Merged` | `webhooks`, its routes; a PATCH is `Get`, a merge and `Update` of all columns |
| `Fire`, `ListActiveByProject`, `deliver` | the goroutine of `Fire` and its loop |
| `Accepted`, `Refused`, `LastAttempt`, `Pause` | an attempt of `sendHTTP` and what the loop of `deliver` does with it |
| `SaveDelivery`, `Savable`, `AfterDelivery` | the row, which the context's deadline or the foreign key may refuse, and the next webhook |
| `CallFails`, `PatchFails`, `Crash` | a failed call, a process that dies with the events it has in memory |

A goroutine has a clock of its own, `elapsed`, since the deadline and the pauses are
relative to its start; requests take from nothing to `deliveryTimeout`, calls of the
database no time. An attempt that is refused may have reached its receiver. Payload and
signature are left out. Histories: `oks`, accepted attempts; `starts` and `done`, when a
delivery began and which have ended.

## 4. Runs

One user is enough for all parts: no handler and no statement of the job touches two
users' rows, and what the job selects is treated user by user. The proofs cover any
number.

| Run | Instance | Shows |
|---|---|---|
| `billing_quota` | one payment, one add-on (unsigned), two workers and the job, two at a time, one fault | quota equals plan plus add-ons, and is free after an expiry, but for the accidents `BillingHistory` names |
| `billing_faults` | one payment (signed), one add-on (unsigned), two workers and the job, two at a time, two faults | nothing that was neither paid nor claimed in a row, a quota or the ledger; ids are kept; refinement of `Entitlement` |
| `billing_live` | one payment (unsigned), two workers, one fault, fair | a paid purchase is activated unless it was lost; its row ends as completed; a lapsed subscription is expired, whatever fails |
| `retention` | periods 1, grace 2 with two milestones, inactivity 1 and 3, seven days, one fault, fair | payers keep files; deletions and purges are announced; no reminder twice; every grace period ends |
| `files` | two uploads of 2 and 1 bytes into two buckets, quota 2, two workers and the job, two at a time, one fault | no row without an upload; a listed file has its object; only uploads at once exceed the quota; every orphan has a cause |
| `auth` | one account signed in, one to be registered, three addresses, two passwords; two goroutines, four requests, one fault | sessions end with a reset, chains of refreshes have one token, codes work once, passwords and addresses stay, each but for the races the property names |
| `limits` | one key, one IP, limits of 1 and 2, windows of 3 ticks, quotas 1 and none, two months; two goroutines, four requests, one fault | less than twice the limit in a window's length; nobody is locked out; each request is counted once; the overshoot is below what was uncounted |
| `webhooks` | the code's constants (3 attempts, 10 s, 60 s), two webhooks, one event they may be subscribed to and one they are not sent; two goroutines, three requests, one fault, fair | rows are true and in time; a PATCH keeps what it does not name; every event ends |
| `completed_lost` | violation | a row that says completed from the start, or after a failed activation, is never activated |
| `addon_after_expiry` | violation | an add-on after the expiry restores the expired plan's bytes |
| `stale_expiry` | violation | a renewal during the job's loop is expired at once |
| `reminded_again` | violation | the second period of a subscription ends without reminders |

`billing_quota` says of the quota what the code does guarantee. What it does not is part of
the result: with two handlers at once the later of two writes may hold the older sum; the
reset after an expiry can be lost for good, because no later run of the job selects the
user again; and a checkout whose create answer says completed leaves an add-on that the
sum counts and the quota does not, until the user's next activation. A stale poll may take
a completed row back to processing; `RowSettles` says that it does not stay there, since
the client polls as long as the row shows a payment in progress. `completed_lost` has two
ways to its end. In the shorter, which TLC prints, nothing fails: the gateway answers the creation with
completed. In the other, the call after `WebhookCompletes` fails. A renewal that comes
between the selection of a lapsed period and the update is expired at once
(`stale_expiry`).
`RemindedBeforeExpiry` holds again as soon as `Renew` clears the reminder columns as it
clears those of the grace period.

`PayerKeepsFiles` excuses exactly the users in `raced`: a payment that arrives after the
job's query is not seen. `GraceReminded` and `WarnedBeforePurge` excuse faults, since a
failed mail is logged and no pass waits for it, and users in `late`, whose columns were
set for the wrong period.

`RowHasObject` and `OrphansExplained` name what remains without a fault: a confirmation
that overlaps a deletion of the same file may list a file whose object is gone, and a
bulk deletion takes the rows of files uploaded after its listing and leaves their
objects. With a fault more is lost: the object of an upload whose row failed stays if
the compensating delete fails too, and a deletion that fails between its two stores
leaves a row without object. `RowsWereStored` holds whatever fails.

In `auth`, three of the races the properties excuse are worth a reader's attention. Two
refreshes with one token that both read it before either deletes it get a pair each. A
login or a refresh accepted before a reset inserts its token after it, and the session
outlives the reset. A `PATCH /auth/me` that only changes the name writes back the
password hash it has read, and so undoes a reset that came between. `AddressProven`
finds a longer one: `SetPendingEmail` comes before the code for the new address, so that
a code sent to the previous pending address confirms the new one, which nobody has
proven; the property excuses exactly this with `loose`, and no confirmation otherwise,
overtaken or not. The comment of migration 019 calls
this the "verified email-change flow", which it is but for this order of two requests.
Nothing in the repository speaks of the other races.

`IntervalBound` allows for the wait between the reading of the clock and the mutex, by
which requests enter a window out of the order of their times: windows may follow one
another faster than their length by one such wait, and no more. `QuotaOvershoot` is what the
code guarantees instead of the quota. `RecordedInTime` says how much of the deadline the
webhooks of an event share: with two of them and the code's constants, the second one's
row may be missing after its receiver has accepted, namely when it began later than 25
seconds (60 less the 35 of the longest delivery) after the first.

**Bounds.** `MaxTime` lets a subscription be bought, lapse and be activated again, and in
`retention` a whole grace period and a purge follow one another. `MaxActive = 2` brings
every pair of handlers together. `MaxFaults` bounds failed calls, lost answers and crashes
together. In `billing_quota` one payment stands for a renewal as well, since webhook and
poll may activate it twice with an expiry in between; two payments of different plans with
an add-on are beyond what TLC goes through in minutes, and the theorem covers them.
Periods are shortened in proportion: a reminder's window
spans three days, so that consecutive milestones one day apart overlap more than the
program's do, and `PurgeAfter` exceeds `PeriodLen + PayDelay` as 120 days exceed a month
and the life of a payment. In `files`, two uploads are enough for a race and a sum over
the quota, and identifiers are used once. In `auth`, four requests are enough to log in,
ask for a code, use it, and have one other request come between any two of its calls;
two passwords and three addresses distinguish what was, what is asked for and what a
third request asks for. In `limits`, four ticks hold a window of three, its end and the
beginning of the next, and four requests reach what `IntervalBound` allows, twice the
limit of 2 less one; two goroutines exceed a quota of one by one, and the turn of the
month comes between any two steps. In `webhooks`, two webhooks reach the deadline of 60
seconds: two dead receivers take 70. One URL is enough, as `events` and `is_active` tell
the merged fields apart; the proof of `PatchKeeps` covers any number. `MCSymmetry`
permutes the workers, only in runs without liveness. Deadlock checking is off: at the
bounds of time, of purchases and of identifiers the system may really stop.

**Fairness.** Goroutines are scheduled (`WF` on each process's next call). The daily
ticker fires (`WF`/`SF` on the job's start). A gateway repeats a webhook until it gets
200 and the client polls while it shows a pending payment (`SF` on both). `SF` on starts
is needed only because `MaxActive` may keep a start waiting, a limit the server does not
have. In `Retention`, `WF(JobStep)` says that the job's calls return. That is an
assumption: the job runs under `context.Background()`, and the mailer uses
`http.DefaultClient`, which has no timeout of its own. In `Webhooks`, `WF` on the steps
of each goroutine says that it is scheduled and that its calls return, which the code
sees to: an HTTP request ends at `deliveryTimeout` and a call of the database at the
context's deadline. Nothing is fair about customers, requests, faults or the clock.

## 5. Proofs

`BillingProofs` proves, from `BillingAssumption` alone: `TypeOK`, `PaidForPlan`,
`QuotaPaidFor`, `LedgerFollowsGateway`, `GatewayIdKept` and the refinement
`EntitlementSpec`. None of these is inductive, because what a handler writes was decided
several calls earlier. `IInv` adds what processes know in between:

- `Assigned`: a process works for the owner of its purchase;
- `CheckoutOwnsRow`: one process runs a checkout, and its row has no gateway id before
  the checkout's last call, which is why the unconditional update of a refused checkout
  never clears an id;
- `RowsInOrder`: row, gateway record and id appear in this order;
- `OnlyPaidActivates`: who is in or before an activation works on a confirmed purchase
  (paid, or claimed by an unsigned event), and the quota it carries is made of such things.

The argument is a frame lemma (`StepPreserves`): a step moves one process, rows and
gateway records only move forward, and no other process's knowledge depends on the row
that moved in a way that could break it. Each action then shows what it establishes for
its own process. `Implementation` maps each step to `Pay`, `Claim`, `Subscribe`, `Grant` or
a stutter. `SignedIsPaid` draws the conclusion for a server with the secret: without
unsigned purchases, `Confirmed` is what the gateway took.

The last section of the module proves `QuotaIsPlanPlusAddons` and `LapsedQuotaIsFree` of
`HSpec`, for any number of processes, faults and unsigned purchases. `HInv`, inductive
together with `IInv`, says that a process which is not `overtaken` is `Informed`: what it
has read is still so (the plan it carries is the active row's, its sum is that of the
completed add-ons, the subscription it resets is not active); and that the quota of a
`Calm` user is `Settled`. A step moves one process, crashes them all, or touches neither a
process nor a row (`Movements`). If it moves a process, what that one learns is
`MoverInformed`, and any other either keeps what it knows or is put among the overtaken
(`StillInformed`). A user becomes calm only by an undisturbed write of an informed process
(`CleanWrite`), and stays settled as long as calm (`Untouched`, `StaysSettled`): whoever
changes the rows a quota is made of is on the way to a write of it, or is an accident the
history records. `HInv` was model-checked before it was proved.

`RetentionProofs` proves, from `RetentionAssumption`: `TypeOK`, `PayerKeepsFiles`,
`RemindedOnce`, `GraceReminded` and `WarnedBeforePurge`. The invariant `RInv` adds the job's place in its run (`JobInPlace`), that a running
period ends at most `PayDelay + PeriodLen` days after the last activity
(`PayersAreActive`, which is why inactivity cannot strike a payer), and that whoever is
selected for deletion and has a running period raced the job (`OnlyRacersPay`).

Mails and their marks are two calls in two passes of a day, so what `MInv` says of them
depends on where the job is. A mail that was sent is marked, or is about to be
(`PeriodOnce`, `GraceOnce`), and nobody in a selection has had it. Nobody's grace period
is past the last day of a milestone without the reminder, nor on this day once the pass
for it is done (`Reminders`, `GracePassDone`); the same for the warning (`Warnings`,
`WarnPassDone`). This is an argument about days: the job runs every day before the clock
moves, which the model's `Tick` requires as the code's ticker does, and a milestone's
window holds at least one of its runs. The proof needed that every milestone lies within
the grace period, which is so for 14, 7 and 1 of 30 days and is now part of
`RetentionAssumption`.

`FilesProofs` proves, from `FilesAssumption`: `TypeOK` and `RowsWereStored`. That rows
name stored objects is not inductive, since the object is looked at four calls before
the row is written; `FInv` adds what each process has learnt (`Learnt`): a confirmation
past `Head`, and whoever is at `Create`, has a stored file. `stored` only grows, so that
no step of another process takes this away (`OneMoves`, `StepPreserves`).

`FilesStoresProofs` goes on to what the two stores owe one another: `RowHasObject`,
`OrphansExplained` and `QuotaKept`. As long as nothing has failed (`Faultless`), whoever
may yet write a row is alone with its file, and its object, once checked, stays or goes
with a bucket (`Claims`, `Held`); an identifier belongs to nobody before it is drawn
(`Identifiers`); a deleted object comes back through a presigned URL only (`Deleted`);
and an object without a row has one of the causes the property names or a handler that
is about to write or remove it (`Accounted`). For the quota (`QInv`), whoever is past
its check and was not overtaken fits beside all rows of now, faults or not.

`Sums` has the facts on `MapThenSumSet` that the quota, the intervals of `Limits` and the
deadline of `Webhooks` rest on: one element more adds its value, a larger set sums to at
least as much. The operator is recursive, and induction over sets takes an operator as
its parameter; the proofs take instead a smallest subset on which the statement fails,
which exists as inclusion is well-founded on a finite set's subsets.

`AuthProofs` proves, from `AuthAssumption`: `TypeOK`, `CodeUsedOnce`,
`SessionsEndWithReset`, `OneTokenPerSession`, `PasswordKept` and `AddressProven`. What each of them needs
is what a request has learnt and not yet used. The invariant `AInv` adds

- `WellFormed`: the local variables a request needs for its next calls are there, and a
  code or token it has looked up belongs to its user;
- `StillTrue`: as long as no other request has changed the account (`raced`), what it has
  read still holds: the era, the password it will write back, and that its token, once
  deleted, has no successor;
- `Rivals`: no two undisturbed requests are about to prolong the same chain;
- `IssuedInOrder`: a chain of refreshes has one owner and begins with its first token.

Every call that changes an account marks the other requests on it as raced, so the frame
lemma (`StepPreserves`) has two cases: a request on another account, whose rows are
`Undisturbed`, and one on this account, of which `StillTrue` asks nothing any more.
Tables only grow (`Grows`), which keeps `WellFormed`. `CodeUsedOnce` is about steps: only
`GetLatestCode` makes a request hold a code, and it takes a live one, which no request has
marked (`AInv`); every other step keeps or empties the set of its holders
(`MoveKeepsHolders`, `CallsKeepHolders`).

`DInv` adds what `AddressProven` needs. A user who is not verified has no session, and
codes for the one address only (`TablesAddressed`). A pending address is `loose`, or the
newest code for a change was sent to it (`PendingSent`). The client presents a code that
exists when the pending address is read (`Addressed`), and the code for this address is
then the newest of its kind. A confirmation looks up the newest code that is live: this
one, or an older one, and then this one is not live any more. As codes expire in the
order of their creation it has not expired, so it was used: either way the address is
proven. Hence a confirmation that another request overtook needs no excuse, and the
property makes none.

`LimitsProofs` proves, from `LimitsAssumption`: `TypeOK`, `CountedOnce`,
`QuotaOvershoot`, `IntervalBound` and `DeniedJustified`. The conjunction `LInv` of the
first three is inductive as it stands. The work is in `Uncounted`, which holds the cardinality of the set of requests being served: each
action is first reduced to what it does to that set (it gains one, loses one, stays), by
the theorems on finite sets. For `QuotaOvershoot`, the check reads a count below the
quota; by `CountedOnce` the count is `served` less `Uncounted`, and `peak` is at least
one more than `Uncounted` then, so that `served` stays below `top + peak`.

For the windows, `WInv` bounds what was let through after three ticks. Requests of the
current window came after it was opened (`Filled`), which justifies a denial. Of the
current window's requests all but the one that opened it came after its opening, and of
the two last windows' requests all but one after the opening of the one before; and two
openings are more than `Window - LockWait` apart (`TwoWindows`, where the ticks are
chosen by \E: the cleaner forgets a window, and what remains known is that a window
opened now would be far enough from it). So an interval of this length meets two
windows, and not all of the first. The proof gave a sharper `IntervalBound` than the one
first checked, by one wait for the mutex instead of two.

`WebhooksProofs` proves, from `WebhooksAssumption`: `TypeOK`, `DeliveriesTrue`,
`PatchKeeps` and `RecordedInTime`. The invariant `WInv` adds `Fine`, what a goroutine knows of its receivers
(those still to do have neither accepted nor a row; the one at hand has no row, and has
accepted exactly if its attempts ended with success), and `RowsRead`, that the row a
PATCH has read is still the table's unless another change, or the deletion, has
overtaken the request. `TInv` follows the clock of a goroutine: at its n-th attempt a
delivery has taken at most what n - 1 attempts and their pauses may (`Ahead`, `Spent`),
and identifiers of webhooks are not given out twice (`Booked`), so that a row which is
missing for a webhook that exists was refused by the deadline.

The assumptions are what the code has: disjoint sets, one owner per purchase, the free
plan is never bought (`PriceXOF == 0` is refused), and a period with the delay of its
payment fits into the limit of inactivity.

**Only model-checked**: liveness (`PaidIsActivated`, `RowSettles`, `LapsedIsExpired`,
`GraceEnds`, `EveryEventEnds`) and whatever needs `ENABLED`, which the prover does not
reach.

## 6. Not modelled

- Of `internal/auth`: `VerifyResetCode` and `Me`, which only read, the mails, and the
  expiry of tokens.
- Of API keys: bucket scopes and permissions, which only restrict the handlers a request
  reaches.
- Of files, buckets and projects, what changes neither store: creation, names, visibility,
  listings, downloads.
- Of webhooks: listings, payloads, signatures, and the form of a URL.
- Of administration: roles, listings, logs, and the catalogue of plans, channels, countries
  and exchange rates, all single statements that no other handler's steps depend on. A
  user's storage quota is fixed in `Files` (section 2); the platform lock and the size of
  a plan's files are covered by `Refuse`.
- Usage counters and logs: read with one query, or written and forgotten.
- Receipts and mail texts, redirect URLs, channels and countries of `internal/billing`.
- The gateways' clients: one HTTP call each; what they talk to is the environment of
  `Billing`. That a mail goes through a client without a timeout is assumed away by the
  fairness of `Retention` (section 4).
- Migrations, which run before the server listens, configuration and wiring.
