------------------------------ MODULE Retention ------------------------------
(***************************************************************************)
(* The daily job of internal/expiry/job.go: it expires subscriptions,      *)
(* reminds their owners, deletes the data of those who do not come back,   *)
(* and warns and then purges inactive users.                               *)
(*                                                                         *)
(* A run is six passes.  A pass selects users with one query and then      *)
(* works through them with separate calls to PostgreSQL, Mailjet and R2,   *)
(* while requests renew subscriptions, upload files and count as activity. *)
(* The quota is in Billing; files are a user's data as a whole; a unit of  *)
(* time is a day.                                                          *)
(***************************************************************************)
EXTENDS Integers

CONSTANTS
  Users,
  PeriodLen,            \* days a payment buys (30)
  GraceLen,             \* days between expiry and deletion (30)
  RemindAt, GraceAt,    \* days before the end when a mail is due (10, 5, 2; 15, 7, 1)
  WarnAfter, PurgeAfter,\* days of inactivity (90, 120)
  PayDelay,             \* days a requested payment may take to be confirmed
  Never,                \* NULL
  MaxTime,              \* bound: last day
  MaxFaults             \* bound: failed calls, failed mails and crashes

ASSUME RetentionAssumption ==
  /\ PeriodLen \in Nat /\ GraceLen \in Nat /\ PayDelay \in Nat
  /\ RemindAt \subseteq Nat /\ GraceAt \subseteq Nat
  /\ RemindAt # {} /\ GraceAt # {} /\ \A d \in GraceAt : d <= GraceLen
  /\ WarnAfter \in Nat /\ PurgeAfter \in Nat
  /\ WarnAfter < PurgeAfter /\ PeriodLen + PayDelay <= PurgeAfter
  /\ Never \notin Nat
  /\ MaxTime \in Nat /\ MaxFaults \in Nat

VARIABLES
  sub,        \* subscriptions row; reminded, graceReminded: the *_at columns that are set
  lastActive, \* users.last_active_at
  warned,     \* users.inactivity_warned_at is set
  files,      \* users that have files rows
  job,        \* pass and call of the job, users selected, user worked on
  ran,        \* the job finished a run today
  now,        \* the day
  faults,     \* faults so far
  mailed,     \* history: mails of this period, of this grace period, day of the last warning
  raced,      \* history: users that renewed or acted while the job had them selected
  late        \* history: users whose mail was marked after they had renewed or acted

requests == <<sub, lastActive, warned, files>>
history == <<mailed, raced, late>>
vars == <<sub, lastActive, warned, files, job, ran, now, faults, mailed, raced, late>>

Passes == {"expire", "remind", "graceRemind", "graceDelete", "warn", "purge"}

JobCalls == {"query", "loop", "mark", "delete", "touch", "clear"}

TypeOK ==
  /\ sub \in [Users -> [status: {"none", "active", "expired"}, until: Nat,
                        grace: Nat \cup {Never},
                        reminded: SUBSET RemindAt, graceReminded: SUBSET GraceAt]]
  /\ lastActive \in [Users -> Nat]
  /\ warned \subseteq Users /\ files \subseteq Users
  /\ job \in [pass: Passes \cup {"idle"}, days: SUBSET (RemindAt \cup GraceAt),
              day: RemindAt \cup GraceAt \cup {Never}, pc: JobCalls,
              todo: SUBSET Users, u: Users \cup {Never}]
  /\ ran \in BOOLEAN /\ now \in Nat /\ faults \in Nat
  /\ mailed \in [Users -> [period: [RemindAt -> Nat], grace: [GraceAt -> Nat],
                           warning: Nat \cup {Never}]]
  /\ raced \subseteq Users /\ late \subseteq Users

Idle == [pass |-> "idle", days |-> {}, day |-> Never, pc |-> "query", todo |-> {}, u |-> Never]
NoMails == [period |-> [d \in RemindAt |-> 0], grace |-> [d \in GraceAt |-> 0],
            warning |-> Never]

Init ==
  /\ sub = [u \in Users |-> [status |-> "none", until |-> 0, grace |-> Never,
                             reminded |-> {}, graceReminded |-> {}]]
  /\ lastActive = [u \in Users |-> 0]
  /\ warned = {} /\ files = {}
  /\ job = Idle /\ ran = FALSE
  /\ now = 0 /\ faults = 0
  /\ mailed = [u \in Users |-> NoMails]
  /\ raced = {} /\ late = {}

-----------------------------------------------------------------------------
(* Requests, between any two calls of the job.                             *)

\* The users whose rows the job has read and still acts upon.
Selected == job.todo \cup (IF job.pc \in {"mark", "delete", "touch", "clear"} THEN {job.u} ELSE {})
Races(u) == raced' = IF u \in Selected THEN raced \cup {u} ELSE raced

\* TrackActivity, after a request that was authenticated
Act(u) ==
  /\ lastActive' = [lastActive EXCEPT ![u] = now]
  /\ warned' = warned \ {u}
  /\ mailed' = [mailed EXCEPT ![u].warning = Never]
  /\ Races(u)
  /\ UNCHANGED <<sub, files, job, ran, now, faults, late>>

\* Mutant: the grace columns keep their values.
Renew_KeepsMarks(u) ==
  /\ now <= lastActive[u] + PayDelay
  /\ sub' = [sub EXCEPT ![u] = [@ EXCEPT !.status = "active", !.until = now + PeriodLen,
                                         !.grace = Never]]
  /\ mailed' = [mailed EXCEPT ![u].period = NoMails.period, ![u].grace = NoMails.grace]
  /\ Races(u)
  /\ UNCHANGED <<lastActive, warned, files, job, ran, now, faults, late>>

\* UpsertSubscription, for a payment that an authenticated request asked for at
\* most PayDelay days ago.  The reminded_* columns keep their values.
Renew(u) ==
  /\ now <= lastActive[u] + PayDelay
  /\ sub' = [sub EXCEPT ![u] = [@ EXCEPT !.status = "active", !.until = now + PeriodLen,
                                         !.grace = Never, !.graceReminded = {}]]
  /\ mailed' = [mailed EXCEPT ![u].period = NoMails.period, ![u].grace = NoMails.grace]
  /\ Races(u)
  /\ UNCHANGED <<lastActive, warned, files, job, ran, now, faults, late>>

Lapsed(u) == sub[u].status = "active" /\ now > sub[u].until

\* Mutant: the third status of the column's comment.
Expired_Cancelled(u) == sub' = [sub EXCEPT ![u] = IF sub[u].status = "active"
                                                   THEN [@ EXCEPT !.status = "cancelled",
                                                                  !.grace = now + GraceLen]
                                                   ELSE @]
Expired(u) == sub' = [sub EXCEPT ![u] = IF sub[u].status = "active"
                                         THEN [@ EXCEPT !.status = "expired",
                                                        !.grace = now + GraceLen]
                                         ELSE @]

\* GetSubscription with expireUser, of which Billing has the single calls.
LazyExpire(u) ==
  /\ Lapsed(u)
  /\ Expired(u)
  /\ UNCHANGED <<lastActive, warned, files, job, ran, now, faults, history>>

\* The row of a file is written; the activity it counts as is a later Act.
Upload(u) ==
  /\ u \notin files
  /\ files' = files \cup {u}
  /\ UNCHANGED <<sub, lastActive, warned, job, ran, now, faults, history>>

-----------------------------------------------------------------------------
(* Run and passes of the job.                                              *)

NextPass == [expire |-> "remind", remind |-> "graceRemind", graceRemind |-> "graceDelete",
             graceDelete |-> "warn", warn |-> "purge", purge |-> "idle"]
DaysOf(pass) == CASE pass = "remind" -> RemindAt
                  [] pass = "graceRemind" -> GraceAt
                  [] OTHER -> {}
Begin(pass) == [Idle EXCEPT !.pass = pass, !.days = DaysOf(pass)]

\* The milestones come in descending order; the other passes have none.
NextDay == IF DaysOf(job.pass) = {} THEN {Never}
           ELSE {d \in job.days : \A e \in job.days : e <= d}

JobStarts ==
  /\ job.pass = "idle"
  /\ job' = Begin("expire")
  /\ UNCHANGED <<requests, ran, now, faults, history>>

Within(days, end) == days - 1 <= end - now /\ end - now <= days + 1
Inactive(u, days) == lastActive[u] < now - days

\* The WHERE clauses of the six queries.
ReminderDue(u, d) == /\ sub[u].status = "active" /\ Within(d, sub[u].until)
                     /\ d \notin sub[u].reminded

InGrace(u) == sub[u].status = "expired" /\ sub[u].grace # Never

\* Mutant: the column that says the mail was sent is not looked at.
GraceReminderDue_Again(u, d) == InGrace(u) /\ Within(d, sub[u].grace)
GraceReminderDue(u, d) == /\ InGrace(u) /\ Within(d, sub[u].grace)
                          /\ d \notin sub[u].graceReminded

GraceOver(u) == InGrace(u) /\ sub[u].grace < now
WarningDue(u) == Inactive(u, WarnAfter) /\ u \notin warned

\* Mutant: the limit is left out.
PurgeDue_AtOnce(u) == Inactive(u, 0)
PurgeDue(u) == Inactive(u, PurgeAfter)

Due(u, d) ==
  \/ job.pass = "expire" /\ Lapsed(u)
  \/ job.pass = "remind" /\ ReminderDue(u, d)
  \/ job.pass = "graceRemind" /\ GraceReminderDue(u, d)
  \/ job.pass = "graceDelete" /\ GraceOver(u)
  \/ job.pass = "warn" /\ WarningDue(u)
  \/ job.pass = "purge" /\ PurgeDue(u)

Query ==
  /\ job.pass # "idle" /\ job.pc = "query"
  /\ \E d \in NextDay :
       job' = [job EXCEPT !.pc = "loop", !.day = d, !.todo = {u \in Users : Due(u, d)}]
  /\ raced' = {}
  /\ UNCHANGED <<requests, ran, now, faults, mailed, late>>

\* The loop over the users is done: the next milestone, the next pass, or the end.
PassEnds ==
  /\ job.pc = "loop" /\ job.todo = {}
  /\ LET rest == job.days \ {job.day} IN
       job' = IF rest # {} THEN [Begin(job.pass) EXCEPT !.days = rest]
                           ELSE Begin(NextPass[job.pass])
  /\ ran' = (ran \/ job.pass = "purge")
  /\ UNCHANGED <<requests, now, faults, history>>

-----------------------------------------------------------------------------
(* What the loops do for a user.                                           *)

Taken(u) == job.pc = "loop" /\ u \in job.todo
Then(pc, u) == job' = [job EXCEPT !.pc = pc, !.todo = @ \ {u}, !.u = u]
Done == job' = [job EXCEPT !.pc = "loop", !.u = Never]

ExpireUser(u) ==
  /\ job.pass = "expire" /\ Taken(u)
  /\ Expired(u)
  /\ Then("loop", u)
  /\ UNCHANGED <<lastActive, warned, files, ran, now, faults, history>>

MailUser(u) ==
  /\ Taken(u)
  /\ \/ /\ job.pass = "remind"
        /\ mailed' = [mailed EXCEPT ![u].period[job.day] = @ + 1]
     \/ /\ job.pass = "graceRemind"
        /\ mailed' = [mailed EXCEPT ![u].grace[job.day] = @ + 1]
     \/ /\ job.pass = "warn"
        /\ mailed' = [mailed EXCEPT ![u].warning = now]
  /\ Then("mark", u)
  /\ UNCHANGED <<requests, ran, now, faults, raced, late>>

\* SET reminded_.. = now() and the like, by user id alone
MarkUser ==
  LET u == job.u IN
  /\ job.pc = "mark"
  /\ \/ /\ job.pass = "remind" /\ UNCHANGED warned
        /\ sub' = [sub EXCEPT ![u].reminded = @ \cup {job.day}]
     \/ /\ job.pass = "graceRemind" /\ UNCHANGED warned
        /\ sub' = [sub EXCEPT ![u].graceReminded = @ \cup {job.day}]
     \/ /\ job.pass = "warn" /\ UNCHANGED sub
        /\ warned' = warned \cup {u}
  /\ late' = IF u \in raced THEN late \cup {u} ELSE late
  /\ Done
  /\ UNCHANGED <<lastActive, files, ran, now, faults, mailed, raced>>

\* What follows deleteUserFiles: only the grace period has something to clear.
AfterFiles == IF job.pass = "graceDelete" THEN "clear" ELSE "loop"

\* deleteUserFiles selects the rows, and returns at once when there are none.
SelectFiles(u) ==
  /\ job.pass \in {"graceDelete", "purge"} /\ Taken(u)
  /\ Then(IF u \in files THEN "delete" ELSE AfterFiles, u)
  /\ UNCHANGED <<requests, ran, now, faults, history>>

\* The objects are deleted from R2 and then the rows, whatever they are by now.
DeleteFiles ==
  /\ job.pc = "delete"
  /\ files' = files \ {job.u}
  /\ job' = [job EXCEPT !.pc = "touch"]
  /\ UNCHANGED <<sub, lastActive, warned, ran, now, faults, history>>

TouchUser ==
  /\ job.pc = "touch"
  /\ lastActive' = [lastActive EXCEPT ![job.u] = now]
  /\ warned' = warned \ {job.u}
  /\ mailed' = [mailed EXCEPT ![job.u].warning = Never]
  /\ job' = [job EXCEPT !.pc = AfterFiles]
  /\ UNCHANGED <<sub, files, ran, now, faults, raced, late>>

\* Mutant: the end of the grace period is left in place.
ClearGrace_Skip ==
  /\ job.pc = "clear"
  /\ Done
  /\ UNCHANGED <<requests, ran, now, faults, history>>

ClearGrace ==
  /\ job.pc = "clear"
  /\ sub' = [sub EXCEPT ![job.u].grace = Never]
  /\ Done
  /\ UNCHANGED <<lastActive, warned, files, ran, now, faults, history>>

-----------------------------------------------------------------------------
(* Faults.  Errors are logged and the job goes on: without the query's     *)
(* users, with the next user, or with the next call.                       *)

CallFails ==
  /\ job.pass # "idle" /\ faults < MaxFaults
  /\ \/ job.pc = "query" /\ \E d \in NextDay : job' = [job EXCEPT !.pc = "loop", !.day = d]
     \/ job.pc = "loop" /\ \E u \in job.todo : Then("loop", u)
     \/ job.pc = "touch" /\ job' = [job EXCEPT !.pc = AfterFiles]
     \/ job.pc \in {"mark", "delete", "clear"} /\ Done
  /\ faults' = faults + 1
  /\ UNCHANGED <<requests, ran, now, history>>

\* The server dies; the job runs again when it is up.
Crash ==
  /\ job.pass # "idle" /\ faults < MaxFaults
  /\ job' = Idle
  /\ faults' = faults + 1
  /\ UNCHANGED <<requests, ran, now, history>>

\* The ticker fires every day, and a run ends within the day.
Tick ==
  /\ now < MaxTime /\ ran /\ job.pass = "idle"
  /\ now' = now + 1
  /\ ran' = FALSE
  /\ UNCHANGED <<requests, job, faults, history>>

Request(u) == Act(u) \/ Renew(u) \/ LazyExpire(u) \/ Upload(u)

JobStep ==
  \/ JobStarts \/ Query \/ PassEnds
  \/ \E u \in Users : ExpireUser(u) \/ MailUser(u) \/ SelectFiles(u)
  \/ MarkUser \/ DeleteFiles \/ TouchUser \/ ClearGrace

Next ==
  \/ \E u \in Users : Request(u)
  \/ JobStep \/ CallFails \/ Crash \/ Tick

Spec == Init /\ [][Next]_vars

\* The job's calls return and its ticker fires.
FairSpec == Spec /\ WF_vars(JobStep)

-----------------------------------------------------------------------------
(* Properties.                                                             *)

Paying(u) == sub[u].status = "active" /\ now <= sub[u].until
LosesFiles(u) == u \in files /\ u \notin files'
Expires(u) == sub[u].status = "active" /\ sub'[u].status = "expired"

\* Someone whose paid period is running loses no files, neither to the grace
\* period of an earlier one nor to inactivity, unless the payment arrived while
\* the job was already working on its selection.  Inactivity cannot strike
\* because paying takes an authenticated request and the period is shorter than
\* the limit.  (deleteGracePeriodData, deleteExpiredFiles.)
PayerKeepsFiles == [][\A u \in Users : LosesFiles(u) /\ Paying(u) => u \in raced]_vars

\* When all calls succeed, files are deleted at the end of the grace period only
\* after a reminder for every milestone of that grace period, first or not.
\* Excused is who renewed or acted in the job's hands.
GraceReminded ==
  [][\A u \in Users :
       LosesFiles(u) /\ job.pass = "graceDelete" /\ faults = 0 /\ u \notin raced \cup late =>
         \A d \in GraceAt : mailed[u].grace[d] > 0]_vars

\* When all calls succeed, files are purged only PurgeAfter - WarnAfter days
\* after the owner was warned in the same spell of inactivity.
WarnedBeforePurge ==
  [][\A u \in Users :
       LosesFiles(u) /\ job.pass = "purge" /\ faults = 0 /\ u \notin raced \cup late =>
         mailed[u].warning # Never /\ now - mailed[u].warning >= PurgeAfter - WarnAfter]_vars

\* No reminder is sent twice in a period unless a call fails.
RemindedOnce ==
  faults = 0 => \A u \in Users : /\ \A d \in RemindAt : mailed[u].period[d] <= 1
                                 /\ \A d \in GraceAt : mailed[u].grace[d] <= 1

\* When all calls succeed, a subscription expires only after a reminder for
\* every milestone of the period that ends.
RemindedBeforeExpiry ==
  [][\A u \in Users : Expires(u) /\ faults = 0 /\ u \notin raced \cup late =>
       \A d \in RemindAt : mailed[u].period[d] > 0]_vars

\* The end of a grace period is acted upon, even if calls fail or the server
\* crashes half way through: the data is deleted or the user has renewed.
GraceEnds ==
  \A u \in Users : sub[u].grace # Never /\ sub[u].grace < now ~> sub[u].grace = Never

-----------------------------------------------------------------------------
(* The inductive invariant behind PayerKeepsFiles.                         *)

Deleting == {"graceDelete", "purge"}

\* The job's place in its run, and that it knows whom and what it works on.
JobInPlace ==
  /\ job.pass = "idle" => job.pc = "query"
  /\ job.pc = "query" => job.todo = {}
  /\ job.pc \in {"mark", "delete", "touch", "clear"} => job.u \in Users
  /\ job.pc = "delete" => job.pass \in Deleting
  /\ job.days \subseteq DaysOf(job.pass)
  /\ job.pc # "query" /\ DaysOf(job.pass) # {} => job.day \in DaysOf(job.pass)

\* A paid period ends too soon after the activity it was bought in to be cut
\* off by inactivity.
PayersAreActive ==
  \A u \in Users : /\ lastActive[u] <= now
                   /\ sub[u].status = "active" =>
                        sub[u].until <= lastActive[u] + PayDelay + PeriodLen

\* Whom the job has selected for deletion had no running period, unless by now.
OnlyRacersPay ==
  job.pass \in Deleting => \A u \in Selected : Paying(u) => u \in raced

RInv == TypeOK /\ JobInPlace /\ PayersAreActive /\ OnlyRacersPay

=============================================================================
