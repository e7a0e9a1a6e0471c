------------------------------- MODULE Billing -------------------------------
(***************************************************************************)
(* Subscriptions, payments, storage add-ons and the quota they grant       *)
(* (internal/billing/service.go and store.go, and expireSubscriptions of   *)
(* internal/expiry/job.go).                                                *)
(*                                                                         *)
(* Every request handler is a process of its own that talks to PostgreSQL  *)
(* and to the payment gateway one call at a time, outside any transaction: *)
(* between two calls anything else may run.  worker[w].pc names the call   *)
(* the process is about to make.  The daily job is the process Job.        *)
(*                                                                         *)
(* The two payment tables (billing_payments, storage_addons) are one       *)
(* ledger, since the code treats their status columns alike.  Bytes are    *)
(* kept symbolic: a quota is the plan whose storage_bytes were taken and   *)
(* the set of add-ons whose bytes were added to it.                        *)
(***************************************************************************)
EXTENDS Integers, FiniteSets

CONSTANTS
  Users,
  Payments,     \* the subscription checkouts that may be requested
  Addons,       \* the add-on checkouts that may be requested
  Owner,        \* the user who requests each of them
  Plans, Free,  \* the plans, and the one with slug 'free'
  AddonPlans,   \* the plans with addons_enabled
  PlanOf,       \* the plan each payment buys
  Workers,      \* request goroutines
  Job,          \* the goroutine of expiry.Job
  None,         \* no purchase, no user
  PeriodLen,    \* length of the paid period (one month)
  MaxTime,      \* bound: ticks of the clock
  Unsigned,     \* purchases made at SasPay while SASPAY_WEBHOOK_SECRET is unset
  MaxFaults,    \* bound: failed calls, lost answers and crashes
  MaxActive     \* bound: processes under way at once

Purchases == Payments \cup Addons
Procs == Workers \cup {Job}

ASSUME BillingAssumption ==
  /\ Payments \cap Addons = {}
  /\ Owner \in [Purchases -> Users]
  /\ Free \in Plans /\ AddonPlans \subseteq Plans
  /\ PlanOf \in [Payments -> Plans \ {Free}]
  /\ None \notin Users \cup Purchases
  /\ Job \notin Workers
  /\ Unsigned \subseteq Purchases
  /\ PeriodLen \in Nat /\ MaxTime \in Nat
  /\ MaxFaults \in Nat /\ MaxActive \in Nat

VARIABLES
  sub,        \* subscriptions row of each user
  quota,      \* users.storage_quota_bytes
  ledger,     \* status of each payment or add-on row; gid: adullam_id is set
  gateway,    \* what the payment gateway holds for each purchase
  acked,      \* purchases whose completion webhook was answered with 200
  worker,     \* the processes
  todo,       \* users the running job selected and has not reached yet
  now,        \* the clock
  faults,     \* faults so far
  activated,  \* history: purchases whose activation ran to its last write
  claimed     \* history: purchases for which an event nobody signed was taken

vars == <<sub, quota, ledger, gateway, acked, worker, todo, now, faults, activated, claimed>>

-----------------------------------------------------------------------------
(* Values. "failed" stands for failed and expired: both are final and      *)
(* nothing distinguishes them.                                             *)

Status == {"pending", "processing", "completed", "failed"}

\* Mutant: a payment in progress is left to the webhook.
isTerminal_NotPending(s) == s # "pending"

isTerminal(s) == s \in {"completed", "failed"}

Quotas == [plan: Plans, adds: SUBSET Addons]
FreeQuota == [plan |-> Free, adds |-> {}]

Calls == {"insert", "create", "store", "refuse", "complete", "ask", "record",
          "upsert", "base", "sum", "quota", "expire", "reset"}
Idle == [pc |-> "idle", hook |-> FALSE, u |-> None, p |-> None,
         s |-> "none", q |-> FreeQuota]
ProcState == [pc: Calls \cup {"idle"}, hook: BOOLEAN, u: Users \cup {None},
              p: Purchases \cup {None}, s: Status \cup {"none"}, q: Quotas]

TypeOK ==
  /\ sub \in [Users -> [status: {"none", "active", "expired"}, plan: Plans, until: Nat]]
  /\ quota \in [Users -> Quotas]
  /\ ledger \in [Purchases -> [status: Status \cup {"none"}, gid: BOOLEAN]]
  /\ gateway \in [Purchases -> Status \cup {"none"}]
  /\ acked \subseteq Purchases
  /\ worker \in [Procs -> ProcState]
  /\ todo \subseteq Users
  /\ now \in Nat /\ faults \in Nat
  /\ activated \subseteq Purchases /\ claimed \subseteq Unsigned

Init ==
  /\ sub = [u \in Users |-> [status |-> "none", plan |-> Free, until |-> 0]]
  /\ quota = [u \in Users |-> FreeQuota]
  /\ ledger = [p \in Purchases |-> [status |-> "none", gid |-> FALSE]]
  /\ gateway = [p \in Purchases |-> "none"]
  /\ acked = {} /\ todo = {} /\ activated = {} /\ claimed = {}
  /\ worker = [w \in Procs |-> Idle]
  /\ now = 0 /\ faults = 0

-----------------------------------------------------------------------------
(* Processes.                                                              *)

Busy == {w \in Procs : worker[w].pc # "idle"} \cup (IF todo # {} THEN {Job} ELSE {})
Admitted(w) == worker[w].pc = "idle" /\ Cardinality(Busy) < MaxActive

At(w, pc) == worker[w].pc = pc
Become(w, state) == worker' = [worker EXCEPT ![w] = state]
Goto(w, pc) == Become(w, [worker[w] EXCEPT !.pc = pc])
Start(w, pc, p) == Become(w, [Idle EXCEPT !.pc = pc, !.p = p, !.u = Owner[p]])
Return(w) == Become(w, Idle)

\* The lapsed subscriptions both GetSubscription and the job look for.
Lapsed(u) == sub[u].status = "active" /\ now > sub[u].until

\* Mutant: the sum does not filter on the status.
CompletedAddons_AnyStatus(u) == {a \in Addons : Owner[a] = u /\ ledger[a].status # "none"}

\* SumCompletedAddonBytes
CompletedAddons(u) == {a \in Addons : Owner[a] = u /\ ledger[a].status = "completed"}

\* UpdatePaymentStatus, UpdateAddonStatus: unconditional, by primary key
UpdateStatus(p, s, id) == ledger' = [ledger EXCEPT ![p] = [status |-> s, gid |-> id]]

-----------------------------------------------------------------------------
(* InitiateCheckout, InitiateAddonCheckout.                                *)

\* The checks before the row is written.  An add-on needs a subscription row
\* whose plan allows add-ons; the row's status is not looked at.
CheckoutAllowed(p) ==
  p \in Addons => /\ sub[Owner[p]].status # "none"
                  /\ sub[Owner[p]].plan \in AddonPlans

InitiateCheckout(w, p) ==
  /\ Admitted(w)
  /\ ledger[p].status = "none" /\ \A v \in Procs : worker[v].p # p
  /\ CheckoutAllowed(p)
  /\ Start(w, "insert", p)
  /\ UNCHANGED <<sub, quota, ledger, gateway, acked, todo, now, faults, activated, claimed>>

InsertRow(w) ==
  /\ At(w, "insert")
  /\ UpdateStatus(worker[w].p, "pending", FALSE)
  /\ Goto(w, "create")
  /\ UNCHANGED <<sub, quota, gateway, acked, todo, now, faults, activated, claimed>>

\* Mutant: the status of the answer is stored as the gateway spells it.
GatewayCreates_RawStatus(w) ==
  /\ At(w, "create")
  /\ gateway' = [gateway EXCEPT ![worker[w].p] = "completed"]
  /\ Become(w, [worker[w] EXCEPT !.pc = "store", !.s = "SUCCESS"])
  /\ UNCHANGED <<sub, quota, ledger, acked, todo, now, faults, activated, claimed>>

\* The answer may carry any status, remote.Status or what NormaliseStatus makes
\* of it: with a customer who confirms at once the purchase is completed already.
GatewayCreates(w) ==
  /\ At(w, "create")
  /\ \E s \in Status : /\ gateway' = [gateway EXCEPT ![worker[w].p] = s]
                       /\ Become(w, [worker[w] EXCEPT !.pc = "store", !.s = s])
  /\ UNCHANGED <<sub, quota, ledger, acked, todo, now, faults, activated, claimed>>

GatewayRefuses(w) ==
  /\ At(w, "create")
  /\ Goto(w, "refuse")
  /\ UNCHANGED <<sub, quota, ledger, gateway, acked, todo, now, faults, activated, claimed>>

\* The gateway created the payment but the call timed out.
GatewayAnswerLost(w) ==
  /\ At(w, "create") /\ faults < MaxFaults
  /\ \E s \in Status : gateway' = [gateway EXCEPT ![worker[w].p] = s]
  /\ Goto(w, "refuse")
  /\ faults' = faults + 1
  /\ UNCHANGED <<sub, quota, ledger, acked, todo, now, activated, claimed>>

\* Whatever the status, nothing is activated here.
StoreAnswer(w) ==
  /\ At(w, "store")
  /\ UpdateStatus(worker[w].p, worker[w].s, TRUE)
  /\ Return(w)
  /\ UNCHANGED <<sub, quota, gateway, acked, todo, now, faults, activated, claimed>>

StoreRefusal(w) ==
  /\ At(w, "refuse")
  /\ UpdateStatus(worker[w].p, "failed", FALSE)
  /\ Return(w)
  /\ UNCHANGED <<sub, quota, gateway, acked, todo, now, faults, activated, claimed>>

-----------------------------------------------------------------------------
(* HandleWebhook, HandleSaspayWebhook.  The gateway repeats a completion   *)
(* webhook until it is answered with 200, and may send it twice at once.   *)

WebhookIgnored(p) ==
  /\ gateway[p] = "completed" /\ p \notin acked
  /\ ~ledger[p].gid \/ ledger[p].status = "completed"
  /\ acked' = acked \cup {p}
  /\ UNCHANGED <<sub, quota, ledger, gateway, worker, todo, now, faults, activated, claimed>>

\* Mutant: the status in the webhook's payload is not looked at.
WebhookFound_AnyEvent(w, p) ==
  /\ Admitted(w)
  /\ gateway[p] # "none" /\ p \notin acked
  /\ ledger[p].gid /\ ledger[p].status # "completed"
  /\ Become(w, [Idle EXCEPT !.pc = "complete", !.hook = TRUE, !.p = p, !.u = Owner[p]])
  /\ UNCHANGED <<sub, quota, ledger, gateway, acked, todo, now, faults, activated, claimed>>

WebhookFound(w, p) ==
  /\ Admitted(w)
  /\ gateway[p] = "completed" /\ p \notin acked
  /\ ledger[p].gid /\ ledger[p].status # "completed"
  /\ Become(w, [Idle EXCEPT !.pc = "complete", !.hook = TRUE, !.p = p, !.u = Owner[p]])
  /\ UNCHANGED <<sub, quota, ledger, gateway, acked, todo, now, faults, activated, claimed>>

\* Without SASPAY_WEBHOOK_SECRET saspayWebhook checks no signature, and
\* HandleSaspayWebhook believes the id in a success event whoever sent it.
UnsignedWebhook(w, p) ==
  /\ Admitted(w)
  /\ p \in Unsigned
  /\ ledger[p].gid /\ ledger[p].status # "completed"
  /\ claimed' = claimed \cup {p}
  /\ Become(w, [Idle EXCEPT !.pc = "complete", !.hook = FALSE, !.p = p, !.u = Owner[p]])
  /\ UNCHANGED <<sub, quota, ledger, gateway, acked, todo, now, faults, activated>>

\* Where activateSubscription and activateAddon begin.
Activation(p) == IF p \in Payments THEN "upsert" ELSE "base"

WebhookCompletes(w) ==
  /\ At(w, "complete")
  /\ UpdateStatus(worker[w].p, "completed", TRUE)
  /\ Goto(w, Activation(worker[w].p))
  /\ UNCHANGED <<sub, quota, gateway, acked, todo, now, faults, activated, claimed>>

-----------------------------------------------------------------------------
(* GetPaymentStatus, GetAddonStatus: the polling client.                   *)

GetStatus(w, p) ==
  /\ Admitted(w)
  /\ ledger[p].gid /\ ~isTerminal(ledger[p].status)
  /\ Become(w, [Idle EXCEPT !.pc = "ask", !.s = ledger[p].status, !.p = p, !.u = Owner[p]])
  /\ UNCHANGED <<sub, quota, ledger, gateway, acked, todo, now, faults, activated, claimed>>

PollAnswered(w) ==
  /\ At(w, "ask")
  /\ IF gateway[worker[w].p] = worker[w].s
     THEN Return(w)
     ELSE Become(w, [worker[w] EXCEPT !.pc = "record", !.s = gateway[worker[w].p]])
  /\ UNCHANGED <<sub, quota, ledger, gateway, acked, todo, now, faults, activated, claimed>>

\* Mutant: any progress of the payment activates.
AfterRecord_Early(w) == IF worker[w].s # "failed"
                        THEN Goto(w, Activation(worker[w].p))
                        ELSE Return(w)

\* Mutant: the poll leaves the activation to the webhook.
AfterRecord_Never(w) == Return(w)

\* The status the gateway gave decides, whether or not it could be written.
AfterRecord(w) == IF worker[w].s = "completed"
                  THEN Goto(w, Activation(worker[w].p))
                  ELSE Return(w)

\* Mutant: the poll writes the status without the id.
PollRecords_NoId(w) ==
  /\ At(w, "record")
  /\ UpdateStatus(worker[w].p, worker[w].s, FALSE)
  /\ AfterRecord(w)
  /\ UNCHANGED <<sub, quota, gateway, acked, todo, now, faults, activated, claimed>>

PollRecords(w) ==
  /\ At(w, "record")
  /\ UpdateStatus(worker[w].p, worker[w].s, TRUE)
  /\ AfterRecord(w)
  /\ UNCHANGED <<sub, quota, gateway, acked, todo, now, faults, activated, claimed>>

-----------------------------------------------------------------------------
(* activateSubscription, activateAddon.                                    *)

UpsertSubscription(w) ==
  LET plan == PlanOf[worker[w].p] IN
  /\ At(w, "upsert")
  /\ sub' = [sub EXCEPT ![worker[w].u] =
               [status |-> "active", plan |-> plan, until |-> now + PeriodLen]]
  /\ Become(w, [worker[w] EXCEPT !.pc = "sum", !.q = [plan |-> plan, adds |-> {}]])
  /\ UNCHANGED <<quota, ledger, gateway, acked, todo, now, faults, activated, claimed>>

\* Mutant: an add-on is added to the free plan's bytes.
AddonBase_Free(w) ==
  /\ At(w, "base")
  /\ Become(w, [worker[w] EXCEPT !.pc = "sum", !.q = FreeQuota])
  /\ UNCHANGED <<sub, quota, ledger, gateway, acked, todo, now, faults, activated, claimed>>

\* The base of an add-on is the plan of the row, active or not.
AddonBase(w) ==
  LET row == sub[worker[w].u] IN
  /\ At(w, "base")
  /\ Become(w, [worker[w] EXCEPT !.pc = "sum",
                  !.q = [plan |-> IF row.status = "none" THEN Free ELSE row.plan,
                         adds |-> {}]])
  /\ UNCHANGED <<sub, quota, ledger, gateway, acked, todo, now, faults, activated, claimed>>

SumCompletedAddonBytes(w) ==
  /\ At(w, "sum")
  /\ Become(w, [worker[w] EXCEPT !.pc = "quota", !.q.adds = CompletedAddons(worker[w].u)])
  /\ UNCHANGED <<sub, quota, ledger, gateway, acked, todo, now, faults, activated, claimed>>

SetQuota(w) ==
  /\ At(w, "quota")
  /\ quota' = [quota EXCEPT ![worker[w].u] = worker[w].q]
  /\ activated' = activated \cup {worker[w].p}
  /\ acked' = IF worker[w].hook THEN acked \cup {worker[w].p} ELSE acked
  /\ Return(w)
  /\ UNCHANGED <<sub, ledger, gateway, todo, now, faults, claimed>>

-----------------------------------------------------------------------------
(* Expiry: GetSubscription and expireUser in a request,                    *)
(* expireSubscriptions in the daily job.                                   *)

GetSubscription(w, u) ==
  /\ Admitted(w)
  /\ Lapsed(u)
  /\ Become(w, [Idle EXCEPT !.pc = "expire", !.u = u])
  /\ UNCHANGED <<sub, quota, ledger, gateway, acked, todo, now, faults, activated, claimed>>

\* Mutant: the job skips users whose quota is the free one already.
JobSelects_SkipFree ==
  /\ Admitted(Job) /\ todo = {}
  /\ todo' = {u \in Users : Lapsed(u) /\ quota[u] # FreeQuota} /\ todo' # {}
  /\ UNCHANGED <<sub, quota, ledger, gateway, acked, worker, now, faults, activated, claimed>>

JobSelects ==
  /\ Admitted(Job) /\ todo = {}
  /\ todo' = {u \in Users : Lapsed(u)} /\ todo' # {}
  /\ UNCHANGED <<sub, quota, ledger, gateway, acked, worker, now, faults, activated, claimed>>

JobTakes(u) ==
  /\ At(Job, "idle") /\ u \in todo
  /\ todo' = todo \ {u}
  /\ Become(Job, [Idle EXCEPT !.pc = "expire", !.u = u])
  /\ UNCHANGED <<sub, quota, ledger, gateway, acked, now, faults, activated, claimed>>

\* Mutant: the quota of an expired user is not reset.
ExpireSubscription_NoReset(w) ==
  LET u == worker[w].u IN
  /\ At(w, "expire")
  /\ sub' = IF sub[u].status = "active" THEN [sub EXCEPT ![u].status = "expired"] ELSE sub
  /\ Return(w)
  /\ UNCHANGED <<quota, ledger, gateway, acked, todo, now, faults, activated, claimed>>

\* WHERE user_id = $1 AND status = 'active'; the period is not compared again
ExpireSubscription(w) ==
  LET u == worker[w].u IN
  /\ At(w, "expire")
  /\ sub' = IF sub[u].status = "active" THEN [sub EXCEPT ![u].status = "expired"] ELSE sub
  /\ Goto(w, "reset")
  /\ UNCHANGED <<quota, ledger, gateway, acked, todo, now, faults, activated, claimed>>

ResetQuota(w) ==
  /\ At(w, "reset")
  /\ quota' = [quota EXCEPT ![worker[w].u] = FreeQuota]
  /\ Return(w)
  /\ UNCHANGED <<sub, ledger, gateway, acked, todo, now, faults, activated, claimed>>

-----------------------------------------------------------------------------
(* Faults: a call that returns an error (or whose request context was      *)
(* cancelled by the client), and a crash of the server.                    *)

\* What the handler does with the error of the call it made.
OnError(w) ==
  CASE At(w, "record") -> AfterRecord(w)
    [] At(w, "sum") /\ worker[w].p \in Payments -> Goto(w, "quota")
    [] OTHER -> Return(w)

CallFails(w) ==
  /\ ~At(w, "idle") /\ faults < MaxFaults
  /\ OnError(w)
  /\ faults' = faults + 1
  /\ UNCHANGED <<sub, quota, ledger, gateway, acked, todo, now, activated, claimed>>

Crash ==
  /\ Busy # {} /\ faults < MaxFaults
  /\ worker' = [w \in Procs |-> Idle]
  /\ todo' = {}
  /\ faults' = faults + 1
  /\ UNCHANGED <<sub, quota, ledger, gateway, acked, now, activated, claimed>>

-----------------------------------------------------------------------------
(* The environment.                                                        *)

Tick ==
  /\ now < MaxTime
  /\ now' = now + 1
  /\ UNCHANGED <<sub, quota, ledger, gateway, acked, worker, todo, faults, activated, claimed>>

\* The customer confirms, refuses or lets the payment run out.
GatewayMoves(p) ==
  /\ \/ gateway[p] = "pending" /\ gateway' = [gateway EXCEPT ![p] = "processing"]
     \/ /\ gateway[p] \in {"pending", "processing"}
        /\ \E s \in {"completed", "failed"} : gateway' = [gateway EXCEPT ![p] = s]
  /\ UNCHANGED <<sub, quota, ledger, acked, worker, todo, now, faults, activated, claimed>>

-----------------------------------------------------------------------------
(* The next call of a process that is under way. *)
Step(w) ==
  \/ InsertRow(w) \/ GatewayCreates(w) \/ GatewayRefuses(w)
  \/ StoreAnswer(w) \/ StoreRefusal(w)
  \/ WebhookCompletes(w) \/ PollAnswered(w) \/ PollRecords(w)
  \/ UpsertSubscription(w) \/ AddonBase(w) \/ SumCompletedAddonBytes(w) \/ SetQuota(w)
  \/ ExpireSubscription(w) \/ ResetQuota(w)

Arrival(w) ==
  \/ \E p \in Purchases : \/ InitiateCheckout(w, p) \/ GetStatus(w, p)
                         \/ WebhookFound(w, p) \/ UnsignedWebhook(w, p)
  \/ \E u \in Users : GetSubscription(w, u)

Next ==
  \/ \E w \in Workers : Arrival(w)
  \/ \E w \in Procs : Step(w) \/ GatewayAnswerLost(w) \/ CallFails(w)
  \/ JobSelects \/ \E u \in Users : JobTakes(u)
  \/ \E p \in Purchases : WebhookIgnored(p) \/ GatewayMoves(p)
  \/ Crash \/ Tick

Spec == Init /\ [][Next]_vars

\* Goroutines make progress, the ticker fires, the gateway repeats a webhook
\* that was not answered with 200 and the client polls what it is waiting for.
\* What starts a process is strongly fair because only the bound MaxActive
\* keeps it waiting; the server has no such limit.
Fairness ==
  /\ \A w \in Procs : WF_vars(Step(w))
  /\ SF_vars(JobSelects) /\ WF_vars(\E u \in Users : JobTakes(u))
  /\ \A p \in Purchases :
       /\ WF_vars(WebhookIgnored(p))
       /\ SF_vars(\E w \in Workers : WebhookFound(w, p))
       /\ SF_vars(\E w \in Workers : GetStatus(w, p))

FairSpec == Spec /\ Fairness

-----------------------------------------------------------------------------
(* Properties.                                                             *)

\* What the billing code has reason to take for paid: the gateway took the
\* payment or, where no secret is set, an event said so.
Confirmed == {p \in Purchases : gateway[p] = "completed"} \cup claimed
Paid(u) == {p \in Confirmed : Owner[p] = u}
PaidPlans(u) == {PlanOf[p] : p \in Paid(u) \cap Payments}
Quiet == Busy = {}
Overdue(u) == sub[u].status = "active" /\ now > sub[u].until

\* A subscription row, active or expired, names a plan for which the gateway
\* took that user's payment: no interleaving of webhook, poll, checkout and
\* expiry, no lost call and no crash opens a plan nobody paid.  The one other
\* way in is a success event for an unsigned purchase.
\* (activateSubscription, whoever calls it.)
PaidForPlan ==
  \A u \in Users : sub[u].status # "none" => sub[u].plan \in PaidPlans(u)

\* The storage quota in force is made of the free plan or a plan the user paid,
\* and of add-ons the user paid (or that an unsigned event confirmed), although
\* it is computed from rows read several calls before it is written.
\* (setQuota in activateSubscription, activateAddon.)
QuotaPaidFor ==
  \A u \in Users : /\ quota[u].plan \in PaidPlans(u) \cup {Free}
                   /\ quota[u].adds \subseteq Paid(u)

\* A row says completed only if the gateway took the payment (or an unsigned
\* event said so), whatever order the answers of the gateway are written in.
\* (UpdatePaymentStatus, UpdateAddonStatus.)
LedgerFollowsGateway ==
  \A p \in Purchases : ledger[p].status = "completed" => p \in Confirmed

\* Once the gateway's id is stored with a row it stays: the unconditional
\* update of a refused checkout, which clears it, never hits such a row, and a
\* webhook can find the row from then on.  (adullam_id = NULLIF($3, '').)
GatewayIdKept == [][\A p \in Purchases : ledger[p].gid => ledger'[p].gid]_vars

\* With no process under way, the add-ons of an expired subscriber are out of
\* the quota.
AddonsSuspended ==
  Quiet => \A u \in Users : sub[u].status = "expired" => quota[u].adds = {}

\* Only a subscription whose paid period is over is expired.
OnlyLapsedExpire ==
  [][\A u \in Users : sub[u].status = "active" /\ sub'[u].status = "expired" => Overdue(u)]_vars

\* A row that says completed gets the subscription or the add-on activated.
CompletedIsActivated == \A p \in Purchases : ledger[p].status = "completed" ~> p \in activated

\* The row of a payment the gateway took, once it has its id, says completed
\* from some moment on, for good: a poll that asked before the confirmation may
\* write its older status over the webhook's, which is not repeated, but a later
\* poll corrects it.  (GetPaymentStatus against HandleWebhook.)
RowSettles ==
  \A p \in Purchases :
    gateway[p] = "completed" /\ ledger[p].gid ~> [](ledger[p].status = "completed")

\* A lapsed subscription does not stay active, even when calls fail or the
\* server crashes: the next run of the job selects it again.
LapsedIsExpired == \A u \in Users : Overdue(u) ~> ~Overdue(u)

\* Billing implements the abstract ledger of entitlements.
Ent == INSTANCE Entitlement WITH
         paid <- {p \in Purchases : gateway[p] = "completed"},
         plan <- [u \in Users |-> sub[u].plan]
EntitlementSpec == Ent!Spec

-----------------------------------------------------------------------------
(* The inductive invariant behind PaidForPlan, QuotaPaidFor,               *)
(* LedgerFollowsGateway and GatewayIdKept.                                 *)

CheckoutCalls == {"insert", "create", "store", "refuse"}
StatusCalls == {"complete", "ask", "record"}
ActivationCalls == {"upsert", "base", "sum", "quota"}

\* Every process knows what it works on.
Assigned(w) ==
  /\ worker[w].pc \in CheckoutCalls \cup StatusCalls \cup ActivationCalls =>
       worker[w].p \in Purchases /\ worker[w].u = Owner[worker[w].p]
  /\ At(w, "upsert") => worker[w].p \in Payments
  /\ worker[w].pc \in {"expire", "reset"} => worker[w].u \in Users

\* A row, its gateway id and the gateway's own record appear in this order.
RowsInOrder ==
  \A p \in Purchases : /\ ledger[p].status = "none" => gateway[p] = "none"
                       /\ ledger[p].gid => gateway[p] # "none"

\* One process runs a checkout, and the row has no gateway id before its end.
CheckoutOwnsRow(w) ==
  LET p == worker[w].p IN
  /\ worker[w].pc \in CheckoutCalls =>
       /\ ~ledger[p].gid
       /\ \A v \in Procs : worker[v].pc \in CheckoutCalls /\ worker[v].p = p => v = w
  /\ worker[w].pc \in {"insert", "create"} => gateway[p] = "none"
  /\ At(w, "create") => ledger[p].status # "none"
  /\ At(w, "store") => /\ gateway[p] # "none" /\ worker[w].s # "none"
                       /\ worker[w].s = "completed" => gateway[p] = "completed"

\* A webhook or a poll works on a row that has its gateway id, and whatever is
\* activated, or about to be, is confirmed.
OnlyPaidActivates(w) ==
  LET p == worker[w].p IN
  /\ worker[w].pc \in StatusCalls => ledger[p].gid
  /\ At(w, "record") => worker[w].s # "none"
  /\ At(w, "record") /\ worker[w].s = "completed" => gateway[p] = "completed"
  /\ worker[w].pc \in ActivationCalls \cup {"complete"} => p \in Confirmed
  /\ worker[w].pc \in {"sum", "quota"} =>
       /\ worker[w].q.plan \in PaidPlans(worker[w].u) \cup {Free}
       /\ worker[w].q.adds \subseteq Paid(worker[w].u)

IInv ==
  /\ TypeOK
  /\ \A w \in Procs : Assigned(w) /\ CheckoutOwnsRow(w) /\ OnlyPaidActivates(w)
  /\ RowsInOrder
  /\ LedgerFollowsGateway /\ PaidForPlan /\ QuotaPaidFor

=============================================================================
