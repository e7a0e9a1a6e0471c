------------------------------ MODULE Webhooks ------------------------------
(***************************************************************************)
(* Webhooks of a project (internal/webhooks) and their delivery.           *)
(*                                                                         *)
(* Fire starts a goroutine for an event: it lists the active webhooks and  *)
(* serves the subscribed ones one after the other, each with up to         *)
(* maxAttempts requests, and inserts a webhook_deliveries row for each.    *)
(* One context of Deadline seconds covers the calls of the database and    *)
(* none of the requests.  What has been listed is not read again while     *)
(* the user changes and deletes webhooks.                                  *)
(*                                                                         *)
(* Only the time a goroutine itself has spent matters, so that each has a  *)
(* clock of its own; calls of the database take none of it.                *)
(***************************************************************************)
EXTENDS Integers, FiniteSets, FiniteSetsExt

CONSTANTS
  Hooks,         \* the ids webhooks may get
  Urls, Events,
  Fires, EventOf,\* calls of Fire, each with a goroutine of its own, and the event of each
  maxAttempts, deliveryTimeout,
  Deadline,      \* the context's, in seconds
  Spans,         \* how long a request may take
  Workers,       \* request goroutines
  None,          \* no webhook; a field a PATCH does not have
  MaxRequests,   \* bound: changes of webhooks
  MaxFaults      \* bound: failed calls and crashes

\* time.Sleep after an attempt that failed.
Pause(n) == IF n < maxAttempts THEN n * n ELSE 0
\* What each attempt may take, and the longest delivery to one webhook.
Cost == [n \in 1 .. maxAttempts |-> deliveryTimeout + Pause(n)]
WorstDelivery == MapThenSumSet(LAMBDA n : Cost[n], 1 .. maxAttempts)

ASSUME WebhooksAssumption ==
  /\ EventOf \in [Fires -> Events]
  /\ maxAttempts \in Nat \ {0} /\ deliveryTimeout \in Nat /\ Deadline \in Nat
  /\ Spans \subseteq 0 .. deliveryTimeout
  /\ None \notin Hooks \cup Urls \cup Events
  /\ MaxRequests \in Nat /\ MaxFaults \in Nat

VARIABLES
  hooks,       \* webhooks rows
  used,        \* the ids given out: uuid.New never returns one again
  run,         \* the goroutines of Fire
  deliveries,  \* webhook_deliveries rows
  req,         \* PATCH requests under way
  begun,       \* requests so far
  faults,      \* faults so far
  oks,         \* history: requests answered with a status below 300
  starts,      \* history: when each delivery began, by its goroutine's clock
  done         \* history: deliveries whose row went to the database

history == <<oks, starts, done>>
vars == <<hooks, used, run, deliveries, req, begun, faults, history>>

Subscriptions == SUBSET Events \ {{}}
HookRow == [url : Urls, events : Subscriptions, active : BOOLEAN]
NoHook == [url |-> None, events |-> {}, active |-> FALSE]
Exists(h) == hooks[h] # NoHook

Unfired == [pc |-> "unfired", todo |-> {}, hook |-> None, attempts |-> 0,
            elapsed |-> 0, success |-> FALSE]
\* todo: webhooks listed, subscribed and not served yet; hook: the one being served.
Goroutine == [pc : {"unfired", "list", "next", "send", "save", "ended", "lost"},
              todo : SUBSET Hooks, hook : Hooks \cup {None},
              attempts : 0 .. maxAttempts, elapsed : Nat, success : BOOLEAN]
DeliveryRow == [fire : Fires, hook : Hooks, success : BOOLEAN, attempts : 1 .. maxAttempts]
Idle == [pc |-> "idle", hook |-> None, url |-> None, events |-> None, active |-> None,
         row |-> NoHook, raced |-> FALSE]
\* url, events, active: what the PATCH asks for; row: the webhook as read.
Request == [pc : {"update"}, hook : Hooks, url : Urls \cup {None}, events : Subscriptions \cup {None},
            active : BOOLEAN \cup {None}, row : HookRow, raced : BOOLEAN]

TypeOK ==
  /\ hooks \in [Hooks -> HookRow \cup {NoHook}]
  /\ run \in [Fires -> Goroutine]
  /\ deliveries \subseteq DeliveryRow
  /\ req \in [Workers -> Request \cup {Idle}]
  /\ used \subseteq Hooks /\ begun \in Nat /\ faults \in Nat
  /\ oks \in [Fires \X Hooks -> Nat] /\ starts \in [Fires \X Hooks -> Nat]
  /\ done \subseteq Fires \X Hooks

Init ==
  /\ hooks = [h \in Hooks |-> NoHook]
  /\ run = [f \in Fires |-> Unfired]
  /\ deliveries = {}
  /\ req = [w \in Workers |-> Idle]
  /\ used = {} /\ begun = 0 /\ faults = 0
  /\ oks = [x \in Fires \X Hooks |-> 0] /\ starts = [x \in Fires \X Hooks |-> 0]
  /\ done = {}

-----------------------------------------------------------------------------
(* The webhooks of the project.                                            *)

Count == begun < MaxRequests /\ begun' = begun + 1

Become(w, state, h) ==
  req' = [v \in Workers |-> IF v = w THEN state
                            ELSE IF req[v] # Idle /\ req[v].hook = h THEN [req[v] EXCEPT !.raced = TRUE]
                            ELSE req[v]]

Create(h, url, events) ==
  /\ h \notin used /\ Count
  /\ used' = used \cup {h}
  /\ hooks' = [hooks EXCEPT ![h] = [url |-> url, events |-> events, active |-> TRUE]]
  /\ UNCHANGED <<run, deliveries, req, faults, history>>

\* The first half of update: Get.
PatchReads(w, h, url, events, active) ==
  /\ req[w] = Idle /\ Exists(h) /\ Count
  /\ Become(w, [pc |-> "update", hook |-> h, url |-> url, events |-> events, active |-> active,
                row |-> hooks[h], raced |-> FALSE], None)
  /\ UNCHANGED <<hooks, used, run, deliveries, faults, history>>

\* Mutant: the url is written as the request has it.
Merged_Bare(r) ==
  [url |-> r.url,
   events |-> IF r.events = None THEN r.row.events ELSE r.events,
   active |-> IF r.active = None THEN r.row.active ELSE r.active]
\* Mutant: a PATCH without is_active activates the webhook.
Merged_Active(r) ==
  [url |-> IF r.url = None THEN r.row.url ELSE r.url,
   events |-> IF r.events = None THEN r.row.events ELSE r.events,
   active |-> r.active # FALSE]
\* What the request does not name is written back as read.
Merged(r) ==
  [url |-> IF r.url = None THEN r.row.url ELSE r.url,
   events |-> IF r.events = None THEN r.row.events ELSE r.events,
   active |-> IF r.active = None THEN r.row.active ELSE r.active]

\* The second half: Update, for which a deleted webhook is not found.
PatchWrites(w) ==
  LET h == req[w].hook IN
  /\ req[w] # Idle
  /\ hooks' = [hooks EXCEPT ![h] = IF Exists(h) THEN Merged(req[w]) ELSE NoHook]
  /\ Become(w, Idle, h)
  /\ UNCHANGED <<used, run, deliveries, begun, faults, history>>

\* Its deliveries go with it, by ON DELETE CASCADE.
Delete(h) ==
  /\ Exists(h) /\ Count
  /\ hooks' = [hooks EXCEPT ![h] = NoHook]
  /\ deliveries' = {d \in deliveries : d.hook # h}
  /\ Become(None, Idle, h)
  /\ UNCHANGED <<used, run, faults, history>>

PatchFails(w) ==
  /\ req[w] # Idle /\ faults < MaxFaults /\ faults' = faults + 1
  /\ Become(w, Idle, None)
  /\ UNCHANGED <<hooks, used, run, deliveries, begun, history>>

-----------------------------------------------------------------------------
(* Events: upload, rename and delete with an API key call Fire.            *)

At(f, pc) == run[f].pc = pc
Go(f, state) == run' = [run EXCEPT ![f] = state]
\* Nothing is left of a delivery but the time it took.
Onward(f, todo) ==
  Go(f, IF todo = {} THEN [Unfired EXCEPT !.pc = "ended"]
        ELSE [Unfired EXCEPT !.pc = "next", !.todo = todo, !.elapsed = run[f].elapsed])

Fire(f) ==
  /\ At(f, "unfired")
  /\ Go(f, [Unfired EXCEPT !.pc = "list"])
  /\ UNCHANGED <<hooks, used, deliveries, req, begun, faults, history>>

ListActiveByProject(f) ==
  /\ At(f, "list")
  /\ Onward(f, {h \in Hooks : hooks[h].active /\ EventOf[f] \in hooks[h].events})
  /\ UNCHANGED <<hooks, used, deliveries, req, begun, faults, history>>

\* The query has no ORDER BY.
deliver(f, h) ==
  /\ At(f, "next") /\ h \in run[f].todo
  /\ Go(f, [run[f] EXCEPT !.pc = "send", !.todo = @ \ {h}, !.hook = h, !.attempts = 1])
  /\ starts' = [starts EXCEPT ![<<f, h>>] = run[f].elapsed]
  /\ UNCHANGED <<hooks, used, deliveries, req, begun, faults, oks, done>>

\* Mutant: one attempt more.
LastAttempt_Late(f) == run[f].attempts > maxAttempts
LastAttempt(f) == run[f].attempts = maxAttempts

\* sendHTTP: the receiver accepts.
Accepted(f, span) ==
  /\ At(f, "send") /\ span < deliveryTimeout
  /\ Go(f, [run[f] EXCEPT !.pc = "save", !.success = TRUE, !.elapsed = @ + span])
  /\ oks' = [oks EXCEPT ![<<f, run[f].hook>>] = @ + 1]
  /\ UNCHANGED <<hooks, used, deliveries, req, begun, faults, starts, done>>

\* Mutant: every answer counts as a success.
Refused_Done(f, span) ==
  /\ At(f, "send")
  /\ Go(f, [run[f] EXCEPT !.pc = "save", !.success = TRUE, !.elapsed = @ + span])
  /\ UNCHANGED <<hooks, used, deliveries, req, begun, faults, history>>

\* It answers otherwise, or not in time, or cannot be reached; it may have received
\* the event in all cases.
Refused(f, span) ==
  /\ At(f, "send")
  /\ Go(f, IF LastAttempt(f)
           THEN [run[f] EXCEPT !.pc = "save", !.success = FALSE, !.elapsed = @ + span]
           ELSE [run[f] EXCEPT !.attempts = @ + 1, !.elapsed = @ + span + Pause(run[f].attempts)])
  /\ UNCHANGED <<hooks, used, deliveries, req, begun, faults, history>>

\* The context has not expired, and the foreign key finds the webhook.
Savable(f) == run[f].elapsed < Deadline /\ Exists(run[f].hook)

\* Mutant: a row that cannot be saved is tried again.
AfterDelivery_Retries(f) == IF Savable(f) THEN Onward(f, run[f].todo) ELSE UNCHANGED run
\* The next webhook, whatever became of this one.
AfterDelivery(f) == Onward(f, run[f].todo)

SaveDelivery(f) ==
  LET r == run[f] IN
  /\ At(f, "save")
  /\ deliveries' = IF Savable(f)
       THEN deliveries \cup {[fire |-> f, hook |-> r.hook, success |-> r.success, attempts |-> r.attempts]}
       ELSE deliveries
  /\ done' = done \cup {<<f, r.hook>>}
  /\ AfterDelivery(f)
  /\ UNCHANGED <<hooks, used, req, begun, faults, oks, starts>>

\* ListActiveByProject fails, or SaveDelivery, whose error is only logged.
CallFails(f) ==
  /\ faults < MaxFaults /\ faults' = faults + 1
  /\ \/ At(f, "list") /\ Onward(f, {})
     \/ At(f, "save") /\ Onward(f, run[f].todo)
  /\ UNCHANGED <<hooks, used, deliveries, req, begun, history>>

\* Events under way are in memory only.
Crash ==
  /\ faults < MaxFaults /\ faults' = faults + 1
  /\ run' = [f \in Fires |-> IF run[f].pc \in {"unfired", "ended"} THEN run[f]
                             ELSE [Unfired EXCEPT !.pc = "lost"]]
  /\ req' = [w \in Workers |-> Idle]
  /\ UNCHANGED <<hooks, used, deliveries, begun, history>>

-----------------------------------------------------------------------------
(* The routes of Handler.                                                  *)

create == \E h \in Hooks, url \in Urls, events \in Subscriptions : Create(h, url, events)
update(w) ==
  \E h \in Hooks, url \in Urls \cup {None}, events \in Subscriptions \cup {None},
     active \in BOOLEAN \cup {None} : PatchReads(w, h, url, events, active)
delete == \E h \in Hooks : Delete(h)

Steps(f) ==
  \/ ListActiveByProject(f)
  \/ \E h \in Hooks : deliver(f, h)
  \/ \E span \in Spans : Accepted(f, span) \/ Refused(f, span)
  \/ SaveDelivery(f)

Next ==
  \/ create \/ delete
  \/ \E w \in Workers : update(w) \/ PatchWrites(w) \/ PatchFails(w)
  \/ \E f \in Fires : Steps(f) \/ CallFails(f) \/ Fire(f)
  \/ Crash

\* Goroutines are scheduled, and each of their calls returns: requests after
\* deliveryTimeout, calls of the database at the context's deadline.
Fairness == \A f \in Fires : WF_vars(Steps(f))
Spec == Init /\ [][Next]_vars
FairSpec == Spec /\ Fairness

-----------------------------------------------------------------------------
(* Properties.                                                             *)

Recorded(f, h) == {d \in deliveries : d.fire = f /\ d.hook = h}

\* What a user reads under /deliveries is true: one row for an event and a webhook,
\* a success only if the receiver accepted, and then only once, a failure only
\* after all attempts.
DeliveriesTrue ==
  \A d \in deliveries :
    /\ Recorded(d.fire, d.hook) = {d}
    /\ oks[<<d.fire, d.hook>>] = IF d.success THEN 1 ELSE 0
    /\ ~d.success => d.attempts = maxAttempts

\* One deadline is for all webhooks of an event, so that dead receivers use up the
\* time of those after them: when a delivery has ended and the user sees no row of it,
\* the webhook was deleted, or the delivery began too late for all its attempts.
RecordedInTime ==
  \A d \in done :
    Exists(d[2]) /\ starts[d] + WorstDelivery < Deadline => Recorded(d[1], d[2]) # {}

\* A PATCH keeps what it does not name: url, events and is_active change only to what
\* a request asks for, but for one that another change overtook after it had read
\* the row.
PatchKeeps ==
  [][\A h \in Hooks : Exists(h) /\ Exists(h)' /\ hooks'[h] # hooks[h] =>
       \E w \in Workers :
         /\ req[w].hook = h /\ req'[w] = Idle
         /\ \/ req[w].raced
            \/ /\ hooks'[h].url \in {hooks[h].url, req[w].url}
               /\ hooks'[h].events \in {hooks[h].events, req[w].events}
               /\ hooks'[h].active \in {hooks[h].active, req[w].active}]_vars

\* Every event comes to its end, even if all receivers are dead and the deadline is
\* long past, unless the server stops.
EveryEventEnds == \A f \in Fires : At(f, "list") ~> run[f].pc \in {"ended", "lost"}

=============================================================================
