--------------------------- MODULE WebhooksProofs ---------------------------
(***************************************************************************)
(* Proofs about Webhooks: its types, that the recorded deliveries are      *)
(* true, that a PATCH keeps what it does not name, and that a delivery     *)
(* which begins in time is recorded, for any number of webhooks, events,   *)
(* attempts, requests and faults.                                          *)
(*                                                                         *)
(* A row of webhook_deliveries says what happened in several steps before  *)
(* it, so that the invariant says of every goroutine what its receivers    *)
(* have seen so far; of a PATCH it says that the row it has read is still  *)
(* the one in the table.  A second invariant, TInv, bounds the time of the *)
(* delivery under way by the sum of what its attempts may cost.            *)
(***************************************************************************)
EXTENDS Webhooks, Sums, TLAPS

\* Nothing of this event has reached the webhook yet.
Fresh(f, h) == Recorded(f, h) = {} /\ oks[<<f, h>>] = 0

Fine(f) ==
  /\ run[f].pc \in {"unfired", "list"} => \A h \in Hooks : Fresh(f, h)
  /\ \A h \in run[f].todo : Fresh(f, h)
  /\ run[f].pc \in {"send", "save"} =>
       run[f].hook \in Hooks \ run[f].todo /\ run[f].attempts \in 1 .. maxAttempts
  /\ run[f].pc = "send" => Fresh(f, run[f].hook)
  /\ run[f].pc = "save" =>
       /\ Recorded(f, run[f].hook) = {}
       /\ oks[<<f, run[f].hook>>] = IF run[f].success THEN 1 ELSE 0
       /\ ~run[f].success => run[f].attempts = maxAttempts

\* An id in use was given out, and nobody else has changed what a PATCH has read.
RowsRead ==
  /\ \A h \in Hooks : Exists(h) => h \in used
  /\ \A w \in Workers : req[w] # Idle /\ ~req[w].raced => req[w].row = hooks[req[w].hook]

WInv == TypeOK /\ RowsRead /\ DeliveriesTrue /\ \A f \in Fires : Fine(f)

-----------------------------------------------------------------------------
(* Frames.                                                                 *)

LEMMA PauseTyped == ASSUME NEW n \in Nat PROVE Pause(n) \in Nat
<1>1. n * n \in Nat
  OBVIOUS
<1> QED BY <1>1 DEF Pause

\* A goroutine that takes no step, while rows of its deliveries may be deleted.
LEMMA Unmoved ==
  ASSUME NEW f \in Fires, Fine(f), run'[f] = run[f],
         \A h \in Hooks : oks'[<<f, h>>] = oks[<<f, h>>],
         \A d \in deliveries' : d.fire = f => d \in deliveries,
         run[f].todo \subseteq Hooks
  PROVE  Fine(f)'
<1>1. \A h : Recorded(f, h) = {} => Recorded(f, h)' = {}
  BY DEF Recorded
<1>2. \A h \in Hooks : Fresh(f, h) => Fresh(f, h)'
  BY <1>1 DEF Fresh
<1> QED BY <1>1, <1>2 DEF Fine

LEMMA TruthKept ==
  ASSUME DeliveriesTrue, deliveries' \subseteq deliveries, UNCHANGED oks
  PROVE  DeliveriesTrue'
<1>1. ASSUME NEW d \in deliveries'
      PROVE  Recorded(d.fire, d.hook)' = {d}
  <2>1. Recorded(d.fire, d.hook) = {d}
    BY DEF DeliveriesTrue
  <2> QED BY <2>1 DEF Recorded
<1> QED BY <1>1 DEF DeliveriesTrue

\* A step of requests only.
LEMMA RequestsKeep ==
  ASSUME WInv, TypeOK', RowsRead', UNCHANGED <<run, oks>>, deliveries' \subseteq deliveries
  PROVE  WInv'
<1>1. DeliveriesTrue'
  BY TruthKept DEF WInv
<1>2. ASSUME NEW f \in Fires PROVE Fine(f)'
  <2>1. run[f].todo \subseteq Hooks
    BY DEF WInv, TypeOK, Goroutine
  <2> QED BY <2>1, Unmoved DEF WInv
<1> QED BY <1>1, <1>2 DEF WInv

\* A step of one goroutine that leaves the rows of deliveries and the answers alone.
LEMMA OneGoes ==
  ASSUME WInv, NEW f \in Fires, NEW state \in Goroutine, Go(f, state),
         UNCHANGED <<hooks, used, deliveries, req, begun, oks>>,
         faults' \in Nat, starts' \in [Fires \X Hooks -> Nat], done' \subseteq Fires \X Hooks,
         Fine(f)'
  PROVE  WInv'
<1>1. \A g \in Fires : run'[g] = IF g = f THEN state ELSE run[g]
  BY DEF Go, WInv, TypeOK
<1>2. TypeOK'
  BY DEF WInv, TypeOK, Go
<1>3. RowsRead'
  BY DEF WInv, RowsRead, Exists
<1>4. DeliveriesTrue'
  BY TruthKept DEF WInv
<1>5. ASSUME NEW g \in Fires, g # f PROVE Fine(g)'
  <2>1. run[g].todo \subseteq Hooks
    BY DEF WInv, TypeOK, Goroutine
  <2> QED BY <1>1, <1>5, <2>1, Unmoved DEF WInv
<1> QED BY <1>2, <1>3, <1>4, <1>5 DEF WInv

-----------------------------------------------------------------------------
(* Requests.                                                               *)

LEMMA RowsDiffer == \A row \in HookRow : row # NoHook
<1>1. \A row \in HookRow : row.url \in Urls
  BY DEF HookRow
<1>2. NoHook.url = None /\ None \notin Urls
  BY WebhooksAssumption DEF NoHook
<1> QED BY <1>1, <1>2

LEMMA IdleDiffers == \A r \in Request : r # Idle
<1>1. \A r \in Request : r.pc = "update"
  BY DEF Request
<1>2. Idle.pc # "update"
  BY DEF Idle
<1> QED BY <1>1, <1>2

\* All but w keep their request, unless they have read the row h.
OthersKept(w, h) ==
  \A v \in Workers : v # w /\ req'[v] # Idle /\ ~req'[v].raced =>
    req'[v] = req[v] /\ req[v].hook # h

\* The others keep their request, or are overtaken if it is about the same webhook.
LEMMA BecomeKeeps ==
  ASSUME WInv, NEW w, NEW s \in Request \cup {Idle}, NEW h, Become(w, s, h)
  PROVE  /\ req' \in [Workers -> Request \cup {Idle}]
         /\ OthersKept(w, h)
         /\ w \in Workers => req'[w] = s
<1>1. req \in [Workers -> Request \cup {Idle}]
  BY DEF WInv, TypeOK
<1>2. \A r \in Request : [r EXCEPT !.raced = TRUE] \in Request /\ [r EXCEPT !.raced = TRUE].raced
  BY DEF Request
<1>3. \A v \in Workers : req'[v] = IF v = w THEN s
                                   ELSE IF req[v] # Idle /\ req[v].hook = h
                                   THEN [req[v] EXCEPT !.raced = TRUE]
                                   ELSE req[v]
  BY DEF Become
<1>4. req' \in [Workers -> Request \cup {Idle}]
  <2>1. \A v \in Workers : req'[v] \in Request \cup {Idle}
    BY <1>1, <1>2, <1>3
  <2> QED BY <2>1 DEF Become
<1>5. ASSUME NEW v \in Workers, v # w, req'[v] # Idle, ~req'[v].raced
      PROVE  req'[v] = req[v] /\ req[v].hook # h
  <2>1. CASE req[v] # Idle /\ req[v].hook = h
    BY <1>1, <1>2, <1>3, <1>5, <2>1
  <2>2. CASE ~(req[v] # Idle /\ req[v].hook = h)
    BY <1>1, <1>3, <1>5, <2>2
  <2> QED BY <2>1, <2>2
<1> QED BY <1>3, <1>4, <1>5 DEF OthersKept

\* A step that changes at most the row h, and overtakes whoever has read it.
LEMMA RowsReadKept ==
  ASSUME WInv, NEW w, NEW s \in Request \cup {Idle}, NEW h, Become(w, s, h),
         s # Idle => s.row = hooks'[s.hook],
         \A g \in Hooks : g # h => hooks'[g] = hooks[g],
         \A g \in Hooks : Exists(g)' => Exists(g), UNCHANGED used
  PROVE  RowsRead'
<1>0. OthersKept(w, h) /\ (w \in Workers => req'[w] = s)
  BY BecomeKeeps
<1>1. ASSUME NEW v \in Workers, req'[v] # Idle, ~req'[v].raced
      PROVE  req'[v].row = hooks'[req'[v].hook]
  <2>1. CASE v = w
    BY <1>0, <1>1, <2>1
  <2>2. CASE v # w
    <3>0. req'[v] = req[v] /\ req[v].hook # h
      BY <1>0, <1>1, <2>2 DEF OthersKept
    <3>1. req'[v] = req[v] /\ req[v].hook # h /\ req[v] \in Request
      BY <1>1, <3>0 DEF WInv, TypeOK
    <3>2. req[v].row = hooks[req[v].hook] /\ req[v].hook \in Hooks
      BY <1>1, <3>1 DEF WInv, RowsRead, Request
    <3> QED BY <3>1, <3>2
  <2> QED BY <2>1, <2>2
<1> QED BY <1>1 DEF WInv, RowsRead

LEMMA MergedTyped == ASSUME NEW r \in Request PROVE Merged(r) \in HookRow
BY DEF Merged, Request, HookRow

LEMMA CreatePreserves ==
  ASSUME WInv, NEW h \in Hooks, NEW url \in Urls, NEW events \in Subscriptions, Create(h, url, events)
  PROVE  WInv'
<1> USE WebhooksAssumption
<1> DEFINE row == [url |-> url, events |-> events, active |-> TRUE]
<1>1. row \in HookRow
  BY DEF HookRow
<1>2. /\ hooks' = [hooks EXCEPT ![h] = row] /\ used' = used \cup {h} /\ h \notin used
      /\ begun' = begun + 1
      /\ UNCHANGED <<run, deliveries, req, faults, oks, starts, done>>
  BY DEF Create, Count, history
<1> HIDE DEF row
<1>3. TypeOK'
  BY <1>1, <1>2 DEF WInv, TypeOK
<1>4. RowsRead'
  <2>1. \A g \in Hooks : Exists(g)' => g \in used'
    BY <1>2 DEF WInv, TypeOK, RowsRead, Exists
  <2>2. ASSUME NEW w \in Workers, req[w] # Idle, ~req[w].raced
        PROVE  req[w].row = hooks'[req[w].hook]
    <3>1. req[w] \in Request /\ req[w].row = hooks[req[w].hook]
      BY <2>2 DEF WInv, TypeOK, RowsRead
    <3>2. req[w].row # NoHook /\ req[w].hook \in Hooks
      BY <3>1, RowsDiffer DEF Request
    <3>3. req[w].hook # h
      BY <1>2, <3>1, <3>2 DEF WInv, RowsRead, Exists
    <3> QED BY <1>2, <3>1, <3>2, <3>3 DEF WInv, TypeOK
  <2> QED BY <1>2, <2>1, <2>2 DEF RowsRead
<1> QED BY <1>2, <1>3, <1>4, RequestsKeep

LEMMA DeletePreserves ==
  ASSUME WInv, NEW h \in Hooks, Delete(h)
  PROVE  WInv'
<1>1. /\ hooks' = [hooks EXCEPT ![h] = NoHook] /\ deliveries' = {d \in deliveries : d.hook # h}
      /\ Become(None, Idle, h) /\ begun' = begun + 1
      /\ UNCHANGED <<used, run, faults, oks, starts, done>>
  BY DEF Delete, Count, history
<1>2. TypeOK'
  <2>1. req' \in [Workers -> Request \cup {Idle}]
    BY <1>1, BecomeKeeps
  <2> QED BY <1>1, <2>1 DEF WInv, TypeOK
<1>3. RowsRead'
  <2>1. \A g \in Hooks : /\ g # h => hooks'[g] = hooks[g]
                         /\ Exists(g)' => Exists(g)
    BY <1>1 DEF WInv, TypeOK, Exists
  <2> QED BY <1>1, <2>1, RowsReadKept
<1> QED BY <1>1, <1>2, <1>3, RequestsKeep

LEMMA PatchReadsPreserves ==
  ASSUME WInv, NEW w \in Workers, NEW h \in Hooks, NEW url \in Urls \cup {None},
         NEW events \in Subscriptions \cup {None}, NEW active \in BOOLEAN \cup {None},
         PatchReads(w, h, url, events, active)
  PROVE  WInv'
<1> DEFINE s == [pc |-> "update", hook |-> h, url |-> url, events |-> events, active |-> active,
                 row |-> hooks[h], raced |-> FALSE]
<1>1. /\ Become(w, s, None) /\ begun' = begun + 1
      /\ UNCHANGED <<hooks, used, run, deliveries, faults, oks, starts, done>>
  BY DEF PatchReads, Count, history
<1>2. s \in Request /\ s.row = hooks[s.hook]
  <2>1. hooks[h] \in HookRow
    BY DEF PatchReads, Exists, WInv, TypeOK
  <2> QED BY <2>1 DEF Request
<1> HIDE DEF s
<1>3. TypeOK'
  <2>1. req' \in [Workers -> Request \cup {Idle}]
    BY <1>1, <1>2, BecomeKeeps
  <2> QED BY <1>1, <2>1 DEF WInv, TypeOK
<1>4. RowsRead'
  BY <1>1, <1>2, RowsReadKept DEF Exists
<1> QED BY <1>1, <1>3, <1>4, RequestsKeep

\* What a PATCH writes back is what the table has, but for what it names.
LEMMA PatchWritesPreserves ==
  ASSUME WInv, NEW w \in Workers, PatchWrites(w)
  PROVE  WInv'
<1> DEFINE h == req[w].hook
<1> DEFINE row == IF Exists(h) THEN Merged(req[w]) ELSE NoHook
<1>1. req[w] \in Request /\ h \in Hooks
  BY DEF PatchWrites, WInv, TypeOK, Request
<1>2. /\ hooks' = [hooks EXCEPT ![h] = row] /\ Become(w, Idle, h)
      /\ UNCHANGED <<used, run, deliveries, begun, faults, oks, starts, done>>
  BY DEF PatchWrites, history
<1>3. row \in HookRow \cup {NoHook} /\ (~Exists(h) => row = NoHook)
  BY <1>1, MergedTyped
<1> HIDE DEF row
<1>4. TypeOK'
  <2>1. req' \in [Workers -> Request \cup {Idle}]
    BY <1>2, BecomeKeeps
  <2> QED BY <1>1, <1>2, <1>3, <2>1 DEF WInv, TypeOK
<1>5. RowsRead'
  <2>1. \A g \in Hooks : /\ g # h => hooks'[g] = hooks[g]
                         /\ Exists(g)' => Exists(g)
    BY <1>1, <1>2, <1>3 DEF WInv, TypeOK, Exists
  <2> HIDE DEF h
  <2> QED BY <1>2, <2>1, RowsReadKept
<1> QED BY <1>2, <1>4, <1>5, RequestsKeep

LEMMA PatchFailsPreserves ==
  ASSUME WInv, NEW w \in Workers, PatchFails(w)
  PROVE  WInv'
<1>1. /\ Become(w, Idle, None) /\ faults' = faults + 1
      /\ UNCHANGED <<hooks, used, run, deliveries, begun, oks, starts, done>>
  BY DEF PatchFails, history
<1>2. TypeOK'
  <2>1. req' \in [Workers -> Request \cup {Idle}]
    BY <1>1, BecomeKeeps
  <2> QED BY <1>1, <2>1 DEF WInv, TypeOK
<1>3. RowsRead'
  BY <1>1, RowsReadKept DEF Exists
<1> QED BY <1>1, <1>2, <1>3, RequestsKeep

-----------------------------------------------------------------------------
(* Goroutines.                                                             *)

\* Fine speaks of one goroutine; this is what a step may use of it.
LEMMA Going ==
  ASSUME WInv, NEW f \in Fires
  PROVE  /\ run[f] \in Goroutine /\ run[f].todo \subseteq Hooks
         /\ \A state : Go(f, state) => run'[f] = state
BY DEF WInv, TypeOK, Goroutine, Go

LEMMA Times ==
  /\ maxAttempts \in Nat \ {0} /\ 1 \in 1 .. maxAttempts /\ 0 \in 0 .. maxAttempts
  /\ \A n \in 1 .. maxAttempts : n \in Nat /\ n \in 0 .. maxAttempts
  /\ \A span \in Spans : span \in Nat
<1>1. maxAttempts \in Nat \ {0} /\ deliveryTimeout \in Nat /\ Spans \subseteq 0 .. deliveryTimeout
  BY WebhooksAssumption
<1> QED BY <1>1

\* A goroutine that is at none of its webhooks.
LEMMA FineBetween ==
  ASSUME NEW f \in Fires, run'[f].pc \notin {"unfired", "list", "send", "save"},
         \A h \in run'[f].todo : Fresh(f, h)'
  PROVE  Fine(f)'
BY DEF Fine

\* What Onward leaves of a goroutine.
Left(f, todo) ==
  IF todo = {} THEN [Unfired EXCEPT !.pc = "ended"]
  ELSE [Unfired EXCEPT !.pc = "next", !.todo = todo, !.elapsed = run[f].elapsed]

LEMMA LeftTyped ==
  ASSUME TypeOK, NEW f \in Fires, NEW todo \in SUBSET Hooks
  PROVE  Left(f, todo) \in Goroutine /\ Left(f, todo).pc \in {"ended", "next"} /\ Left(f, todo).todo = todo
<1>1. run[f] \in Goroutine
  BY DEF TypeOK
<1>2. run[f].elapsed \in Nat
  BY <1>1 DEF Goroutine
<1>3. CASE todo = {}
  BY <1>3, Times DEF Left, Unfired, Goroutine
<1>4. CASE todo # {}
  BY <1>2, <1>4, Times DEF Left, Unfired, Goroutine
<1> QED BY <1>3, <1>4

LEMMA OnwardPreserves ==
  ASSUME WInv, NEW f \in Fires, NEW todo \in SUBSET Hooks, Onward(f, todo),
         \A h \in todo : Fresh(f, h),
         UNCHANGED <<hooks, used, deliveries, req, begun, oks>>,
         faults' \in Nat, starts' \in [Fires \X Hooks -> Nat], done' \subseteq Fires \X Hooks
  PROVE  WInv'
<1> DEFINE state == Left(f, todo)
<1>1. state \in Goroutine /\ state.pc \in {"ended", "next"} /\ state.todo = todo
  BY LeftTyped DEF WInv
<1>2. Go(f, state)
  BY DEF Onward, Left
<1> HIDE DEF state
<1>3. run'[f] = state
  BY <1>2, Going
<1>4. Fine(f)'
  BY <1>1, <1>3, FineBetween DEF Fresh, Recorded
<1> QED BY <1>1, <1>2, <1>4, OneGoes

LEMMA FirePreserves ==
  ASSUME WInv, NEW f \in Fires, Fire(f)
  PROVE  WInv'
<1> DEFINE state == [Unfired EXCEPT !.pc = "list"]
<1>1. state \in Goroutine /\ state.pc = "list" /\ state.todo = {}
  <2>1. Unfired \in Goroutine /\ Unfired.todo = {}
    BY Times DEF Unfired, Goroutine
  <2> QED BY <2>1 DEF Goroutine
<1>2. Go(f, state) /\ UNCHANGED <<hooks, used, deliveries, req, begun, faults, oks, starts, done>>
  BY DEF Fire, history
<1>3. \A h \in Hooks : Fresh(f, h)
  BY DEF WInv, Fine, Fire, At
<1> HIDE DEF state
<1>4. run'[f] = state
  BY <1>2, Going
<1>5. Fine(f)'
  BY <1>1, <1>2, <1>3, <1>4 DEF Fine, Fresh, Recorded
<1> QED BY <1>1, <1>2, <1>5, OneGoes DEF WInv, TypeOK

LEMMA ListPreserves ==
  ASSUME WInv, NEW f \in Fires, ListActiveByProject(f)
  PROVE  WInv'
<1>1. \A h \in Hooks : Fresh(f, h)
  BY DEF WInv, Fine, ListActiveByProject, At
<1>2. UNCHANGED <<hooks, used, deliveries, req, begun, faults, oks, starts, done>>
  BY DEF ListActiveByProject, history
<1> QED BY <1>1, <1>2, OnwardPreserves DEF ListActiveByProject, WInv, TypeOK

LEMMA DeliverPreserves ==
  ASSUME WInv, NEW f \in Fires, NEW h \in Hooks, deliver(f, h)
  PROVE  WInv'
<1> DEFINE state == [run[f] EXCEPT !.pc = "send", !.todo = @ \ {h}, !.hook = h, !.attempts = 1]
<1>1. /\ Go(f, state) /\ UNCHANGED <<hooks, used, deliveries, req, begun, faults, oks, done>>
      /\ starts' = [starts EXCEPT ![<<f, h>>] = run[f].elapsed]
  BY DEF deliver
<1>2. run[f] \in Goroutine /\ h \in run[f].todo /\ \A g \in run[f].todo : Fresh(f, g)
  BY Going DEF WInv, Fine, deliver
<1>3. /\ state \in Goroutine /\ state.pc = "send" /\ state.todo = run[f].todo \ {h}
      /\ state.hook = h /\ state.attempts = 1
  BY <1>2, Times DEF Goroutine
<1>4. starts' \in [Fires \X Hooks -> Nat]
  BY <1>1, <1>2 DEF WInv, TypeOK, Goroutine
<1> HIDE DEF state
<1>5. run'[f] = state
  BY <1>1, Going
<1>6. Fine(f)'
  BY <1>1, <1>2, <1>3, <1>5, WebhooksAssumption DEF Fine, Fresh, Recorded
<1> QED BY <1>1, <1>3, <1>4, <1>6, OneGoes DEF WInv, TypeOK

\* An attempt that fails: another one follows, or the failure is to be recorded.
LEMMA RefusedPreserves ==
  ASSUME WInv, NEW f \in Fires, NEW span \in Spans, Refused(f, span)
  PROVE  WInv'
<1> DEFINE last == [run[f] EXCEPT !.pc = "save", !.success = FALSE, !.elapsed = @ + span]
<1> DEFINE again == [run[f] EXCEPT !.attempts = @ + 1,
                                   !.elapsed = @ + span + Pause(run[f].attempts)]
<1>1. /\ run[f].pc = "send" /\ Go(f, IF LastAttempt(f) THEN last ELSE again)
      /\ UNCHANGED <<hooks, used, deliveries, req, begun, faults, oks, starts, done>>
  BY DEF Refused, At, history
<1>2. /\ run[f] \in Goroutine /\ \A h \in run[f].todo : Fresh(f, h)
      /\ run[f].hook \in Hooks \ run[f].todo /\ run[f].attempts \in 1 .. maxAttempts
      /\ Fresh(f, run[f].hook)
  BY <1>1, Going DEF WInv, Fine
<1>3. /\ span \in Nat /\ run[f].elapsed \in Nat /\ Pause(run[f].attempts) \in Nat
      /\ run[f].elapsed + span \in Nat
      /\ run[f].elapsed + span + Pause(run[f].attempts) \in Nat
  <2>1. span \in Nat /\ run[f].attempts \in Nat
    BY <1>2, Times
  <2>2. run[f].elapsed \in Nat
    BY <1>2 DEF Goroutine
  <2>3. Pause(run[f].attempts) \in Nat
    BY <2>1, PauseTyped
  <2> QED BY <2>1, <2>2, <2>3
<1>4. CASE LastAttempt(f)
  <2>1. /\ last \in Goroutine /\ last.pc = "save" /\ ~last.success
        /\ last.todo = run[f].todo /\ last.hook = run[f].hook /\ last.attempts = run[f].attempts
    BY <1>2, <1>3 DEF Goroutine
  <2>2. Go(f, last)
    BY <1>1, <1>4
  <2> HIDE DEF last
  <2>3. run'[f] = last
    BY <2>2, Going
  <2>4. Fine(f)'
    BY <1>1, <1>2, <1>4, <2>1, <2>3 DEF Fine, Fresh, Recorded, LastAttempt
  <2> QED BY <1>1, <2>1, <2>2, <2>4, OneGoes DEF WInv, TypeOK
<1>5. CASE ~LastAttempt(f)
  <2>1. run[f].attempts + 1 \in 1 .. maxAttempts
    BY <1>2, <1>5, WebhooksAssumption DEF LastAttempt
  <2>2. /\ again \in Goroutine /\ again.pc = "send" /\ again.todo = run[f].todo
        /\ again.hook = run[f].hook /\ again.attempts \in 1 .. maxAttempts
    BY <1>1, <1>2, <1>3, <2>1, Times DEF Goroutine
  <2>3. Go(f, again)
    BY <1>1, <1>5
  <2> HIDE DEF again
  <2>4. run'[f] = again
    BY <2>3, Going
  <2>5. Fine(f)'
    BY <1>1, <1>2, <2>2, <2>4 DEF Fine, Fresh, Recorded
  <2> QED BY <1>1, <2>2, <2>3, <2>5, OneGoes DEF WInv, TypeOK
<1> QED BY <1>4, <1>5

\* The receiver accepts, for the first time, and no row says so yet.
LEMMA AcceptedPreserves ==
  ASSUME WInv, NEW f \in Fires, NEW span \in Spans, Accepted(f, span)
  PROVE  WInv'
<1> DEFINE state == [run[f] EXCEPT !.pc = "save", !.success = TRUE, !.elapsed = @ + span]
<1>0. PICK h : h = run[f].hook
  OBVIOUS
<1>1. /\ run[f].pc = "send" /\ Go(f, state)
      /\ oks' = [oks EXCEPT ![<<f, h>>] = @ + 1]
      /\ UNCHANGED <<hooks, used, deliveries, req, begun, faults, starts, done>>
  BY <1>0 DEF Accepted, At
<1>2. /\ run[f] \in Goroutine /\ \A g \in run[f].todo : Fresh(f, g)
      /\ h \in Hooks \ run[f].todo /\ run[f].attempts \in 1 .. maxAttempts
      /\ Fresh(f, h) /\ run[f].todo \subseteq Hooks
  BY <1>0, <1>1, Going DEF WInv, Fine
<1>3. run[f].elapsed + span \in Nat
  <2>1. span \in Nat /\ run[f].elapsed \in Nat
    BY <1>2, Times DEF Goroutine
  <2> QED BY <2>1
<1>4. /\ state \in Goroutine /\ state.pc = "save" /\ state.success
      /\ state.todo = run[f].todo /\ state.hook = h /\ state.attempts = run[f].attempts
  BY <1>0, <1>2, <1>3 DEF Goroutine
<1> HIDE DEF state
<1>5. \A g \in Fires : run'[g] = IF g = f THEN state ELSE run[g]
  BY <1>1 DEF Go, WInv, TypeOK
<1>6. /\ oks' \in [Fires \X Hooks -> Nat] /\ oks'[<<f, h>>] = 1
      /\ \A g \in Fires, k \in Hooks : <<g, k>> # <<f, h>> => oks'[<<g, k>>] = oks[<<g, k>>]
  <2>1. oks \in [Fires \X Hooks -> Nat] /\ <<f, h>> \in Fires \X Hooks
    BY <1>2 DEF WInv, TypeOK
  <2>2. oks[<<f, h>>] = 0
    BY <1>2 DEF Fresh
  <2> QED BY <1>1, <2>1, <2>2
<1>7. TypeOK'
  <2>1. run' \in [Fires -> Goroutine]
    BY <1>1, <1>4 DEF Go, WInv, TypeOK
  <2> QED BY <1>1, <1>6, <2>1 DEF WInv, TypeOK
<1>8. RowsRead'
  BY <1>1 DEF WInv, RowsRead, Exists
<1>9. DeliveriesTrue'
  <2>1. ASSUME NEW d \in deliveries
        PROVE  oks'[<<d.fire, d.hook>>] = oks[<<d.fire, d.hook>>]
    <3>1. d.fire \in Fires /\ d.hook \in Hooks /\ d \in Recorded(d.fire, d.hook)
      BY DEF WInv, TypeOK, DeliveryRow, Recorded
    <3>2. Recorded(f, h) = {}
      BY <1>2 DEF Fresh
    <3>3. d.fire # f \/ d.hook # h
      BY <3>1, <3>2
    <3> QED BY <1>6, <3>1, <3>3
  <2> QED BY <1>1, <2>1 DEF WInv, DeliveriesTrue, Recorded
<1>10. Fine(f)'
  <2>1. \A k \in run[f].todo : Fresh(f, k)'
    BY <1>1, <1>2, <1>6 DEF Fresh, Recorded
  <2>2. Recorded(f, h)' = {}
    BY <1>1, <1>2 DEF Fresh, Recorded
  <2> QED BY <1>2, <1>4, <1>5, <1>6, <2>1, <2>2 DEF Fine
<1>11. ASSUME NEW g \in Fires, g # f PROVE Fine(g)'
  <2>1. run[g].todo \subseteq Hooks
    BY DEF WInv, TypeOK, Goroutine
  <2>2. \A k \in Hooks : oks'[<<g, k>>] = oks[<<g, k>>]
    BY <1>6, <1>11
  <2> QED BY <1>1, <1>5, <1>11, <2>1, <2>2, Unmoved DEF WInv
<1> QED BY <1>7, <1>8, <1>9, <1>10, <1>11 DEF WInv

\* The delivery has come to its end, and is recorded if there is time and a webhook.
LEMMA SaveDeliveryPreserves ==
  ASSUME WInv, NEW f \in Fires, SaveDelivery(f)
  PROVE  WInv'
<1> DEFINE r == run[f]
<1>0. PICK h : h = run[f].hook
  OBVIOUS
<1> DEFINE row == [fire |-> f, hook |-> h, success |-> r.success, attempts |-> r.attempts]
<1>1. /\ r.pc = "save" /\ Onward(f, r.todo)
      /\ deliveries' = IF Savable(f) THEN deliveries \cup {row} ELSE deliveries
      /\ done' = done \cup {<<f, h>>}
      /\ UNCHANGED <<hooks, used, req, begun, faults, oks, starts>>
  BY <1>0 DEF SaveDelivery, AfterDelivery, At
<1>2. /\ r \in Goroutine /\ r.todo \subseteq Hooks /\ \A k \in r.todo : Fresh(f, k)
      /\ h \in Hooks \ r.todo /\ r.attempts \in 1 .. maxAttempts
      /\ Recorded(f, h) = {}
      /\ oks[<<f, h>>] = IF r.success THEN 1 ELSE 0
      /\ ~r.success => r.attempts = maxAttempts
  BY <1>0, <1>1, Going DEF WInv, Fine
<1>3. done' \subseteq Fires \X Hooks
  BY <1>1, <1>2 DEF WInv, TypeOK
<1>4. CASE ~Savable(f)
  <2>1. UNCHANGED deliveries
    BY <1>1, <1>4
  <2> QED BY <1>1, <1>2, <1>3, <2>1, OnwardPreserves DEF WInv, TypeOK
<1>5. CASE Savable(f)
  <2> DEFINE state == Left(f, r.todo)
  <2>1. state \in Goroutine /\ state.pc \in {"ended", "next"} /\ state.todo = r.todo
    BY <1>2, LeftTyped DEF WInv
  <2>2. Go(f, state)
    BY <1>1 DEF Onward, Left
  <2>3. row \in DeliveryRow /\ row.fire = f /\ row.hook = h /\ row.success = r.success
        /\ row.attempts = r.attempts
    BY <1>2 DEF DeliveryRow, Goroutine
  <2>4. deliveries' = deliveries \cup {row}
    BY <1>1, <1>5
  <2> HIDE DEF state, row, r
  <2>5. \A g \in Fires : run'[g] = IF g = f THEN state ELSE run[g]
    BY <2>2 DEF Go, WInv, TypeOK
  <2>6. TypeOK'
    <3>1. run' \in [Fires -> Goroutine]
      BY <2>1, <2>2 DEF Go, WInv, TypeOK
    <3> QED BY <1>1, <1>3, <2>3, <2>4, <3>1 DEF WInv, TypeOK
  <2>7. RowsRead'
    BY <1>1 DEF WInv, RowsRead, Exists
  <2>8. DeliveriesTrue'
    <3>1. ASSUME NEW d \in deliveries'
          PROVE  /\ Recorded(d.fire, d.hook)' = {d}
                 /\ oks'[<<d.fire, d.hook>>] = IF d.success THEN 1 ELSE 0
                 /\ ~d.success => d.attempts = maxAttempts
      <4>1. CASE d = row
        <5>1. Recorded(f, h)' = {row}
          BY <1>2, <2>3, <2>4 DEF Recorded
        <5> QED BY <1>1, <1>2, <2>3, <4>1, <5>1
      <4>2. CASE d \in deliveries
        <5>1. d \in Recorded(d.fire, d.hook)
          BY <4>2 DEF Recorded
        <5>2. ~(d.fire = f /\ d.hook = h)
          BY <1>2, <5>1
        <5>3. Recorded(d.fire, d.hook)' = Recorded(d.fire, d.hook)
          BY <2>3, <2>4, <5>2 DEF Recorded
        <5> QED BY <1>1, <4>2, <5>3 DEF WInv, DeliveriesTrue
      <4> QED BY <2>4, <4>1, <4>2
    <3> QED BY <3>1 DEF DeliveriesTrue
  <2>9. Fine(f)'
    <3>1. \A k \in r.todo : Fresh(f, k)'
      BY <1>1, <1>2, <2>3, <2>4 DEF Fresh, Recorded
    <3> QED BY <2>1, <2>5, <3>1, FineBetween
  <2>10. ASSUME NEW g \in Fires, g # f PROVE Fine(g)'
    <3>1. run[g].todo \subseteq Hooks
      BY DEF WInv, TypeOK, Goroutine
    <3>2. \A d \in deliveries' : d.fire = g => d \in deliveries
      BY <2>3, <2>4, <2>10
    <3> QED BY <1>1, <2>5, <2>10, <3>1, <3>2, Unmoved DEF WInv
  <2> QED BY <2>6, <2>7, <2>8, <2>9, <2>10 DEF WInv
<1> QED BY <1>4, <1>5

LEMMA CallFailsPreserves ==
  ASSUME WInv, NEW f \in Fires, CallFails(f)
  PROVE  WInv'
<1>1. UNCHANGED <<hooks, used, deliveries, req, begun, oks, starts, done>> /\ faults' = faults + 1
  BY DEF CallFails, history
<1>2. /\ starts' \in [Fires \X Hooks -> Nat] /\ done' \subseteq Fires \X Hooks /\ faults' \in Nat
      /\ run[f] \in Goroutine /\ run[f].todo \subseteq Hooks /\ \A h \in run[f].todo : Fresh(f, h)
  <2>1. starts' \in [Fires \X Hooks -> Nat] /\ done' \subseteq Fires \X Hooks /\ faults' \in Nat
    BY <1>1 DEF WInv, TypeOK
  <2>2. \A h \in run[f].todo : Fresh(f, h)
    BY DEF WInv, Fine
  <2> QED BY <2>1, <2>2, Going
<1>3. CASE Onward(f, run[f].todo)
  BY <1>1, <1>2, <1>3, OnwardPreserves
<1>4. CASE Onward(f, {})
  BY <1>1, <1>2, <1>4, OnwardPreserves
<1> QED BY <1>3, <1>4 DEF CallFails

LEMMA CrashPreserves ==
  ASSUME WInv, Crash
  PROVE  WInv'
<1> DEFINE next(f) == IF run[f].pc \in {"unfired", "ended"} THEN run[f] ELSE [Unfired EXCEPT !.pc = "lost"]
<1>1. /\ faults' = faults + 1 /\ run' = [f \in Fires |-> next(f)] /\ req' = [w \in Workers |-> Idle]
      /\ UNCHANGED <<hooks, used, deliveries, begun, oks, starts, done>>
  BY DEF Crash, history
<1>2. ASSUME NEW f \in Fires
      PROVE  /\ next(f) \in Goroutine /\ next(f).todo \subseteq run[f].todo
             /\ next(f) = run[f] \/ next(f).pc = "lost"
  <2>1. run[f] \in Goroutine
    BY Going
  <2>2. CASE run[f].pc \in {"unfired", "ended"}
    BY <2>1, <2>2
  <2>3. CASE run[f].pc \notin {"unfired", "ended"}
    <3>1. next(f) = [Unfired EXCEPT !.pc = "lost"]
      BY <2>3
    <3>2. [Unfired EXCEPT !.pc = "lost"] \in Goroutine /\ [Unfired EXCEPT !.pc = "lost"].todo = {}
          /\ [Unfired EXCEPT !.pc = "lost"].pc = "lost"
      BY Times DEF Unfired, Goroutine
    <3> HIDE DEF next
    <3> QED BY <3>1, <3>2
  <2> QED BY <2>2, <2>3
<1> HIDE DEF next
<1>3. TypeOK'
  <2>1. run' \in [Fires -> Goroutine] /\ req' \in [Workers -> Request \cup {Idle}] /\ faults' \in Nat
    BY <1>1, <1>2 DEF WInv, TypeOK
  <2> QED BY <1>1, <2>1 DEF WInv, TypeOK
<1>4. RowsRead'
  BY <1>1 DEF WInv, RowsRead, Exists
<1>5. DeliveriesTrue'
  BY <1>1, TruthKept DEF WInv
<1>6. ASSUME NEW f \in Fires PROVE Fine(f)'
  <2>1. run'[f] = next(f) /\ run[f].todo \subseteq Hooks /\ \A h \in run[f].todo : Fresh(f, h)
    BY <1>1, Going DEF WInv, Fine
  <2>2. \A h \in Hooks : Fresh(f, h) => Fresh(f, h)'
    BY <1>1 DEF Fresh, Recorded
  <2>3. CASE run'[f] = run[f]
    BY <1>1, <2>1, <2>3, Unmoved DEF WInv
  <2>4. CASE run'[f].pc = "lost"
    BY <1>2, <2>1, <2>2, <2>4, FineBetween
  <2> QED BY <1>2, <2>1, <2>3, <2>4
<1> QED BY <1>3, <1>4, <1>5, <1>6 DEF WInv

-----------------------------------------------------------------------------
(* The theorems.                                                           *)

LEMMA InitSatisfies == ASSUME Init PROVE WInv
<1> USE WebhooksAssumption
<1>1. Unfired \in Goroutine /\ Unfired.todo = {} /\ Unfired.pc = "unfired"
  BY Times DEF Unfired, Goroutine
<1>2. TypeOK
  BY <1>1 DEF Init, TypeOK
<1>3. RowsRead
  BY DEF Init, RowsRead, Exists
<1>4. DeliveriesTrue
  BY DEF Init, DeliveriesTrue
<1>5. ASSUME NEW f \in Fires PROVE Fine(f)
  <2>1. run[f] = Unfired /\ \A h \in Hooks : Fresh(f, h)
    BY DEF Init, Fresh, Recorded
  <2> QED BY <1>1, <2>1 DEF Fine
<1> QED BY <1>2, <1>3, <1>4, <1>5 DEF WInv

LEMMA NextPreserves == ASSUME WInv, [Next]_vars PROVE WInv'
<1>1. CASE create
  BY <1>1, CreatePreserves DEF create
<1>2. CASE delete
  BY <1>2, DeletePreserves DEF delete
<1>3. ASSUME NEW w \in Workers, update(w) \/ PatchWrites(w) \/ PatchFails(w) PROVE WInv'
  BY <1>3, PatchReadsPreserves, PatchWritesPreserves, PatchFailsPreserves DEF update
<1>4. ASSUME NEW f \in Fires, Steps(f) \/ CallFails(f) \/ Fire(f) PROVE WInv'
  BY <1>4, ListPreserves, DeliverPreserves, AcceptedPreserves, RefusedPreserves,
     SaveDeliveryPreserves, CallFailsPreserves, FirePreserves DEF Steps
<1>5. CASE Crash
  BY <1>5, CrashPreserves
<1>6. CASE UNCHANGED vars
  <2>1. UNCHANGED <<hooks, used, run, deliveries, req, begun, faults, oks, starts, done>>
    BY <1>6 DEF vars, history
  <2>2. TypeOK' /\ RowsRead'
    BY <2>1 DEF WInv, TypeOK, RowsRead, Exists
  <2> QED BY <2>1, <2>2, RequestsKeep
<1> QED BY <1>1, <1>2, <1>3, <1>4, <1>5, <1>6 DEF Next

\* The invariant holds in every state.
THEOREM Invariance == Spec => []WInv
<1>1. Init => WInv
  BY InitSatisfies
<1>2. WInv /\ [Next]_vars => WInv'
  BY NextPreserves
<1> QED BY <1>1, <1>2, PTL DEF Spec

\* Webhooks, deliveries, requests and goroutines keep their types.
THEOREM WebhooksTyped == Spec => []TypeOK
<1>1. WInv => TypeOK
  BY DEF WInv
<1> QED BY <1>1, Invariance, PTL

\* A row of webhook_deliveries says what the receiver has seen: one row for an event and
\* a webhook, one accepted request for a success, all attempts for a failure.
THEOREM RecordsAreTrue == Spec => []DeliveriesTrue
<1>1. WInv => DeliveriesTrue
  BY DEF WInv
<1> QED BY <1>1, Invariance, PTL

-----------------------------------------------------------------------------
(* Requests and rows.                                                      *)

\* The body of PatchKeeps.
PatchStep ==
  \A h \in Hooks : Exists(h) /\ Exists(h)' /\ hooks'[h] # hooks[h] =>
    \E w \in Workers :
      /\ req[w].hook = h /\ req'[w] = Idle
      /\ \/ req[w].raced
         \/ /\ hooks'[h].url \in {hooks[h].url, req[w].url}
            /\ hooks'[h].events \in {hooks[h].events, req[w].events}
            /\ hooks'[h].active \in {hooks[h].active, req[w].active}

LEMMA PatchWritesKeeps ==
  ASSUME WInv, NEW w \in Workers, PatchWrites(w)
  PROVE  PatchStep
<1>0. PICK h : h = req[w].hook
  OBVIOUS
<1>1. req[w] \in Request /\ h \in Hooks /\ req[w] # Idle
  BY <1>0 DEF PatchWrites, WInv, TypeOK, Request
<1>2. hooks' = [hooks EXCEPT ![h] = IF Exists(h) THEN Merged(req[w]) ELSE NoHook]
  BY <1>0 DEF PatchWrites
<1>3. req'[w] = Idle
  <2>1. Become(w, Idle, h)
    BY <1>0 DEF PatchWrites
  <2> QED BY <2>1, BecomeKeeps
<1>4. \A g \in Hooks : g # h => hooks'[g] = hooks[g]
  BY <1>2 DEF WInv, TypeOK
<1>5. ASSUME Exists(h), ~req[w].raced
      PROVE  /\ hooks'[h].url \in {hooks[h].url, req[w].url}
             /\ hooks'[h].events \in {hooks[h].events, req[w].events}
             /\ hooks'[h].active \in {hooks[h].active, req[w].active}
  <2>1. hooks'[h] = Merged(req[w])
    BY <1>1, <1>2, <1>5 DEF WInv, TypeOK
  <2>2. req[w].row = hooks[h]
    BY <1>0, <1>1, <1>5 DEF WInv, RowsRead
  <2> QED BY <2>1, <2>2 DEF Merged
<1> QED BY <1>0, <1>1, <1>3, <1>4, <1>5 DEF PatchStep

\* A row changes to what the PATCH asks for or keeps what it had, unless another change
\* overtook the PATCH after it had read the row.
THEOREM PatchesKeep == Spec => PatchKeeps
<1>1. WInv /\ [Next]_vars => [PatchStep]_vars
  <2> SUFFICES ASSUME WInv, Next PROVE PatchStep
    OBVIOUS
  <2>1. CASE UNCHANGED hooks
    BY <2>1 DEF PatchStep
  <2>2. ASSUME NEW h \in Hooks, NEW url \in Urls, NEW events \in Subscriptions, Create(h, url, events)
        PROVE  PatchStep
    <3>1. ~Exists(h)
      BY <2>2 DEF Create, WInv, RowsRead
    <3>2. \A g \in Hooks : g # h => hooks'[g] = hooks[g]
      BY <2>2 DEF Create, WInv, TypeOK
    <3> QED BY <3>1, <3>2 DEF PatchStep
  <2>3. ASSUME NEW h \in Hooks, Delete(h)
        PROVE  PatchStep
    <3>1. ~Exists(h)'
      BY <2>3 DEF Delete, Exists, WInv, TypeOK
    <3>2. \A g \in Hooks : g # h => hooks'[g] = hooks[g]
      BY <2>3 DEF Delete, WInv, TypeOK
    <3> QED BY <3>1, <3>2 DEF PatchStep
  <2>4. ASSUME NEW w \in Workers, update(w) \/ PatchWrites(w) \/ PatchFails(w) PROVE PatchStep
    <3>1. UNCHANGED hooks \/ PatchWrites(w)
      BY <2>4 DEF update, PatchReads, PatchFails
    <3> QED BY <2>1, <3>1, PatchWritesKeeps
  <2>5. ASSUME NEW f \in Fires, Steps(f) \/ CallFails(f) \/ Fire(f) PROVE PatchStep
    BY <2>1, <2>5 DEF Steps, ListActiveByProject, deliver, Accepted, Refused, SaveDelivery,
       CallFails, Fire
  <2>6. CASE Crash
    BY <2>1, <2>6 DEF Crash
  <2> QED BY <2>2, <2>3, <2>4, <2>5, <2>6 DEF Next, create, delete
<1>2. [][PatchStep]_vars => PatchKeeps
  BY PTL DEF PatchStep, PatchKeeps
<1> QED BY <1>1, <1>2, Invariance, PTL DEF Spec

-----------------------------------------------------------------------------
(* Deliveries that end in time.                                            *)

\* What the first n attempts may have taken.
Spent(n) == Total(Cost, 1 .. n)

\* A webhook that is still to be served is not done with, and the one that is served has
\* not taken more than its attempts may.
Ahead(f) ==
  /\ run[f].pc \in {"unfired", "list"} => \A h \in Hooks : <<f, h>> \notin done
  /\ \A h \in run[f].todo : h \in used /\ <<f, h>> \notin done
  /\ run[f].pc \in {"send", "save"} => run[f].hook \in used /\ <<f, run[f].hook>> \notin done
  /\ run[f].pc = "send" =>
       run[f].elapsed <= starts[<<f, run[f].hook>>] + Spent(run[f].attempts - 1)
  /\ run[f].pc = "save" => run[f].elapsed <= starts[<<f, run[f].hook>>] + WorstDelivery

\* RecordedInTime for one delivery; the id of its webhook cannot be given out again.
Booked(f, h) ==
  <<f, h>> \in done =>
    /\ h \in used
    /\ Exists(h) /\ starts[<<f, h>>] + WorstDelivery < Deadline => Recorded(f, h) # {}

TInv == \A f \in Fires : Ahead(f) /\ \A h \in Hooks : Booked(f, h)

LEMMA CostTyped ==
  /\ \A n \in 1 .. maxAttempts : Cost[n] \in Nat /\ Cost[n] = deliveryTimeout + Pause(n)
  /\ \A n \in 1 .. maxAttempts : Pause(n) \in Nat
  /\ deliveryTimeout \in Nat
<1>1. ASSUME NEW n \in 1 .. maxAttempts PROVE Pause(n) \in Nat
  <2>1. n \in Nat
    BY Times
  <2> QED BY <2>1, PauseTyped
<1>2. deliveryTimeout \in Nat
  BY WebhooksAssumption
<1>3. ASSUME NEW n \in 1 .. maxAttempts PROVE Cost[n] = deliveryTimeout + Pause(n)
  BY DEF Cost
<1> QED BY <1>1, <1>2, <1>3

\* The time of one attempt more, and never more than that of all.
LEMMA SpentGrows ==
  /\ WorstDelivery = Spent(maxAttempts) /\ WorstDelivery \in Nat
  /\ Spent(0) = 0
  /\ \A n \in 1 .. maxAttempts :
       /\ Spent(n) \in Nat /\ Spent(n - 1) \in Nat
       /\ Spent(n) = Spent(n - 1) + Cost[n]
       /\ Spent(n) <= WorstDelivery
<1> DEFINE F == 1 .. maxAttempts
<1>1. IsFiniteSet(F) /\ F \in SUBSET F
  BY Times, FS_Interval
<1>2. WorstDelivery = Spent(maxAttempts)
  BY DEF WorstDelivery, Spent, Total
<1>3. Spent(0) = 0
  <2>1. 1 .. 0 = {}
    OBVIOUS
  <2> QED BY <2>1, TotalEmpty DEF Spent
<1>4. ASSUME NEW n \in F
      PROVE  /\ 1 .. n \in SUBSET F /\ 1 .. (n - 1) \in SUBSET F
             /\ n \in F \ (1 .. (n - 1)) /\ 1 .. n = (1 .. (n - 1)) \cup {n}
  BY Times
<1>5. \A n \in F : Cost[n] \in Nat /\ Cost[n] \in Int
  BY CostTyped
<1> HIDE DEF F
<1>6. ASSUME NEW S \in SUBSET F PROVE Total(Cost, S) \in Nat
  <2>1. Nat \in {Nat, Int}
    OBVIOUS
  <2> QED BY <1>1, <1>5, <2>1, TotalInt
<1>7. ASSUME NEW n \in F
      PROVE  /\ Spent(n) \in Nat /\ Spent(n - 1) \in Nat
             /\ Spent(n) = Spent(n - 1) + Cost[n]
             /\ Spent(n) <= WorstDelivery
  <2>1. Spent(n) \in Nat /\ Spent(n - 1) \in Nat
    BY <1>4, <1>6 DEF Spent
  <2>2. Spent(n) = Spent(n - 1) + Cost[n]
    <3>1. PICK S : S = 1 .. (n - 1)
      OBVIOUS
    <3>2. S \in SUBSET F /\ n \in F \ S /\ 1 .. n = S \cup {n}
      BY <1>4, <3>1
    <3>3. Total(Cost, S \cup {n}) = Total(Cost, S) + Cost[n]
      BY <1>1, <1>5, <3>2, TotalAdd
    <3> QED BY <3>1, <3>2, <3>3 DEF Spent
  <2>3. Total(Cost, 1 .. n) <= Total(Cost, F)
    BY <1>1, <1>4, <1>5, TotalGrows
  <2> QED BY <1>2, <2>1, <2>2, <2>3 DEF Spent, F
<1>8. WorstDelivery \in Nat
  BY <1>1, <1>2, <1>6 DEF Spent, F
<1> QED BY <1>2, <1>3, <1>7, <1>8 DEF F

LEMMA BookedKept ==
  ASSUME NEW f \in Fires, NEW h \in Hooks, Booked(f, h),
         <<f, h>> \in done' => <<f, h>> \in done /\ starts'[<<f, h>>] = starts[<<f, h>>],
         h \in used => h \in used',
         h \in used /\ Exists(h)' => Exists(h) /\ Recorded(f, h) \subseteq Recorded(f, h)'
  PROVE  Booked(f, h)'
BY DEF Booked

LEMMA AheadKept ==
  ASSUME NEW f \in Fires, Ahead(f), run'[f] = run[f], run[f].todo \subseteq Hooks,
         run[f].pc \in {"send", "save"} => run[f].hook \in Hooks,
         used \subseteq used',
         \A h \in Hooks : /\ <<f, h>> \in done' => <<f, h>> \in done
                          /\ starts'[<<f, h>>] = starts[<<f, h>>]
  PROVE  Ahead(f)'
BY DEF Ahead, Spent

LEMMA Serving ==
  ASSUME WInv, NEW f \in Fires
  PROVE  /\ run[f].todo \subseteq Hooks /\ run[f] \in Goroutine
         /\ run[f].pc \in {"send", "save"} =>
              run[f].hook \in Hooks \ run[f].todo /\ run[f].attempts \in 1 .. maxAttempts
BY DEF WInv, TypeOK, Goroutine, Fine

\* A step of requests: a webhook that has been served is not created anew, and is deleted
\* with its rows.
LEMMA RequestsInTime ==
  ASSUME WInv, TInv, UNCHANGED <<run, starts, done>>, used \subseteq used',
         \A h \in Hooks : h \in used /\ Exists(h)' =>
           Exists(h) /\ \A f \in Fires : Recorded(f, h) \subseteq Recorded(f, h)'
  PROVE  TInv'
<1>1. ASSUME NEW f \in Fires PROVE Ahead(f)'
  BY Serving, AheadKept DEF TInv
<1>2. ASSUME NEW f \in Fires, NEW h \in Hooks PROVE Booked(f, h)'
  BY BookedKept DEF TInv
<1> QED BY <1>1, <1>2 DEF TInv

\* A step of one goroutine.
LEMMA OneInTime ==
  ASSUME WInv, TInv, NEW f \in Fires, UNCHANGED <<hooks, used>>, deliveries \subseteq deliveries',
         \A g \in Fires : g # f => run'[g] = run[g],
         \A g \in Fires, h \in Hooks : g # f =>
           /\ <<g, h>> \in done' => <<g, h>> \in done
           /\ starts'[<<g, h>>] = starts[<<g, h>>],
         Ahead(f)', \A h \in Hooks : Booked(f, h)'
  PROVE  TInv'
<1>1. \A g \in Fires, h \in Hooks : Recorded(g, h) \subseteq Recorded(g, h)'
  BY DEF Recorded
<1>2. \A h \in Hooks : Exists(h)' = Exists(h)
  BY DEF Exists
<1>3. ASSUME NEW g \in Fires, g # f PROVE Ahead(g)'
  BY <1>3, Serving, AheadKept DEF TInv
<1>4. ASSUME NEW g \in Fires, NEW h \in Hooks, g # f PROVE Booked(g, h)'
  BY <1>1, <1>2, <1>4, BookedKept DEF TInv
<1> QED BY <1>3, <1>4 DEF TInv

\* A goroutine goes on and nothing is done with.
LEMMA GoesInTime ==
  ASSUME WInv, TInv, NEW f \in Fires, NEW state, Go(f, state),
         UNCHANGED <<hooks, used, done>>, deliveries \subseteq deliveries',
         \A g \in Fires, h \in Hooks : <<g, h>> \in done \/ g # f => starts'[<<g, h>>] = starts[<<g, h>>],
         Ahead(f)'
  PROVE  TInv'
<1>1. \A g \in Fires : g # f => run'[g] = run[g]
  BY DEF Go, WInv, TypeOK
<1>2. \A h \in Hooks : Recorded(f, h) \subseteq Recorded(f, h)'
  BY DEF Recorded
<1>3. ASSUME NEW h \in Hooks PROVE Booked(f, h)'
  BY <1>2, BookedKept DEF TInv, Exists
<1> QED BY <1>1, <1>3, OneInTime

\* A goroutine that serves nobody has nothing to keep but what is before it.
LEMMA AheadBetween ==
  ASSUME NEW f \in Fires, run'[f].pc \notin {"unfired", "list", "send", "save"},
         \A h \in run'[f].todo : h \in used' /\ <<f, h>> \notin done'
  PROVE  Ahead(f)'
BY DEF Ahead

LEMMA OnwardInTime ==
  ASSUME WInv, TInv, NEW f \in Fires, NEW todo \in SUBSET Hooks, Onward(f, todo),
         \A h \in todo : h \in used /\ <<f, h>> \notin done,
         UNCHANGED <<hooks, used, deliveries, starts, done>>
  PROVE  TInv'
<1> DEFINE state == Left(f, todo)
<1>1. state.pc \in {"ended", "next"} /\ state.todo = todo
  BY LeftTyped DEF WInv
<1>2. Go(f, state)
  BY DEF Onward, Left
<1> HIDE DEF state
<1>3. run'[f] = state
  BY <1>2, Going
<1>4. Ahead(f)'
  BY <1>1, <1>3, AheadBetween
<1> QED BY <1>2, <1>4, GoesInTime

LEMMA CreateInTime ==
  ASSUME WInv, TInv, NEW h \in Hooks, NEW url \in Urls, NEW events \in Subscriptions, Create(h, url, events)
  PROVE  TInv'
<1>1. /\ h \notin used /\ used' = used \cup {h} /\ UNCHANGED <<run, deliveries, starts, done>>
      /\ \A g \in Hooks : g # h => hooks'[g] = hooks[g]
  BY DEF Create, Count, history, WInv, TypeOK
<1>2. \A g \in Hooks : g \in used /\ Exists(g)' =>
        Exists(g) /\ \A f \in Fires : Recorded(f, g) \subseteq Recorded(f, g)'
  BY <1>1 DEF Exists, Recorded
<1> QED BY <1>1, <1>2, RequestsInTime

LEMMA DeleteInTime ==
  ASSUME WInv, TInv, NEW h \in Hooks, Delete(h)
  PROVE  TInv'
<1>1. /\ deliveries' = {d \in deliveries : d.hook # h} /\ UNCHANGED <<used, run, starts, done>>
      /\ hooks'[h] = NoHook /\ \A g \in Hooks : g # h => hooks'[g] = hooks[g]
  BY DEF Delete, history, WInv, TypeOK
<1>2. \A g \in Hooks : g \in used /\ Exists(g)' =>
        Exists(g) /\ \A f \in Fires : Recorded(f, g) \subseteq Recorded(f, g)'
  BY <1>1 DEF Exists, Recorded
<1> QED BY <1>1, <1>2, RequestsInTime

LEMMA PatchesInTime ==
  ASSUME WInv, TInv, NEW w \in Workers, update(w) \/ PatchWrites(w) \/ PatchFails(w)
  PROVE  TInv'
<1>1. UNCHANGED <<used, run, deliveries, starts, done>>
  BY DEF update, PatchReads, PatchWrites, PatchFails, history
<1>2. ASSUME NEW g \in Hooks, Exists(g)' PROVE Exists(g)
  <2>1. CASE UNCHANGED hooks
    BY <1>2, <2>1 DEF Exists
  <2>2. CASE PatchWrites(w)
    <3>0. PICK h : h = req[w].hook
      OBVIOUS
    <3>1. hooks' = [hooks EXCEPT ![h] = IF Exists(h) THEN Merged(req[w]) ELSE NoHook]
      BY <2>2, <3>0 DEF PatchWrites
    <3> QED BY <1>2, <3>1 DEF WInv, TypeOK, Exists
  <2> QED BY <2>1, <2>2 DEF update, PatchReads, PatchFails
<1>3. \A g \in Hooks : g \in used /\ Exists(g)' =>
        Exists(g) /\ \A f \in Fires : Recorded(f, g) \subseteq Recorded(f, g)'
  BY <1>1, <1>2 DEF Recorded
<1> QED BY <1>1, <1>3, RequestsInTime

LEMMA FireInTime ==
  ASSUME WInv, TInv, NEW f \in Fires, Fire(f)
  PROVE  TInv'
<1> DEFINE state == [Unfired EXCEPT !.pc = "list"]
<1>1. state.pc = "list" /\ state.todo = {}
  BY DEF Unfired
<1>2. Go(f, state) /\ UNCHANGED <<hooks, used, deliveries, starts, done>>
  BY DEF Fire, history
<1>3. \A h \in Hooks : <<f, h>> \notin done
  BY DEF TInv, Ahead, Fire, At
<1> HIDE DEF state
<1>4. run'[f] = state
  BY <1>2, Going
<1>5. Ahead(f)'
  BY <1>1, <1>2, <1>3, <1>4 DEF Ahead
<1> QED BY <1>2, <1>5, GoesInTime

LEMMA ListInTime ==
  ASSUME WInv, TInv, NEW f \in Fires, ListActiveByProject(f)
  PROVE  TInv'
<1> DEFINE todo == {h \in Hooks : hooks[h].active /\ EventOf[f] \in hooks[h].events}
<1>1. \A h \in Hooks : <<f, h>> \notin done
  BY DEF TInv, Ahead, ListActiveByProject, At
<1>2. \A h \in todo : h \in used
  BY DEF WInv, RowsRead, Exists, NoHook
<1>3. Onward(f, todo) /\ UNCHANGED <<hooks, used, deliveries, starts, done>>
  BY DEF ListActiveByProject, history
<1> QED BY <1>1, <1>2, <1>3, OnwardInTime

LEMMA DeliverInTime ==
  ASSUME WInv, TInv, NEW f \in Fires, NEW h \in Hooks, deliver(f, h)
  PROVE  TInv'
<1> DEFINE state == [run[f] EXCEPT !.pc = "send", !.todo = @ \ {h}, !.hook = h, !.attempts = 1]
<1>1. /\ Go(f, state) /\ UNCHANGED <<hooks, used, deliveries, done>>
      /\ starts' = [starts EXCEPT ![<<f, h>>] = run[f].elapsed]
  BY DEF deliver
<1>2. /\ run[f] \in Goroutine /\ h \in run[f].todo
      /\ \A g \in run[f].todo : g \in used /\ <<f, g>> \notin done
  BY Going DEF TInv, Ahead, deliver
<1>3. /\ state.pc = "send" /\ state.todo = run[f].todo \ {h} /\ state.hook = h
      /\ state.attempts = 1 /\ state.elapsed = run[f].elapsed /\ state.elapsed \in Nat
  BY <1>2 DEF Goroutine
<1> HIDE DEF state
<1>4. /\ starts'[<<f, h>>] = run[f].elapsed
      /\ \A g \in Fires, k \in Hooks : <<g, k>> # <<f, h>> => starts'[<<g, k>>] = starts[<<g, k>>]
  BY <1>1 DEF WInv, TypeOK
<1>5. run'[f] = state
  BY <1>1, Going
<1>6. run'[f].elapsed <= starts'[<<f, run'[f].hook>>] + Spent(run'[f].attempts - 1)
  <2>1. Spent(1 - 1) = 0
    BY SpentGrows
  <2>2. run'[f].attempts = 1 /\ run'[f].hook = h /\ run'[f].elapsed = run[f].elapsed /\ run[f].elapsed \in Nat
    BY <1>3, <1>5
  <2> QED BY <1>4, <2>1, <2>2
<1>7. Ahead(f)'
  BY <1>1, <1>2, <1>3, <1>5, <1>6 DEF Ahead, Spent
<1>8. \A g \in Fires, k \in Hooks : <<g, k>> \in done \/ g # f => starts'[<<g, k>>] = starts[<<g, k>>]
  BY <1>2, <1>4
<1> QED BY <1>1, <1>7, <1>8, GoesInTime

\* The receiver answers or the attempt times out, and the pause follows.
LEMMA AnswerInTime ==
  ASSUME WInv, TInv, NEW f \in Fires, NEW span \in Spans, Accepted(f, span) \/ Refused(f, span)
  PROVE  TInv'
<1> DEFINE n == run[f].attempts
           e == run[f].elapsed
           s == starts[<<f, run[f].hook>>]
<1>1. /\ run[f].pc = "send" /\ run[f] \in Goroutine /\ run[f].hook \in Hooks
      /\ run[f].hook \in used /\ <<f, run[f].hook>> \notin done
      /\ \A h \in run[f].todo : h \in used /\ <<f, h>> \notin done
      /\ e <= s + Spent(n - 1) /\ n \in 1 .. maxAttempts
  BY Serving DEF TInv, Ahead, Accepted, Refused, At
<1>2. /\ e \in Nat /\ s \in Nat /\ n \in Nat /\ span \in Nat /\ span <= deliveryTimeout
      /\ deliveryTimeout \in Nat /\ Pause(n) \in Nat
  <2>1. e \in Nat
    BY <1>1 DEF Goroutine
  <2>2. s \in Nat
    BY <1>1 DEF WInv, TypeOK
  <2> QED BY <1>1, <2>1, <2>2, CostTyped, Times, WebhooksAssumption
<1>3. /\ Spent(n) = Spent(n - 1) + deliveryTimeout + Pause(n) /\ Spent(n) <= WorstDelivery
      /\ Spent(n - 1) \in Nat /\ Spent(n) \in Nat /\ WorstDelivery \in Nat
  <2> HIDE DEF n
  <2>1. Cost[n] = deliveryTimeout + Pause(n)
    BY <1>1, CostTyped
  <2> QED BY <1>1, <1>2, <2>1, SpentGrows
<1>4. e + span + Pause(n) <= s + Spent(n) /\ e + span <= s + WorstDelivery
  <2> HIDE DEF n, e, s
  <2> QED BY <1>1, <1>2, <1>3
<1>5. UNCHANGED <<hooks, used, deliveries, starts, done>>
  BY DEF Accepted, Refused, history
<1>6. \E state : /\ Go(f, state) /\ state.todo = run[f].todo /\ state.hook = run[f].hook
                 /\ \/ state.pc = "save" /\ state.elapsed = e + span
                    \/ /\ state.pc = "send" /\ state.attempts = n + 1
                       /\ state.elapsed = e + span + Pause(n)
  <2> DEFINE good == [run[f] EXCEPT !.pc = "save", !.success = TRUE, !.elapsed = @ + span]
             last == [run[f] EXCEPT !.pc = "save", !.success = FALSE, !.elapsed = @ + span]
             again == [run[f] EXCEPT !.attempts = @ + 1,
                                     !.elapsed = @ + span + Pause(run[f].attempts)]
  <2>1. Go(f, good) \/ Go(f, last) \/ Go(f, again)
    BY DEF Accepted, Refused
  <2>2. /\ good.todo = run[f].todo /\ good.hook = run[f].hook /\ good.pc = "save"
        /\ good.elapsed = e + span
        /\ last.todo = run[f].todo /\ last.hook = run[f].hook /\ last.pc = "save"
        /\ last.elapsed = e + span
        /\ again.todo = run[f].todo /\ again.hook = run[f].hook /\ again.pc = "send"
        /\ again.attempts = n + 1 /\ again.elapsed = e + span + Pause(n)
    BY <1>1 DEF Goroutine
  <2> HIDE DEF good, last, again, e, n
  <2> QED BY <2>1, <2>2
<1>7. PICK state : /\ Go(f, state) /\ state.todo = run[f].todo /\ state.hook = run[f].hook
                   /\ \/ state.pc = "save" /\ state.elapsed = e + span
                      \/ /\ state.pc = "send" /\ state.attempts = n + 1
                         /\ state.elapsed = e + span + Pause(n)
  BY <1>6
<1>8. run'[f] = state
  BY <1>7, Going
<1>9. Ahead(f)'
  <2>1. starts'[<<f, run'[f].hook>>] = s
    BY <1>5, <1>7, <1>8
  <2>2. run'[f].pc = "save" => run'[f].elapsed <= s + WorstDelivery
    BY <1>4, <1>7, <1>8
  <2>3. run'[f].pc = "send" => run'[f].elapsed <= s + Spent(run'[f].attempts - 1)
    <3> SUFFICES ASSUME run'[f].pc = "send" PROVE run'[f].elapsed <= s + Spent(run'[f].attempts - 1)
      OBVIOUS
    <3>1. run'[f].attempts = n + 1 /\ run'[f].elapsed = e + span + Pause(n)
      BY <1>7, <1>8
    <3>2. run'[f].attempts - 1 = n
      BY <1>2, <3>1
    <3>3. Spent(run'[f].attempts - 1) = Spent(n)
      BY <3>2
    <3> HIDE DEF n, e, s
    <3> QED BY <1>4, <3>1, <3>3
  <2>4. /\ \A h \in run'[f].todo : h \in used' /\ <<f, h>> \notin done'
        /\ run'[f].hook \in used' /\ <<f, run'[f].hook>> \notin done'
        /\ run'[f].pc \in {"send", "save"}
    BY <1>1, <1>5, <1>7, <1>8
  <2> HIDE DEF s
  <2> QED BY <2>1, <2>2, <2>3, <2>4 DEF Ahead, Spent
<1> QED BY <1>5, <1>7, <1>9, GoesInTime

\* A delivery that ends in time, to a webhook that is still there, leaves a row.
LEMMA SaveDeliveryInTime ==
  ASSUME WInv, TInv, NEW f \in Fires, SaveDelivery(f)
  PROVE  TInv'
<1> DEFINE r == run[f]
           state == Left(f, r.todo)
<1>0. PICK h : h = r.hook
  OBVIOUS
<1> DEFINE row == [fire |-> f, hook |-> h, success |-> r.success, attempts |-> r.attempts]
<1>1. /\ r.pc = "save" /\ Onward(f, r.todo)
      /\ deliveries' = IF Savable(f) THEN deliveries \cup {row} ELSE deliveries
      /\ done' = done \cup {<<f, h>>}
      /\ UNCHANGED <<hooks, used, starts>>
  BY <1>0 DEF SaveDelivery, AfterDelivery, At
<1>2. /\ r \in Goroutine /\ r.todo \subseteq Hooks /\ h \in Hooks \ r.todo /\ h \in used
      /\ \A k \in r.todo : k \in used /\ <<f, k>> \notin done
      /\ r.elapsed <= starts[<<f, h>>] + WorstDelivery
  BY <1>0, <1>1, Serving DEF TInv, Ahead
<1>3. state.pc \in {"ended", "next"} /\ state.todo = r.todo
  BY <1>2, LeftTyped DEF WInv
<1>4. Go(f, state)
  BY <1>1 DEF Onward, Left
<1>5. Exists(h) /\ starts[<<f, h>>] + WorstDelivery < Deadline => row \in deliveries'
  <2>1. r.elapsed \in Nat /\ starts[<<f, h>>] \in Nat /\ WorstDelivery \in Nat /\ Deadline \in Nat
    BY <1>2, SpentGrows, WebhooksAssumption DEF Goroutine, WInv, TypeOK
  <2>2. starts[<<f, h>>] + WorstDelivery < Deadline => r.elapsed < Deadline
    BY <1>2, <2>1
  <2> HIDE DEF row
  <2> QED BY <1>0, <1>1, <2>2 DEF Savable
<1>6. row.fire = f /\ row.hook = h
  OBVIOUS
<1> HIDE DEF state, row
<1>7. \A g \in Fires : run'[g] = IF g = f THEN state ELSE run[g]
  BY <1>4 DEF Go, WInv, TypeOK
<1>8. deliveries \subseteq deliveries'
  BY <1>1
<1>9. Ahead(f)'
  BY <1>1, <1>2, <1>3, <1>7, AheadBetween
<1>10. ASSUME NEW k \in Hooks PROVE Booked(f, k)'
  <2>1. CASE k = h
    <3>1. row \in deliveries' => Recorded(f, h)' # {}
      BY <1>6 DEF Recorded
    <3> QED BY <1>1, <1>2, <1>5, <2>1, <3>1 DEF Booked, Exists
  <2>2. CASE k # h
    <3>1. <<f, k>> \in done' => <<f, k>> \in done
      BY <1>1, <2>2
    <3>2. Recorded(f, k) \subseteq Recorded(f, k)'
      BY <1>8 DEF Recorded
    <3> QED BY <1>1, <3>1, <3>2, BookedKept DEF TInv, Exists
  <2> QED BY <2>1, <2>2
<1>11. \A g \in Fires, k \in Hooks : g # f => (<<g, k>> \in done' => <<g, k>> \in done)
  BY <1>1
<1> QED BY <1>1, <1>7, <1>8, <1>9, <1>10, <1>11, OneInTime

LEMMA CallFailsInTime ==
  ASSUME WInv, TInv, NEW f \in Fires, CallFails(f)
  PROVE  TInv'
<1>1. UNCHANGED <<hooks, used, deliveries, starts, done>>
  BY DEF CallFails, history
<1>2. \A h \in run[f].todo : h \in used /\ <<f, h>> \notin done
  BY DEF TInv, Ahead
<1>3. run[f].todo \in SUBSET Hooks
  BY Serving
<1>4. CASE Onward(f, run[f].todo)
  BY <1>1, <1>2, <1>3, <1>4, OnwardInTime
<1>5. CASE Onward(f, {})
  BY <1>1, <1>5, OnwardInTime
<1> QED BY <1>4, <1>5 DEF CallFails

LEMMA CrashInTime ==
  ASSUME WInv, TInv, Crash
  PROVE  TInv'
<1>1. UNCHANGED <<hooks, used, deliveries, starts, done>>
  BY DEF Crash, history
<1>2. ASSUME NEW f \in Fires PROVE Ahead(f)'
  <2>1. run'[f] = IF run[f].pc \in {"unfired", "ended"} THEN run[f] ELSE [Unfired EXCEPT !.pc = "lost"]
    BY DEF Crash
  <2>2. CASE run'[f] = run[f]
    BY <1>1, <2>2, Serving, AheadKept DEF TInv
  <2>3. CASE run'[f] # run[f]
    <3>1. run'[f].pc = "lost" /\ run'[f].todo = {}
      BY <2>1, <2>3 DEF Unfired
    <3> QED BY <3>1, AheadBetween
  <2> QED BY <2>2, <2>3
<1>3. ASSUME NEW f \in Fires, NEW h \in Hooks PROVE Booked(f, h)'
  BY <1>1, BookedKept DEF TInv, Exists, Recorded
<1> QED BY <1>2, <1>3 DEF TInv

LEMMA TimesKept == ASSUME WInv, TInv, [Next]_vars PROVE TInv'
<1>1. CASE create
  BY <1>1, CreateInTime DEF create
<1>2. CASE delete
  BY <1>2, DeleteInTime DEF delete
<1>3. ASSUME NEW w \in Workers, update(w) \/ PatchWrites(w) \/ PatchFails(w) PROVE TInv'
  BY <1>3, PatchesInTime
<1>4. ASSUME NEW f \in Fires, Steps(f) \/ CallFails(f) \/ Fire(f) PROVE TInv'
  BY <1>4, ListInTime, DeliverInTime, AnswerInTime, SaveDeliveryInTime, CallFailsInTime,
     FireInTime DEF Steps
<1>5. CASE Crash
  BY <1>5, CrashInTime
<1>6. CASE UNCHANGED vars
  <2>1. UNCHANGED <<hooks, used, run, deliveries, starts, done>>
    BY <1>6 DEF vars, history
  <2> QED BY <2>1, RequestsInTime DEF Exists, Recorded
<1> QED BY <1>1, <1>2, <1>3, <1>4, <1>5, <1>6 DEF Next

\* The invariant of the times holds in every state.
THEOREM TimesInvariance == Spec => []TInv
<1>1. Init => TInv
  <2> SUFFICES ASSUME Init PROVE TInv
    OBVIOUS
  <2>1. \A f \in Fires : run[f].todo = {} /\ run[f].pc = "unfired"
    BY DEF Init, Unfired
  <2> QED BY <2>1 DEF Init, TInv, Ahead, Booked
<1>2. WInv /\ TInv /\ [Next]_vars => TInv'
  BY TimesKept
<1> QED BY <1>1, <1>2, Invariance, PTL DEF Spec

\* A delivery that has ended without a row for the user began too late for all its attempts,
\* or its webhook was deleted: one deadline is for all webhooks of an event.
THEOREM DeliveriesAreRecorded == Spec => []RecordedInTime
<1>1. WInv /\ TInv => RecordedInTime
  <2> SUFFICES ASSUME WInv, TInv, NEW d \in done, Exists(d[2]) /\ starts[d] + WorstDelivery < Deadline
               PROVE  Recorded(d[1], d[2]) # {}
    BY DEF RecordedInTime
  <2>1. PICK f \in Fires, h \in Hooks : d = <<f, h>>
    BY DEF WInv, TypeOK
  <2> QED BY <2>1 DEF TInv, Booked
<1> QED BY <1>1, Invariance, TimesInvariance, PTL

=============================================================================
