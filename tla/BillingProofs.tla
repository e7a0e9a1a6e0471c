---------------------------- MODULE BillingProofs ----------------------------
EXTENDS BillingHistory, TLAPS

(* What one process knows of itself, and what its steps leave alone. *)
Own(w) == Assigned(w) /\ CheckoutOwnsRow(w) /\ OnlyPaidActivates(w)
OthersUnchanged(w) == \A v \in Procs \ {w} : worker'[v] = worker[v]

(* Rows and gateway records only move forward, and the only one that moves is  *)
(* that of w's purchase, either from within its checkout or once it has an id. *)
Advances(w) ==
  \A p \in Purchases :
    /\ ledger[p].gid => ledger'[p].gid
    /\ ledger[p].status # "none" => ledger'[p].status # "none"
    /\ gateway[p] # "none" => gateway'[p] # "none"
    /\ gateway[p] = "completed" => gateway'[p] = "completed"
    /\ p \in claimed => p \in claimed'
    /\ ledger'[p] # ledger[p] \/ gateway'[p] # gateway[p] =>
         p = worker[w].p /\ (worker[w].pc \in CheckoutCalls \/ ledger[p].gid)

-----------------------------------------------------------------------------
(* How the helpers change the state of a process. *)

LEMMA BecomeUpdates ==
  ASSUME TypeOK, NEW w \in Procs, NEW state \in ProcState, Become(w, state)
  PROVE  worker' \in [Procs -> ProcState] /\ worker'[w] = state /\ OthersUnchanged(w)
BY DEF TypeOK, Become, OthersUnchanged

LEMMA GotoUpdates ==
  ASSUME TypeOK, NEW w \in Procs, NEW pc \in Calls, Goto(w, pc)
  PROVE  /\ worker' \in [Procs -> ProcState] /\ OthersUnchanged(w)
         /\ worker'[w].pc = pc
         /\ worker'[w].p = worker[w].p /\ worker'[w].u = worker[w].u
         /\ worker'[w].s = worker[w].s /\ worker'[w].q = worker[w].q
<1> DEFINE state == [worker[w] EXCEPT !.pc = pc]
<1>1. worker[w] \in ProcState BY DEF TypeOK
<1>2. state \in ProcState BY <1>1 DEF ProcState, Calls
<1>3. /\ state.pc = pc
      /\ state.p = worker[w].p /\ state.u = worker[w].u
      /\ state.s = worker[w].s /\ state.q = worker[w].q
  BY <1>1 DEF ProcState
<1>4. Become(w, state) BY DEF Goto
<1> HIDE DEF state
<1> QED BY <1>2, <1>3, <1>4, BecomeUpdates

LEMMA IdleType == Idle \in ProcState /\ FreeQuota \in Quotas
BY BillingAssumption DEF Idle, FreeQuota, Quotas, ProcState, Calls, Status

LEMMA ReturnUpdates ==
  ASSUME TypeOK, NEW w \in Procs, Return(w)
  PROVE  /\ worker' \in [Procs -> ProcState] /\ OthersUnchanged(w)
         /\ worker'[w].pc = "idle"
         /\ Own(w)'
<1>1. worker' \in [Procs -> ProcState] /\ worker'[w] = Idle /\ OthersUnchanged(w)
  BY IdleType, BecomeUpdates DEF Return
<1>2. worker'[w].pc = "idle" BY <1>1 DEF Idle
<1> QED
  BY <1>1, <1>2 DEF Own, Assigned, CheckoutOwnsRow, OnlyPaidActivates, At,
                    CheckoutCalls, StatusCalls, ActivationCalls

-----------------------------------------------------------------------------
(* The frame: what every step of a process preserves. *)

LEMMA PaidGrowing ==
  ASSUME TypeOK, NEW w \in Procs, Advances(w), NEW u
  PROVE  /\ Confirmed \subseteq Confirmed'
         /\ Paid(u) \subseteq Paid(u)' /\ PaidPlans(u) \subseteq PaidPlans(u)'
<1>1. claimed \subseteq Purchases BY BillingAssumption DEF TypeOK
<1>2. Confirmed \subseteq Confirmed' BY <1>1 DEF Confirmed, Advances
<1>3. Paid(u) \subseteq Paid(u)' BY <1>2 DEF Paid
<1> QED BY <1>2, <1>3 DEF PaidPlans

LEMMA OthersKeep ==
  ASSUME IInv, NEW w \in Procs, OthersUnchanged(w), Advances(w), Own(w)',
         NEW v \in Procs \ {w}
  PROVE  Own(v)'
<1> USE DEF At, CheckoutCalls, StatusCalls, ActivationCalls
<1>1. Own(v) /\ Own(w) /\ worker'[v] = worker[v] BY DEF IInv, Own, OthersUnchanged
<1>2. Assigned(v)' BY <1>1 DEF Own, Assigned
<1>3. CheckoutOwnsRow(v)'
  BY <1>1 DEF Own, Assigned, CheckoutOwnsRow, Advances, OthersUnchanged
<1>4. OnlyPaidActivates(v)'
  <2>1. TypeOK BY DEF IInv
  <2> QED BY <1>1, <2>1, PaidGrowing DEF Own, Assigned, OnlyPaidActivates, Advances
<1> QED BY <1>2, <1>3, <1>4 DEF Own

LEMMA PaidGrows ==
  ASSUME IInv, NEW w \in Procs, Advances(w), UNCHANGED <<sub, quota>>
  PROVE  PaidForPlan' /\ QuotaPaidFor'
BY PaidGrowing DEF IInv, PaidForPlan, QuotaPaidFor

LEMMA StepPreserves ==
  ASSUME IInv, NEW w \in Procs, OthersUnchanged(w), Advances(w), Own(w)',
         TypeOK', RowsInOrder', LedgerFollowsGateway', PaidForPlan', QuotaPaidFor'
  PROVE  IInv'
BY OthersKeep DEF IInv, Own

LEMMA PrivateStep ==
  ASSUME IInv, NEW w \in Procs, OthersUnchanged(w), Own(w)', TypeOK',
         UNCHANGED <<sub, quota, ledger, gateway>>, claimed \subseteq claimed'
  PROVE  IInv'
<1>1. Advances(w) BY DEF Advances
<1>2. RowsInOrder' /\ LedgerFollowsGateway'
  BY DEF IInv, RowsInOrder, LedgerFollowsGateway, Confirmed
<1> QED BY <1>1, <1>2, PaidGrows, StepPreserves

-----------------------------------------------------------------------------
(* Checkout. *)

LEMMA InitiateCheckoutStep ==
  ASSUME IInv, NEW w \in Workers, NEW p \in Purchases, InitiateCheckout(w, p)
  PROVE  IInv'
<1> DEFINE state == [Idle EXCEPT !.pc = "insert", !.p = p, !.u = Owner[p]]
<1>0. TypeOK /\ w \in Procs BY DEF IInv, Procs
<1>1. state \in ProcState
  BY IdleType, BillingAssumption DEF ProcState, Calls, Idle
<1>2. state.pc = "insert" /\ state.p = p /\ state.u = Owner[p] BY DEF Idle
<1>3. Become(w, state) BY DEF InitiateCheckout, Start
<1> HIDE DEF state
<1>4. /\ worker' \in [Procs -> ProcState] /\ OthersUnchanged(w)
      /\ worker'[w].pc = "insert" /\ worker'[w].p = p /\ worker'[w].u = Owner[p]
  BY <1>0, <1>1, <1>2, <1>3, BecomeUpdates
<1>5. ledger[p].status = "none" /\ \A v \in Procs : worker[v].p # p
  BY DEF InitiateCheckout
<1>6. UNCHANGED <<sub, quota, ledger, gateway, acked, todo, now, faults, activated, claimed>>
  BY DEF InitiateCheckout
<1>7. TypeOK' BY <1>0, <1>4, <1>6 DEF TypeOK, Quotas
<1>8. Own(w)'
  <2> USE DEF At, CheckoutCalls, StatusCalls, ActivationCalls
  <2>1. gateway[p] = "none" /\ ~ledger[p].gid BY <1>5 DEF IInv, RowsInOrder
  <2>2. Assigned(w)' BY <1>4 DEF Assigned
  <2>3. CheckoutOwnsRow(w)'
    BY <1>4, <1>5, <1>6, <2>1 DEF CheckoutOwnsRow, OthersUnchanged
  <2>4. OnlyPaidActivates(w)' BY <1>4 DEF OnlyPaidActivates
  <2> QED BY <2>2, <2>3, <2>4 DEF Own
<1> QED BY <1>0, <1>4, <1>6, <1>7, <1>8, PrivateStep

LEMMA InsertRowStep == ASSUME IInv, NEW w \in Procs, InsertRow(w) PROVE IInv'
<1> DEFINE p == worker[w].p
<1> USE DEF At, CheckoutCalls, StatusCalls, ActivationCalls
<1>1. TypeOK /\ worker[w].pc = "insert" BY DEF IInv, InsertRow
<1>2. /\ p \in Purchases /\ worker[w].u = Owner[p]
      /\ gateway[p] = "none" /\ ~ledger[p].gid
      /\ \A v \in Procs : worker[v].pc \in CheckoutCalls /\ worker[v].p = p => v = w
  BY <1>1 DEF IInv, Assigned, CheckoutOwnsRow
<1>3. /\ worker' \in [Procs -> ProcState] /\ OthersUnchanged(w)
      /\ worker'[w].pc = "create" /\ worker'[w].p = p /\ worker'[w].u = worker[w].u
  BY <1>1, GotoUpdates, "create" \in Calls DEF InsertRow, Calls
<1>4. /\ ledger' \in [Purchases -> [status: Status \cup {"none"}, gid: BOOLEAN]]
      /\ ledger'[p].status = "pending" /\ ~ledger'[p].gid
      /\ \A x \in Purchases \ {p} : ledger'[x] = ledger[x]
  BY <1>1, <1>2 DEF InsertRow, UpdateStatus, TypeOK, Status
<1>5. UNCHANGED <<sub, quota, gateway, acked, todo, now, faults, activated, claimed>> BY DEF InsertRow
<1>6. TypeOK' BY <1>1, <1>3, <1>4, <1>5 DEF TypeOK, Quotas
<1>7. Advances(w) BY <1>1, <1>2, <1>4, <1>5 DEF Advances
<1>8. Own(w)'
  BY <1>2, <1>3, <1>4, <1>5
  DEF Own, Assigned, CheckoutOwnsRow, OnlyPaidActivates, OthersUnchanged
<1>9. RowsInOrder' /\ LedgerFollowsGateway'
  BY <1>2, <1>4, <1>5 DEF IInv, RowsInOrder, LedgerFollowsGateway, Confirmed
<1> QED BY <1>3, <1>5, <1>6, <1>7, <1>8, <1>9, PaidGrows, StepPreserves

(* What both outcomes of the gateway call have in common. *)
LEMMA GatewayCallStep ==
  ASSUME IInv, NEW w \in Procs, At(w, "create"), NEW pc \in {"store", "refuse"},
         UNCHANGED <<sub, quota, ledger, acked, todo, now, activated, claimed>>, faults' \in Nat,
         worker' \in [Procs -> ProcState], OthersUnchanged(w),
         worker'[w].pc = pc, worker'[w].p = worker[w].p, worker'[w].u = worker[w].u,
         NEW s \in Status, pc = "store" => worker'[w].s = s,
         \/ UNCHANGED gateway /\ pc = "refuse"
         \/ gateway' = [gateway EXCEPT ![worker[w].p] = s]
  PROVE  IInv'
<1> DEFINE p == worker[w].p
<1> USE DEF At, CheckoutCalls, StatusCalls, ActivationCalls
<1>1. TypeOK BY DEF IInv
<1>2. /\ p \in Purchases /\ worker[w].u = Owner[p]
      /\ gateway[p] = "none" /\ ~ledger[p].gid /\ ledger[p].status # "none"
      /\ \A v \in Procs : worker[v].pc \in CheckoutCalls /\ worker[v].p = p => v = w
  BY DEF IInv, Assigned, CheckoutOwnsRow
<1>3. /\ gateway' \in [Purchases -> Status \cup {"none"}]
      /\ pc = "store" => gateway'[p] = s /\ s # "none"
      /\ \A x \in Purchases \ {p} : gateway'[x] = gateway[x]
  BY <1>1, <1>2 DEF TypeOK, Status
<1>6. TypeOK' BY <1>1, <1>3 DEF TypeOK, Quotas
<1>7. Advances(w) BY <1>2, <1>3 DEF Advances
<1>8. Own(w)'
  BY <1>2, <1>3
  DEF Own, Assigned, CheckoutOwnsRow, OnlyPaidActivates, OthersUnchanged
<1>9. RowsInOrder' /\ LedgerFollowsGateway'
  BY <1>2, <1>3 DEF IInv, RowsInOrder, LedgerFollowsGateway, Confirmed
<1> QED BY <1>6, <1>7, <1>8, <1>9, PaidGrows, StepPreserves

LEMMA GatewayCreatesStep == ASSUME IInv, NEW w \in Procs, GatewayCreates(w) PROVE IInv'
<1>1. TypeOK /\ worker[w] \in ProcState BY DEF IInv, TypeOK
<1>2. PICK s \in Status : /\ gateway' = [gateway EXCEPT ![worker[w].p] = s]
                          /\ Become(w, [worker[w] EXCEPT !.pc = "store", !.s = s])
  BY DEF GatewayCreates
<1> DEFINE state == [worker[w] EXCEPT !.pc = "store", !.s = s]
<1>3. /\ state \in ProcState /\ state.pc = "store" /\ state.s = s
      /\ state.p = worker[w].p /\ state.u = worker[w].u
  BY <1>1 DEF ProcState, Calls
<1>4. worker' \in [Procs -> ProcState] /\ worker'[w] = state /\ OthersUnchanged(w)
  <2>1. Become(w, state) BY <1>2
  <2> HIDE DEF state
  <2> QED BY <1>1, <1>3, <2>1, BecomeUpdates
<1> HIDE DEF state
<1>5. /\ At(w, "create")
      /\ UNCHANGED <<sub, quota, ledger, acked, todo, now, activated, claimed>>
      /\ faults' \in Nat
  BY <1>1 DEF GatewayCreates, TypeOK
<1> QED BY <1>2, <1>3, <1>4, <1>5, GatewayCallStep

LEMMA GatewayRefusesStep ==
  ASSUME IInv, NEW w \in Procs, GatewayRefuses(w) \/ GatewayAnswerLost(w) PROVE IInv'
<1>1. TypeOK BY DEF IInv
<1>2. Goto(w, "refuse") BY DEF GatewayRefuses, GatewayAnswerLost
<1>3. /\ worker' \in [Procs -> ProcState] /\ OthersUnchanged(w)
      /\ worker'[w].pc = "refuse" /\ worker'[w].p = worker[w].p /\ worker'[w].u = worker[w].u
  BY <1>1, <1>2, GotoUpdates, "refuse" \in Calls DEF Calls
<1>4. PICK s \in Status : UNCHANGED gateway \/ gateway' = [gateway EXCEPT ![worker[w].p] = s]
  BY "pending" \in Status DEF GatewayRefuses, GatewayAnswerLost, Status
<1>5. /\ At(w, "create")
      /\ UNCHANGED <<sub, quota, ledger, acked, todo, now, activated, claimed>>
      /\ faults' \in Nat
  BY <1>1 DEF GatewayRefuses, GatewayAnswerLost, TypeOK
<1> QED BY <1>3, <1>4, <1>5, GatewayCallStep

(* Every write of a status by a handler that ends or goes on with it. *)
LEMMA StatusStep ==
  ASSUME IInv, NEW w \in Procs, NEW s \in Status, NEW id \in BOOLEAN,
         worker[w].p \in Purchases, UpdateStatus(worker[w].p, s, id),
         worker[w].pc \in CheckoutCalls \/ ledger[worker[w].p].gid,
         ledger[worker[w].p].gid => id,
         id => gateway[worker[w].p] # "none",
         s = "completed" => worker[w].p \in Confirmed,
         UNCHANGED <<sub, quota, gateway, acked, todo, now, faults, activated, claimed>>,
         worker' \in [Procs -> ProcState], OthersUnchanged(w), Own(w)'
  PROVE  IInv'
<1> DEFINE p == worker[w].p
<1>1. TypeOK BY DEF IInv
<1>4. /\ ledger' \in [Purchases -> [status: Status \cup {"none"}, gid: BOOLEAN]]
      /\ ledger'[p].status = s /\ ledger'[p].gid = id
      /\ \A x \in Purchases \ {p} : ledger'[x] = ledger[x]
  BY <1>1 DEF UpdateStatus, TypeOK, Status
<1>5. s # "none" BY DEF Status
<1>6. TypeOK' BY <1>1, <1>4 DEF TypeOK, Quotas
<1>7. Advances(w) BY <1>4, <1>5 DEF Advances
<1>9. RowsInOrder' /\ LedgerFollowsGateway'
  BY <1>4, <1>5 DEF IInv, RowsInOrder, LedgerFollowsGateway, Confirmed
<1> QED BY <1>6, <1>7, <1>9, PaidGrows, StepPreserves

LEMMA StoreAnswerStep == ASSUME IInv, NEW w \in Procs, StoreAnswer(w) PROVE IInv'
<1>1. /\ TypeOK /\ At(w, "store") /\ Return(w) /\ UpdateStatus(worker[w].p, worker[w].s, TRUE)
      /\ UNCHANGED <<sub, quota, gateway, acked, todo, now, faults, activated, claimed>>
  BY DEF IInv, StoreAnswer
<1>2. /\ worker[w].p \in Purchases /\ worker[w].pc \in CheckoutCalls
      /\ worker[w].s \in Status
      /\ worker[w].s = "completed" => worker[w].p \in Confirmed
      /\ gateway[worker[w].p] # "none" /\ ~ledger[worker[w].p].gid
  BY <1>1 DEF IInv, TypeOK, ProcState, At, Assigned, CheckoutOwnsRow, CheckoutCalls, Confirmed
<1>3. worker' \in [Procs -> ProcState] /\ OthersUnchanged(w) /\ Own(w)'
  BY <1>1, ReturnUpdates
<1> QED BY <1>1, <1>2, <1>3, StatusStep

LEMMA StoreRefusalStep == ASSUME IInv, NEW w \in Procs, StoreRefusal(w) PROVE IInv'
<1>1. /\ TypeOK /\ At(w, "refuse") /\ Return(w) /\ UpdateStatus(worker[w].p, "failed", FALSE)
      /\ UNCHANGED <<sub, quota, gateway, acked, todo, now, faults, activated, claimed>>
  BY DEF IInv, StoreRefusal
<1>2. /\ worker[w].p \in Purchases /\ worker[w].pc \in CheckoutCalls
      /\ ~ledger[worker[w].p].gid
  BY <1>1 DEF IInv, At, Assigned, CheckoutOwnsRow, CheckoutCalls
<1>3. worker' \in [Procs -> ProcState] /\ OthersUnchanged(w) /\ Own(w)'
  BY <1>1, ReturnUpdates
<1> QED BY <1>1, <1>2, <1>3, StatusStep DEF Status

-----------------------------------------------------------------------------
(* Webhook and polling. *)

LEMMA EventAccepted ==
  ASSUME IInv, NEW w \in Procs, NEW p \in Purchases, NEW hook \in BOOLEAN,
         Become(w, [Idle EXCEPT !.pc = "complete", !.hook = hook, !.p = p, !.u = Owner[p]]),
         ledger[p].gid, p \in Confirmed', claimed \subseteq claimed', claimed' \subseteq Unsigned,
         UNCHANGED <<sub, quota, ledger, gateway, acked, todo, now, faults, activated>>
  PROVE  IInv'
<1> DEFINE state == [Idle EXCEPT !.pc = "complete", !.hook = hook, !.p = p, !.u = Owner[p]]
<1>1. TypeOK /\ Become(w, state) BY DEF IInv
<1>2. state \in ProcState /\ state.pc = "complete" /\ state.p = p /\ state.u = Owner[p]
  BY IdleType, BillingAssumption DEF ProcState, Calls, Idle
<1> HIDE DEF state
<1>3. /\ worker' \in [Procs -> ProcState] /\ OthersUnchanged(w)
      /\ worker'[w].pc = "complete" /\ worker'[w].p = p /\ worker'[w].u = Owner[p]
  BY <1>1, <1>2, BecomeUpdates
<1>4. TypeOK' BY <1>1, <1>3 DEF TypeOK, Quotas
<1>5. Own(w)'
  BY <1>3
  DEF Own, Assigned, CheckoutOwnsRow, OnlyPaidActivates, At,
      CheckoutCalls, StatusCalls, ActivationCalls
<1> QED BY <1>3, <1>4, <1>5, PrivateStep

LEMMA WebhookFoundStep ==
  ASSUME IInv, NEW w \in Workers, NEW p \in Purchases, WebhookFound(w, p)
  PROVE  IInv'
<1>1. w \in Procs /\ TypeOK BY DEF IInv, Procs
<1>2. /\ Become(w, [Idle EXCEPT !.pc = "complete", !.hook = TRUE, !.p = p, !.u = Owner[p]])
      /\ UNCHANGED <<sub, quota, ledger, gateway, acked, todo, now, faults, activated, claimed>>
      /\ ledger[p].gid
  BY DEF WebhookFound
<1>3. p \in Confirmed' BY <1>2 DEF WebhookFound, Confirmed
<1>4. claimed \subseteq claimed' /\ claimed' \subseteq Unsigned BY <1>1, <1>2 DEF TypeOK
<1> QED BY <1>1, <1>2, <1>3, <1>4, EventAccepted

LEMMA UnsignedWebhookStep ==
  ASSUME IInv, NEW w \in Workers, NEW p \in Purchases, UnsignedWebhook(w, p)
  PROVE  IInv'
<1>1. w \in Procs /\ TypeOK BY DEF IInv, Procs
<1>2. /\ Become(w, [Idle EXCEPT !.pc = "complete", !.hook = FALSE, !.p = p, !.u = Owner[p]])
      /\ UNCHANGED <<sub, quota, ledger, gateway, acked, todo, now, faults, activated>>
      /\ ledger[p].gid /\ p \in Unsigned /\ claimed' = claimed \cup {p}
  BY DEF UnsignedWebhook
<1>3. p \in Confirmed' BY <1>2 DEF Confirmed
<1>4. claimed \subseteq claimed' /\ claimed' \subseteq Unsigned BY <1>1, <1>2 DEF TypeOK
<1> QED BY <1>1, <1>2, <1>3, <1>4, EventAccepted

LEMMA GetStatusStep ==
  ASSUME IInv, NEW w \in Workers, NEW p \in Purchases, GetStatus(w, p)
  PROVE  IInv'
<1> DEFINE state == [Idle EXCEPT !.pc = "ask", !.s = ledger[p].status, !.p = p, !.u = Owner[p]]
<1>0. TypeOK /\ w \in Procs BY DEF IInv, Procs
<1>1. state \in ProcState
  <2>1. ledger[p].status \in Status \cup {"none"} BY <1>0 DEF TypeOK
  <2> QED BY <2>1, IdleType, BillingAssumption DEF ProcState, Calls, Idle
<1>2. state.pc = "ask" /\ state.p = p /\ state.u = Owner[p] BY DEF Idle
<1>3. Become(w, state) BY DEF GetStatus
<1> HIDE DEF state
<1>4. /\ worker' \in [Procs -> ProcState] /\ OthersUnchanged(w)
      /\ worker'[w].pc = "ask" /\ worker'[w].p = p /\ worker'[w].u = Owner[p]
  BY <1>0, <1>1, <1>2, <1>3, BecomeUpdates
<1>5. ledger[p].gid BY DEF GetStatus
<1>6. UNCHANGED <<sub, quota, ledger, gateway, acked, todo, now, faults, activated, claimed>>
  BY DEF GetStatus
<1>7. TypeOK' BY <1>0, <1>4, <1>6 DEF TypeOK, Quotas
<1>8. Own(w)'
  BY <1>4, <1>5, <1>6
  DEF Own, Assigned, CheckoutOwnsRow, OnlyPaidActivates, At,
      CheckoutCalls, StatusCalls, ActivationCalls
<1> QED BY <1>0, <1>4, <1>6, <1>7, <1>8, PrivateStep

(* A process that goes on to activate a confirmed purchase. *)
LEMMA ActivationStarts ==
  ASSUME IInv, NEW w \in Procs, worker[w].pc \in {"complete", "record"},
         worker[w].p \in Confirmed, UNCHANGED <<gateway, claimed>>,
         Goto(w, Activation(worker[w].p))
  PROVE  worker' \in [Procs -> ProcState] /\ OthersUnchanged(w) /\ Own(w)'
<1> USE DEF CheckoutCalls, StatusCalls, ActivationCalls
<1>1. TypeOK /\ worker[w].p \in Purchases /\ worker[w].u = Owner[worker[w].p]
  BY DEF IInv, Assigned
<1>2. Activation(worker[w].p) \in {"upsert", "base"} BY DEF Activation
<1>3. Activation(worker[w].p) \in Calls BY <1>2 DEF Calls
<1>4. /\ worker' \in [Procs -> ProcState] /\ OthersUnchanged(w)
      /\ worker'[w].pc = Activation(worker[w].p)
      /\ worker'[w].p = worker[w].p /\ worker'[w].u = worker[w].u
  BY <1>1, <1>3, GotoUpdates
<1>5. Assigned(w)' BY <1>1, <1>2, <1>4 DEF Assigned, At, Activation
<1>6. CheckoutOwnsRow(w)' /\ OnlyPaidActivates(w)'
  BY <1>2, <1>4 DEF CheckoutOwnsRow, OnlyPaidActivates, At, Confirmed
<1> QED BY <1>4, <1>5, <1>6 DEF Own

LEMMA WebhookCompletesStep == ASSUME IInv, NEW w \in Procs, WebhookCompletes(w) PROVE IInv'
<1>1. /\ TypeOK /\ At(w, "complete") /\ Goto(w, Activation(worker[w].p))
      /\ UpdateStatus(worker[w].p, "completed", TRUE)
      /\ UNCHANGED <<sub, quota, gateway, acked, todo, now, faults, activated, claimed>>
  BY DEF IInv, WebhookCompletes
<1>2. /\ worker[w].p \in Purchases /\ ledger[worker[w].p].gid
      /\ worker[w].p \in Confirmed
  BY <1>1 DEF IInv, At, Assigned, OnlyPaidActivates, StatusCalls
<1>3. worker' \in [Procs -> ProcState] /\ OthersUnchanged(w) /\ Own(w)'
  BY <1>1, <1>2, ActivationStarts DEF At
<1>4. gateway[worker[w].p] # "none" BY <1>2 DEF IInv, RowsInOrder
<1> QED BY <1>1, <1>2, <1>3, <1>4, StatusStep DEF Status

LEMMA AfterRecordUpdates ==
  ASSUME IInv, NEW w \in Procs, At(w, "record"), UNCHANGED <<gateway, claimed>>, AfterRecord(w)
  PROVE  worker' \in [Procs -> ProcState] /\ OthersUnchanged(w) /\ Own(w)'
<1>1. TypeOK BY DEF IInv
<1>2. CASE worker[w].s = "completed"
  <2>1. worker[w].p \in Confirmed
    BY <1>2 DEF IInv, OnlyPaidActivates, Assigned, At, StatusCalls, Confirmed
  <2> QED BY <1>2, <2>1, ActivationStarts DEF At, AfterRecord
<1>3. CASE worker[w].s # "completed"
  BY <1>1, <1>3, ReturnUpdates DEF AfterRecord
<1> QED BY <1>2, <1>3

LEMMA PollRecordsStep == ASSUME IInv, NEW w \in Procs, PollRecords(w) PROVE IInv'
<1>1. /\ TypeOK /\ At(w, "record") /\ AfterRecord(w)
      /\ UpdateStatus(worker[w].p, worker[w].s, TRUE)
      /\ UNCHANGED <<sub, quota, gateway, acked, todo, now, faults, activated, claimed>>
  BY DEF IInv, PollRecords
<1>2. /\ worker[w].p \in Purchases /\ ledger[worker[w].p].gid
      /\ worker[w].s \in Status
      /\ worker[w].s = "completed" => worker[w].p \in Confirmed
  BY <1>1 DEF IInv, TypeOK, ProcState, At, Assigned, OnlyPaidActivates, StatusCalls, Confirmed
<1>3. gateway[worker[w].p] # "none" BY <1>2 DEF IInv, RowsInOrder
<1>4. worker' \in [Procs -> ProcState] /\ OthersUnchanged(w) /\ Own(w)'
  BY <1>1, AfterRecordUpdates
<1> QED BY <1>1, <1>2, <1>3, <1>4, StatusStep

LEMMA PollAnsweredStep == ASSUME IInv, NEW w \in Procs, PollAnswered(w) PROVE IInv'
<1> DEFINE p == worker[w].p
           state == [worker[w] EXCEPT !.pc = "record", !.s = gateway[p]]
<1>1. /\ TypeOK /\ At(w, "ask")
      /\ UNCHANGED <<sub, quota, ledger, gateway, acked, todo, now, faults, activated, claimed>>
  BY DEF IInv, PollAnswered
<1>2. p \in Purchases /\ worker[w].u = Owner[p] /\ ledger[p].gid /\ gateway[p] # "none"
  BY <1>1 DEF IInv, At, Assigned, OnlyPaidActivates, StatusCalls, RowsInOrder
<1>3. CASE Return(w)
  <2>1. worker' \in [Procs -> ProcState] /\ OthersUnchanged(w) /\ Own(w)'
    BY <1>1, <1>3, ReturnUpdates
  <2>2. TypeOK' BY <1>1, <2>1 DEF TypeOK, Quotas
  <2> QED BY <1>1, <2>1, <2>2, PrivateStep
<1>4. CASE Become(w, state)
  <2>1. worker[w] \in ProcState /\ gateway[p] \in Status \cup {"none"} BY <1>1, <1>2 DEF TypeOK
  <2>2. /\ state \in ProcState /\ state.pc = "record" /\ state.s = gateway[p]
        /\ state.p = p /\ state.u = worker[w].u
    BY <2>1 DEF ProcState, Calls
  <2> HIDE DEF state
  <2>3. worker' \in [Procs -> ProcState] /\ OthersUnchanged(w) /\ worker'[w] = state
    BY <1>1, <1>4, <2>2, BecomeUpdates
  <2>4. TypeOK' BY <1>1, <2>3 DEF TypeOK, Quotas
  <2>5. Own(w)'
    BY <1>1, <1>2, <2>2, <2>3
    DEF Own, Assigned, CheckoutOwnsRow, OnlyPaidActivates, At,
        CheckoutCalls, StatusCalls, ActivationCalls
  <2> QED BY <1>1, <2>3, <2>4, <2>5, PrivateStep
<1> QED BY <1>3, <1>4 DEF PollAnswered

-----------------------------------------------------------------------------
(* Activation. *)

LEMMA UpsertSubscriptionStep ==
  ASSUME IInv, NEW w \in Procs, UpsertSubscription(w) PROVE IInv'
<1> DEFINE p == worker[w].p
           u == worker[w].u
           q == [plan |-> PlanOf[p], adds |-> {}]
           state == [worker[w] EXCEPT !.pc = "sum", !.q = q]
           row == [status |-> "active", plan |-> PlanOf[p], until |-> now + PeriodLen]
<1> USE DEF At, CheckoutCalls, StatusCalls, ActivationCalls
<1>1. /\ TypeOK /\ worker[w].pc = "upsert" /\ Become(w, state)
      /\ sub' = [sub EXCEPT ![u] = row]
      /\ UNCHANGED <<quota, ledger, gateway, acked, todo, now, faults, activated, claimed>>
  BY DEF IInv, UpsertSubscription
<1>2. /\ p \in Payments /\ p \in Purchases /\ u = Owner[p] /\ p \in Confirmed
      /\ u \in Users /\ PlanOf[p] \in Plans
  BY <1>1, BillingAssumption DEF IInv, Assigned, OnlyPaidActivates, Purchases
<1>3. PlanOf[p] \in PaidPlans(u) BY <1>2 DEF PaidPlans, Paid, Confirmed
<1>4. /\ state \in ProcState /\ state.pc = "sum" /\ state.q = q
      /\ state.p = p /\ state.u = u
  <2>1. worker[w] \in ProcState BY <1>1 DEF TypeOK
  <2>2. q \in Quotas BY <1>2 DEF Quotas
  <2> QED BY <2>1, <2>2 DEF ProcState, Calls
<1>5. worker' \in [Procs -> ProcState] /\ OthersUnchanged(w) /\ worker'[w] = state
  <2> HIDE DEF state
  <2> QED BY <1>1, <1>4, BecomeUpdates
<1>6. /\ sub' \in [Users -> [status: {"none", "active", "expired"}, plan: Plans, until: Nat]]
      /\ sub'[u] = row /\ \A x \in Users \ {u} : sub'[x] = sub[x]
  <2>1. now + PeriodLen \in Nat BY <1>1, BillingAssumption DEF TypeOK
  <2> QED BY <1>1, <1>2, <2>1 DEF TypeOK
<1> HIDE DEF state
<1>7. TypeOK' BY <1>1, <1>5, <1>6 DEF TypeOK, Quotas
<1>8. Advances(w) BY <1>1 DEF Advances
<1>9. Own(w)'
  BY <1>1, <1>2, <1>3, <1>4, <1>5
  DEF Own, Assigned, CheckoutOwnsRow, OnlyPaidActivates, Paid, PaidPlans, Confirmed
<1>10. RowsInOrder' /\ LedgerFollowsGateway'
  BY <1>1 DEF IInv, RowsInOrder, LedgerFollowsGateway, Confirmed
<1>11. PaidForPlan'
  BY <1>1, <1>2, <1>3, <1>6 DEF IInv, PaidForPlan, Paid, PaidPlans, Confirmed
<1>12. QuotaPaidFor' BY <1>1 DEF IInv, QuotaPaidFor, Paid, PaidPlans, Confirmed
<1> QED BY <1>5, <1>7, <1>8, <1>9, <1>10, <1>11, <1>12, StepPreserves

(* The quota an activation carries is replaced by one that is paid for. *)
LEMMA QuotaCarried ==
  ASSUME IInv, NEW w \in Procs, NEW pc \in {"sum", "quota"}, NEW q \in Quotas,
         worker[w].pc \in {"base", "sum"},
         Become(w, [worker[w] EXCEPT !.pc = pc, !.q = q]),
         q.plan \in PaidPlans(worker[w].u) \cup {Free}, q.adds \subseteq Paid(worker[w].u),
         UNCHANGED <<sub, quota, ledger, gateway, acked, todo, now, activated, claimed>>,
         faults' \in Nat
  PROVE  IInv'
<1> DEFINE state == [worker[w] EXCEPT !.pc = pc, !.q = q]
<1> USE DEF At, CheckoutCalls, StatusCalls, ActivationCalls
<1>1. TypeOK /\ worker[w] \in ProcState BY DEF IInv, TypeOK
<1>2. /\ worker[w].p \in Purchases /\ worker[w].u = Owner[worker[w].p]
      /\ worker[w].p \in Confirmed
  BY DEF IInv, Assigned, OnlyPaidActivates
<1>3. /\ state \in ProcState /\ state.pc = pc /\ state.q = q
      /\ state.p = worker[w].p /\ state.u = worker[w].u
  BY <1>1 DEF ProcState, Calls
<1>4. worker' \in [Procs -> ProcState] /\ OthersUnchanged(w) /\ worker'[w] = state
  <2>1. Become(w, state) OBVIOUS
  <2> HIDE DEF state
  <2> QED BY <1>1, <1>3, <2>1, BecomeUpdates
<1> HIDE DEF state
<1>5. TypeOK' BY <1>1, <1>4 DEF TypeOK, Quotas
<1>6. Own(w)'
  BY <1>2, <1>3, <1>4
  DEF Own, Assigned, CheckoutOwnsRow, OnlyPaidActivates, Paid, PaidPlans, Confirmed
<1> QED BY <1>4, <1>5, <1>6, PrivateStep

LEMMA AddonBaseStep == ASSUME IInv, NEW w \in Procs, AddonBase(w) PROVE IInv'
<1> DEFINE u == worker[w].u
           q == [plan |-> IF sub[u].status = "none" THEN Free ELSE sub[u].plan, adds |-> {}]
<1>1. /\ TypeOK /\ worker[w].pc = "base"
      /\ Become(w, [worker[w] EXCEPT !.pc = "sum", !.q = q])
      /\ UNCHANGED <<sub, quota, ledger, gateway, acked, todo, now, activated, claimed>>
      /\ faults' \in Nat
  BY DEF IInv, TypeOK, AddonBase, At
<1>2. u \in Users
  BY <1>1, BillingAssumption DEF IInv, Assigned, ActivationCalls
<1>3. q \in Quotas BY <1>1, <1>2, BillingAssumption DEF TypeOK, Quotas
<1>4. q.plan \in PaidPlans(u) \cup {Free} /\ q.adds \subseteq Paid(u)
  BY <1>2 DEF IInv, PaidForPlan
<1> HIDE DEF q
<1> QED BY <1>1, <1>3, <1>4, QuotaCarried

LEMMA SumCompletedAddonBytesStep ==
  ASSUME IInv, NEW w \in Procs, SumCompletedAddonBytes(w) PROVE IInv'
<1> DEFINE u == worker[w].u
           q == [worker[w].q EXCEPT !.adds = CompletedAddons(u)]
<1>1. /\ TypeOK /\ worker[w].pc = "sum" /\ worker[w] \in ProcState
      /\ UNCHANGED <<sub, quota, ledger, gateway, acked, todo, now, activated, claimed>>
      /\ faults' \in Nat
  BY DEF IInv, TypeOK, SumCompletedAddonBytes, At
<1>2. Become(w, [worker[w] EXCEPT !.pc = "quota", !.q = q])
  BY <1>1 DEF SumCompletedAddonBytes, ProcState, Quotas
<1>3. /\ q \in Quotas /\ q.plan = worker[w].q.plan /\ q.adds = CompletedAddons(u)
  BY <1>1 DEF ProcState, Quotas, CompletedAddons
<1>4. q.plan \in PaidPlans(u) \cup {Free} BY <1>1, <1>3 DEF IInv, OnlyPaidActivates
<1>5. q.adds \subseteq Paid(u)
  BY <1>3 DEF IInv, LedgerFollowsGateway, CompletedAddons, Paid, Confirmed, Purchases
<1> HIDE DEF q
<1> QED BY <1>1, <1>2, <1>3, <1>4, <1>5, QuotaCarried

LEMMA SetQuotaStep == ASSUME IInv, NEW w \in Procs, SetQuota(w) PROVE IInv'
<1> DEFINE u == worker[w].u
           q == worker[w].q
<1>1. /\ TypeOK /\ worker[w].pc = "quota" /\ Return(w) /\ worker[w] \in ProcState
      /\ quota' = [quota EXCEPT ![u] = q]
      /\ UNCHANGED <<sub, ledger, gateway, todo, now, faults, claimed>>
  BY DEF IInv, TypeOK, SetQuota, At
<1>2. /\ worker[w].p \in Purchases /\ u \in Users
      /\ q.plan \in PaidPlans(u) \cup {Free} /\ q.adds \subseteq Paid(u)
  BY <1>1, BillingAssumption DEF IInv, Assigned, OnlyPaidActivates, ActivationCalls
<1>3. worker' \in [Procs -> ProcState] /\ OthersUnchanged(w) /\ Own(w)'
  BY <1>1, ReturnUpdates
<1>4. /\ quota' \in [Users -> Quotas] /\ quota'[u] = q
      /\ \A x \in Users \ {u} : quota'[x] = quota[x]
  BY <1>1, <1>2 DEF TypeOK, ProcState
<1>5. acked' \subseteq Purchases /\ activated' \subseteq Purchases
  BY <1>1, <1>2 DEF TypeOK, SetQuota
<1>6. TypeOK' BY <1>1, <1>3, <1>4, <1>5 DEF TypeOK, Quotas
<1>7. Advances(w) BY <1>1 DEF Advances
<1>8. RowsInOrder' /\ LedgerFollowsGateway' /\ PaidForPlan'
  BY <1>1 DEF IInv, RowsInOrder, LedgerFollowsGateway, Confirmed, PaidForPlan, Paid, PaidPlans, Confirmed
<1>9. QuotaPaidFor'
  BY <1>1, <1>2, <1>4 DEF IInv, QuotaPaidFor, Paid, PaidPlans, Confirmed
<1> QED BY <1>3, <1>6, <1>7, <1>8, <1>9, StepPreserves

-----------------------------------------------------------------------------
(* Expiry. *)

LEMMA ExpiryStarts ==
  ASSUME IInv, NEW w \in Procs, NEW u \in Users,
         Become(w, [Idle EXCEPT !.pc = "expire", !.u = u]),
         UNCHANGED <<sub, quota, ledger, gateway, acked, now, faults, activated, claimed>>,
         todo' \subseteq Users
  PROVE  IInv'
<1> DEFINE state == [Idle EXCEPT !.pc = "expire", !.u = u]
<1>1. TypeOK BY DEF IInv
<1>2. state \in ProcState /\ state.pc = "expire" /\ state.u = u
  BY IdleType DEF ProcState, Calls, Idle
<1>3. worker' \in [Procs -> ProcState] /\ OthersUnchanged(w) /\ worker'[w] = state
  <2>1. Become(w, state) OBVIOUS
  <2> HIDE DEF state
  <2> QED BY <1>1, <1>2, <2>1, BecomeUpdates
<1> HIDE DEF state
<1>4. TypeOK' BY <1>1, <1>3 DEF TypeOK, Quotas
<1>5. Own(w)'
  BY <1>2, <1>3
  DEF Own, Assigned, CheckoutOwnsRow, OnlyPaidActivates, At,
      CheckoutCalls, StatusCalls, ActivationCalls
<1> QED BY <1>3, <1>4, <1>5, PrivateStep

LEMMA ExpireSubscriptionStep ==
  ASSUME IInv, NEW w \in Procs, ExpireSubscription(w) PROVE IInv'
<1> DEFINE u == worker[w].u
<1>1. /\ TypeOK /\ worker[w].pc = "expire" /\ Goto(w, "reset")
      /\ sub' = IF sub[u].status = "active" THEN [sub EXCEPT ![u].status = "expired"] ELSE sub
      /\ UNCHANGED <<quota, ledger, gateway, acked, todo, now, faults, activated, claimed>>
  BY DEF IInv, ExpireSubscription, At
<1>2. u \in Users BY <1>1 DEF IInv, Assigned
<1>3. /\ worker' \in [Procs -> ProcState] /\ OthersUnchanged(w)
      /\ worker'[w].pc = "reset" /\ worker'[w].u = u
  BY <1>1, GotoUpdates, "reset" \in Calls DEF Calls
<1>4. sub' \in [Users -> [status: {"none", "active", "expired"}, plan: Plans, until: Nat]]
  BY <1>1, <1>2 DEF TypeOK
<1>5. \A x \in Users : /\ sub'[x].plan = sub[x].plan
                       /\ sub'[x].status # "none" => sub[x].status # "none"
  BY <1>1, <1>2 DEF TypeOK
<1>6. TypeOK' BY <1>1, <1>3, <1>4 DEF TypeOK, Quotas
<1>7. Advances(w) BY <1>1 DEF Advances
<1>8. Own(w)'
  BY <1>2, <1>3
  DEF Own, Assigned, CheckoutOwnsRow, OnlyPaidActivates, At,
      CheckoutCalls, StatusCalls, ActivationCalls
<1>9. RowsInOrder' /\ LedgerFollowsGateway' /\ QuotaPaidFor'
  BY <1>1 DEF IInv, RowsInOrder, LedgerFollowsGateway, Confirmed, QuotaPaidFor, Paid, PaidPlans, Confirmed
<1>10. PaidForPlan' BY <1>1, <1>5 DEF IInv, PaidForPlan, Paid, PaidPlans, Confirmed
<1> QED BY <1>3, <1>6, <1>7, <1>8, <1>9, <1>10, StepPreserves

LEMMA ResetQuotaStep == ASSUME IInv, NEW w \in Procs, ResetQuota(w) PROVE IInv'
<1> DEFINE u == worker[w].u
<1>1. /\ TypeOK /\ worker[w].pc = "reset" /\ Return(w)
      /\ quota' = [quota EXCEPT ![u] = FreeQuota]
      /\ UNCHANGED <<sub, ledger, gateway, acked, todo, now, faults, activated, claimed>>
  BY DEF IInv, ResetQuota, At
<1>2. u \in Users BY <1>1 DEF IInv, Assigned
<1>3. worker' \in [Procs -> ProcState] /\ OthersUnchanged(w) /\ Own(w)'
  BY <1>1, ReturnUpdates
<1>4. /\ quota' \in [Users -> Quotas] /\ quota'[u] = FreeQuota
      /\ \A x \in Users \ {u} : quota'[x] = quota[x]
  BY <1>1, <1>2, IdleType DEF TypeOK
<1>5. FreeQuota.plan = Free /\ FreeQuota.adds = {} BY DEF FreeQuota
<1>6. TypeOK' BY <1>1, <1>3, <1>4 DEF TypeOK, Quotas
<1>7. Advances(w) BY <1>1 DEF Advances
<1>8. RowsInOrder' /\ LedgerFollowsGateway' /\ PaidForPlan'
  BY <1>1 DEF IInv, RowsInOrder, LedgerFollowsGateway, Confirmed, PaidForPlan, Paid, PaidPlans, Confirmed
<1>9. QuotaPaidFor'
  BY <1>1, <1>2, <1>4, <1>5 DEF IInv, QuotaPaidFor, Paid, PaidPlans, Confirmed
<1> QED BY <1>3, <1>6, <1>7, <1>8, <1>9, StepPreserves

-----------------------------------------------------------------------------
(* Faults, and the steps that belong to no handler. *)

LEMMA CallFailsStep == ASSUME IInv, NEW w \in Procs, CallFails(w) PROVE IInv'
<1>1. /\ TypeOK /\ ~At(w, "idle") /\ OnError(w) /\ faults' = faults + 1
      /\ UNCHANGED <<sub, quota, ledger, gateway, acked, todo, now, activated, claimed>>
  BY DEF IInv, CallFails
<1>2. CASE At(w, "record")
  <2>1. AfterRecord(w) BY <1>1, <1>2 DEF OnError, At
  <2>2. worker' \in [Procs -> ProcState] /\ OthersUnchanged(w) /\ Own(w)'
    BY <1>1, <1>2, <2>1, AfterRecordUpdates
  <2>3. TypeOK' BY <1>1, <2>2 DEF TypeOK, Quotas
  <2> QED BY <1>1, <2>2, <2>3, PrivateStep
<1>3. CASE At(w, "sum") /\ worker[w].p \in Payments
  <2>1. Goto(w, "quota") BY <1>1, <1>3 DEF OnError, At
  <2>2. /\ worker' \in [Procs -> ProcState] /\ OthersUnchanged(w)
        /\ worker'[w].pc = "quota" /\ worker'[w].p = worker[w].p
        /\ worker'[w].u = worker[w].u /\ worker'[w].q = worker[w].q
    BY <1>1, <2>1, GotoUpdates, "quota" \in Calls DEF Calls
  <2>3. TypeOK' BY <1>1, <2>2 DEF TypeOK, Quotas
  <2>4. Own(w)'
    BY <1>1, <1>3, <2>2
    DEF IInv, Own, Assigned, CheckoutOwnsRow, OnlyPaidActivates, At, Paid, PaidPlans, Confirmed,
        CheckoutCalls, StatusCalls, ActivationCalls
  <2> QED BY <1>1, <2>2, <2>3, <2>4, PrivateStep
<1>4. CASE Return(w)
  <2>1. worker' \in [Procs -> ProcState] /\ OthersUnchanged(w) /\ Own(w)'
    BY <1>1, <1>4, ReturnUpdates
  <2>2. TypeOK' BY <1>1, <2>1 DEF TypeOK, Quotas
  <2> QED BY <1>1, <2>1, <2>2, PrivateStep
<1>5. At(w, "record") \/ (At(w, "sum") /\ worker[w].p \in Payments) \/ Return(w)
  BY <1>1 DEF OnError
<1> QED BY <1>2, <1>3, <1>4, <1>5

LEMMA CrashStep == ASSUME IInv, Crash PROVE IInv'
<1>1. /\ TypeOK /\ worker' = [w \in Procs |-> Idle] /\ todo' = {} /\ faults' = faults + 1
      /\ UNCHANGED <<sub, quota, ledger, gateway, acked, now, activated, claimed>>
  BY DEF IInv, Crash
<1>2. TypeOK' BY <1>1, IdleType DEF TypeOK, Quotas
<1>3. ASSUME NEW w \in Procs PROVE Own(w)'
  <2>1. worker'[w].pc = "idle" BY <1>1 DEF Idle
  <2> QED
    BY <2>1 DEF Own, Assigned, CheckoutOwnsRow, OnlyPaidActivates, At,
                CheckoutCalls, StatusCalls, ActivationCalls
<1>4. RowsInOrder' /\ LedgerFollowsGateway' /\ PaidForPlan' /\ QuotaPaidFor'
  BY <1>1 DEF IInv, RowsInOrder, LedgerFollowsGateway, Confirmed, PaidForPlan, QuotaPaidFor, Paid, PaidPlans, Confirmed
<1> QED BY <1>2, <1>3, <1>4 DEF IInv, Own

(* Steps that change no row the invariant speaks of and no process. *)
LEMMA QuietStep ==
  ASSUME IInv, TypeOK', UNCHANGED <<sub, quota, ledger, gateway, worker, claimed>>
  PROVE IInv'
BY DEF IInv, Assigned, CheckoutOwnsRow, OnlyPaidActivates, At, RowsInOrder,
       LedgerFollowsGateway, PaidForPlan, QuotaPaidFor, Paid, PaidPlans, Confirmed

LEMMA GatewayMovesStep ==
  ASSUME IInv, NEW p \in Purchases, GatewayMoves(p) PROVE IInv'
<1>1. /\ TypeOK
      /\ UNCHANGED <<sub, quota, ledger, acked, worker, todo, now, faults, activated, claimed>>
  BY DEF IInv, GatewayMoves
<1>2. /\ gateway' \in [Purchases -> Status \cup {"none"}]
      /\ gateway[p] \notin {"none", "completed"} /\ gateway'[p] # "none"
      /\ \A x \in Purchases \ {p} : gateway'[x] = gateway[x]
  BY <1>1 DEF GatewayMoves, TypeOK, Status
<1>3. TypeOK' BY <1>1, <1>2 DEF TypeOK, Quotas
<1>4. ASSUME NEW w \in Procs PROVE Own(w)'
  <2>1. Own(w) BY DEF IInv, Own
  <2>2. Assigned(w)' BY <1>1, <2>1 DEF Own, Assigned, At
  <2>3. CheckoutOwnsRow(w)'
    BY <1>1, <1>2, <2>1 DEF Own, Assigned, CheckoutOwnsRow, At, CheckoutCalls
  <2>4. OnlyPaidActivates(w)'
    BY <1>1, <1>2, <2>1
    DEF Own, Assigned, OnlyPaidActivates, At, StatusCalls, ActivationCalls, Paid, PaidPlans, Confirmed
  <2> QED BY <2>2, <2>3, <2>4 DEF Own
<1>5. RowsInOrder' /\ LedgerFollowsGateway' /\ PaidForPlan' /\ QuotaPaidFor'
  BY <1>1, <1>2
  DEF IInv, RowsInOrder, LedgerFollowsGateway, Confirmed, PaidForPlan, QuotaPaidFor, Paid, PaidPlans, Confirmed
<1> QED BY <1>3, <1>4, <1>5 DEF IInv, Own

-----------------------------------------------------------------------------
(* The inductive step and the theorems. *)

LEMMA InitIInv == Init => IInv
BY BillingAssumption
DEF Init, IInv, TypeOK, Assigned, CheckoutOwnsRow, OnlyPaidActivates, RowsInOrder,
    LedgerFollowsGateway, PaidForPlan, QuotaPaidFor, Idle, FreeQuota, Quotas, ProcState,
    Calls, Status, At, CheckoutCalls, StatusCalls, ActivationCalls

LEMMA StepStep == ASSUME IInv, NEW w \in Procs, Step(w) PROVE IInv'
BY InsertRowStep, GatewayCreatesStep, GatewayRefusesStep, StoreAnswerStep, StoreRefusalStep,
   WebhookCompletesStep, PollAnsweredStep, PollRecordsStep, UpsertSubscriptionStep,
   AddonBaseStep, SumCompletedAddonBytesStep, SetQuotaStep, ExpireSubscriptionStep,
   ResetQuotaStep
DEF Step

LEMMA ArrivalStep == ASSUME IInv, NEW w \in Workers, Arrival(w) PROVE IInv'
<1>1. ASSUME NEW u \in Users, GetSubscription(w, u) PROVE IInv'
  <2>1. todo' \subseteq Users BY <1>1 DEF GetSubscription, IInv, TypeOK
  <2> QED BY <1>1, <2>1, ExpiryStarts DEF GetSubscription, Procs
<1> QED
  BY <1>1, InitiateCheckoutStep, WebhookFoundStep, UnsignedWebhookStep, GetStatusStep DEF Arrival

LEMMA NextIInv == IInv /\ [Next]_vars => IInv'
<1> SUFFICES ASSUME IInv, [Next]_vars PROVE IInv'
  OBVIOUS
<1>1. ASSUME NEW w \in Workers, Arrival(w) PROVE IInv' BY <1>1, ArrivalStep
<1>2. ASSUME NEW w \in Procs, Step(w) \/ GatewayAnswerLost(w) \/ CallFails(w) PROVE IInv'
  BY <1>2, StepStep, GatewayRefusesStep, CallFailsStep
<1>3. CASE JobSelects
  <2>1. TypeOK' BY <1>3 DEF JobSelects, IInv, TypeOK, Quotas
  <2> QED BY <1>3, <2>1, QuietStep DEF JobSelects
<1>4. ASSUME NEW u \in Users, JobTakes(u) PROVE IInv'
  <2>1. todo' \subseteq Users BY <1>4 DEF JobTakes, IInv, TypeOK
  <2> QED BY <1>4, <2>1, ExpiryStarts DEF JobTakes, Procs
<1>5. ASSUME NEW p \in Purchases, WebhookIgnored(p) PROVE IInv'
  <2>1. TypeOK' BY <1>5 DEF WebhookIgnored, IInv, TypeOK, Quotas
  <2> QED BY <1>5, <2>1, QuietStep DEF WebhookIgnored
<1>6. ASSUME NEW p \in Purchases, GatewayMoves(p) PROVE IInv' BY <1>6, GatewayMovesStep
<1>7. CASE Crash BY <1>7, CrashStep
<1>8. CASE Tick
  <2>1. TypeOK' BY <1>8 DEF Tick, IInv, TypeOK, Quotas
  <2> QED BY <1>8, <2>1, QuietStep DEF Tick
<1>9. CASE UNCHANGED vars
  <2>1. TypeOK' BY <1>9 DEF vars, IInv, TypeOK, Quotas
  <2> QED BY <1>9, <2>1, QuietStep DEF vars
<1> QED BY <1>1, <1>2, <1>3, <1>4, <1>5, <1>6, <1>7, <1>8, <1>9 DEF Next

\* The strengthened invariant holds in every reachable state.
THEOREM Inductive == Spec => []IInv
BY InitIInv, NextIInv, PTL DEF Spec

\* Every variable keeps its type.
THEOREM TypeCorrect == Spec => []TypeOK
<1>1. IInv => TypeOK BY DEF IInv
<1> QED BY <1>1, Inductive, PTL

\* No subscription row names a plan that was neither paid for nor confirmed by an
\* event for an unsigned purchase, for any number of users, purchases and
\* goroutines, with any number of faults and crashes.
\* (activateSubscription, whoever calls it.)
THEOREM SubscriptionsArePaid == Spec => []PaidForPlan
<1>1. IInv => PaidForPlan BY DEF IInv
<1> QED BY <1>1, Inductive, PTL

\* No quota holds bytes of a plan or of an add-on that was neither paid for nor
\* confirmed by an event for an unsigned purchase.
\* (setQuota in activateSubscription and activateAddon.)
THEOREM QuotasArePaid == Spec => []QuotaPaidFor
<1>1. IInv => QuotaPaidFor BY DEF IInv
<1> QED BY <1>1, Inductive, PTL

\* No row says completed of a payment the gateway did not take, unless an event
\* for an unsigned purchase said that it had.
\* (UpdatePaymentStatus and UpdateAddonStatus, whoever calls them.)
THEOREM LedgerIsTrue == Spec => []LedgerFollowsGateway
<1>1. IInv => LedgerFollowsGateway BY DEF IInv
<1> QED BY <1>1, Inductive, PTL

-----------------------------------------------------------------------------
(* What a step does to the gateway's ids, and to the abstract ledger. *)

LEMMA IdStepOfHandler ==
  ASSUME IInv, NEW w \in Procs, Step(w) PROVE \A p \in Purchases : ledger[p].gid => ledger'[p].gid
<1> USE DEF At, CheckoutCalls, StatusCalls
<1>1. TypeOK BY DEF IInv
<1>2. ASSUME NEW s, NEW id \in BOOLEAN, UpdateStatus(worker[w].p, s, id),
             id \/ ~ledger[worker[w].p].gid
      PROVE  \A p \in Purchases : ledger[p].gid => ledger'[p].gid
  BY <1>1, <1>2 DEF UpdateStatus, TypeOK
<1>3. CASE InsertRow(w)
  <2>1. ~ledger[worker[w].p].gid /\ UpdateStatus(worker[w].p, "pending", FALSE)
    BY <1>3 DEF InsertRow, IInv, CheckoutOwnsRow
  <2> QED BY <1>2, <2>1
<1>4. CASE StoreRefusal(w)
  <2>1. ~ledger[worker[w].p].gid /\ UpdateStatus(worker[w].p, "failed", FALSE)
    BY <1>4 DEF StoreRefusal, IInv, CheckoutOwnsRow
  <2> QED BY <1>2, <2>1
<1>5. CASE StoreAnswer(w) \/ WebhookCompletes(w) \/ PollRecords(w)
  <2>1. PICK s : UpdateStatus(worker[w].p, s, TRUE)
    BY <1>5 DEF StoreAnswer, WebhookCompletes, PollRecords
  <2> QED BY <1>2, <2>1
<1>6. CASE UNCHANGED ledger
  BY <1>6
<1> QED
  BY <1>3, <1>4, <1>5, <1>6
  DEF Step, GatewayCreates, GatewayRefuses, PollAnswered, UpsertSubscription, AddonBase,
      SumCompletedAddonBytes, SetQuota, ExpireSubscription, ResetQuota

LEMMA NextKeepsId ==
  ASSUME IInv, [Next]_vars PROVE \A p \in Purchases : ledger[p].gid => ledger'[p].gid
<1>1. ASSUME NEW w \in Procs, Step(w) PROVE \A p \in Purchases : ledger[p].gid => ledger'[p].gid
  BY <1>1, IdStepOfHandler
<1>2. CASE UNCHANGED ledger
  BY <1>2
<1>3. UNCHANGED ledger \/ \E w \in Procs : Step(w)
  BY DEF Next, vars, Arrival, InitiateCheckout, WebhookFound, UnsignedWebhook, GetStatus,
         GetSubscription,
         GatewayAnswerLost, CallFails, JobSelects, JobTakes, WebhookIgnored, GatewayMoves,
         Crash, Tick
<1> QED BY <1>1, <1>2, <1>3

\* Once a row has the gateway's id it keeps it, so the webhook of a payment that
\* was stored is never dropped as unknown.  (UpdatePaymentStatus clears the id
\* when it is called with an empty one, as a refused checkout does.)
THEOREM IdsAreKept == Spec => GatewayIdKept
<1>1. IInv /\ [Next]_vars => [\A p \in Purchases : ledger[p].gid => ledger'[p].gid]_vars
  BY NextKeepsId
<1> QED BY <1>1, Inductive, PTL DEF Spec, GatewayIdKept

PaidSet == {p \in Purchases : gateway[p] = "completed"}
PlanOfRow == [u \in Users |-> sub[u].plan]

LEMMA AbstractInit == Init => Ent!Init
BY DEF Init, Ent!Init, FreeQuota, Purchases

(* Whatever moves neither money, nor a plan, nor a quota is a stutter. *)
LEMMA AbstractStutter ==
  ASSUME UNCHANGED <<quota, claimed>>, UNCHANGED PaidSet, UNCHANGED PlanOfRow
  PROVE  UNCHANGED Ent!vars
BY DEF Ent!vars, PaidSet, PlanOfRow

LEMMA AbstractSubscribe ==
  ASSUME IInv, NEW w \in Procs, UpsertSubscription(w) PROVE \E u \in Users : Ent!Subscribe(u)
<1> DEFINE p == worker[w].p
           u == worker[w].u
<1>1. /\ TypeOK /\ worker[w].pc = "upsert"
      /\ sub' = [sub EXCEPT ![u] =
                   [status |-> "active", plan |-> PlanOf[p], until |-> now + PeriodLen]]
      /\ UNCHANGED <<quota, gateway, claimed>>
  BY DEF IInv, UpsertSubscription, At
<1>2. /\ p \in Payments /\ p \in Purchases /\ u = Owner[p] /\ p \in Confirmed
      /\ u \in Users
  BY <1>1, BillingAssumption
  DEF IInv, Assigned, OnlyPaidActivates, Purchases, At, ActivationCalls
<1>3. PlanOf[p] \in Ent!PlansPaidBy(u) BY <1>2 DEF Ent!PlansPaidBy, Ent!PaidBy, Confirmed
<1>4. PlanOfRow' = [PlanOfRow EXCEPT ![u] = PlanOf[p]]
  BY <1>1, <1>2 DEF PlanOfRow, TypeOK
<1> QED BY <1>1, <1>2, <1>3, <1>4 DEF Ent!Subscribe, PlanOfRow

LEMMA AbstractGrant ==
  ASSUME IInv, NEW w \in Procs, NEW q \in Quotas, worker[w].u \in Users,
         q.plan \in PaidPlans(worker[w].u) \cup {Free}, q.adds \subseteq Paid(worker[w].u),
         quota' = [quota EXCEPT ![worker[w].u] = q], UNCHANGED <<sub, gateway, claimed>>
  PROVE  \E u \in Users : Ent!Grant(u)
<1> DEFINE u == worker[w].u
<1>1. q = [plan |-> q.plan, adds |-> q.adds] BY DEF Quotas
<1>2. q.plan \in Ent!PlansPaidBy(u) \cup {Free}
  BY DEF Ent!PlansPaidBy, Ent!PaidBy, PaidPlans, Paid, Confirmed
<1>3. q.adds \in SUBSET (Ent!PaidBy(u) \cap Addons)
  BY DEF Ent!PaidBy, Paid, Confirmed, Quotas
<1>4. quota' = [quota EXCEPT ![u] = [plan |-> q.plan, adds |-> q.adds]] BY <1>1
<1> QED BY <1>2, <1>3, <1>4 DEF Ent!Grant

(* The gateway moves one payment: it is taken, or nothing happened. *)
LEMMA AbstractPay ==
  ASSUME NEW p \in Purchases, gateway[p] # "completed", UNCHANGED <<quota, sub, claimed>>,
         \A x \in Purchases \ {p} : gateway'[x] = gateway[x]
  PROVE  [Ent!Next]_Ent!vars
<1>1. CASE gateway'[p] = "completed"
  <2>1. PaidSet' = PaidSet \cup {p} /\ p \notin PaidSet BY <1>1 DEF PaidSet
  <2> QED BY <2>1 DEF Ent!Next, Ent!Pay, PaidSet, Purchases
<1>2. CASE gateway'[p] # "completed"
  <2>1. UNCHANGED PaidSet BY <1>2 DEF PaidSet
  <2> QED BY <2>1, AbstractStutter DEF PlanOfRow
<1> QED BY <1>1, <1>2

LEMMA AbstractNext == ASSUME IInv, [Next]_vars PROVE [Ent!Next]_Ent!vars
<1>1. TypeOK BY DEF IInv
<1>2. ASSUME NEW w \in Procs, UpsertSubscription(w) PROVE Ent!Next
  BY <1>2, AbstractSubscribe DEF Ent!Next
<1>3. ASSUME NEW w \in Procs, SetQuota(w) PROVE Ent!Next
  <2>1. worker[w].pc = "quota" /\ worker[w].q \in Quotas
    BY <1>1, <1>3 DEF SetQuota, At, TypeOK, ProcState
  <2>2. /\ worker[w].u \in Users
        /\ worker[w].q.plan \in PaidPlans(worker[w].u) \cup {Free}
        /\ worker[w].q.adds \subseteq Paid(worker[w].u)
    BY <2>1, BillingAssumption DEF IInv, Assigned, OnlyPaidActivates, ActivationCalls
  <2> QED BY <1>3, <2>1, <2>2, AbstractGrant DEF SetQuota, Ent!Next
<1>4. ASSUME NEW w \in Procs, ResetQuota(w) PROVE Ent!Next
  <2>1. worker[w].u \in Users BY <1>4 DEF IInv, Assigned, ResetQuota, At
  <2>2. FreeQuota.plan = Free /\ FreeQuota.adds = {} BY DEF FreeQuota
  <2> QED BY <1>4, <2>1, <2>2, IdleType, AbstractGrant DEF ResetQuota, Ent!Next
<1>5. ASSUME NEW w \in Procs, ExpireSubscription(w) PROVE UNCHANGED Ent!vars
  <2>1. UNCHANGED <<quota, gateway, claimed>> BY <1>5 DEF ExpireSubscription
  <2>2. UNCHANGED PlanOfRow BY <1>1, <1>5 DEF ExpireSubscription, PlanOfRow, TypeOK
  <2> QED BY <2>1, <2>2, AbstractStutter DEF PaidSet
<1>6. ASSUME NEW w \in Procs, GatewayCreates(w) \/ GatewayAnswerLost(w)
      PROVE  [Ent!Next]_Ent!vars
  <2>1. PICK s \in Status : gateway' = [gateway EXCEPT ![worker[w].p] = s]
    BY <1>6 DEF GatewayCreates, GatewayAnswerLost
  <2>2. At(w, "create") /\ UNCHANGED <<quota, sub, claimed>>
    BY <1>6 DEF GatewayCreates, GatewayAnswerLost
  <2>3. worker[w].p \in Purchases /\ gateway[worker[w].p] # "completed"
    BY <2>2 DEF IInv, Assigned, CheckoutOwnsRow, At, CheckoutCalls
  <2>4. \A x \in Purchases \ {worker[w].p} : gateway'[x] = gateway[x]
    BY <1>1, <2>1, <2>3 DEF TypeOK
  <2> QED BY <2>2, <2>3, <2>4, AbstractPay
<1>7. ASSUME NEW p \in Purchases, GatewayMoves(p) PROVE [Ent!Next]_Ent!vars
  <2>1. /\ UNCHANGED <<quota, sub, claimed>> /\ gateway[p] # "completed"
        /\ \A x \in Purchases \ {p} : gateway'[x] = gateway[x]
    BY <1>1, <1>7 DEF GatewayMoves, TypeOK
  <2> QED BY <2>1, AbstractPay
<1>10. ASSUME NEW w \in Workers, NEW p \in Purchases, UnsignedWebhook(w, p)
       PROVE  Ent!Next
  <2>1. UNCHANGED PaidSet /\ UNCHANGED PlanOfRow
    BY <1>10 DEF UnsignedWebhook, PaidSet, PlanOfRow
  <2> QED BY <1>10, <2>1 DEF UnsignedWebhook, Ent!Next, Ent!Claim, PaidSet, PlanOfRow
<1>8. CASE UNCHANGED <<sub, quota, gateway, claimed>>
  BY <1>8, AbstractStutter DEF PaidSet, PlanOfRow
<1>9. \/ UNCHANGED <<sub, quota, gateway, claimed>>
      \/ \E w \in Procs : UpsertSubscription(w) \/ SetQuota(w) \/ ResetQuota(w)
                          \/ ExpireSubscription(w) \/ GatewayCreates(w) \/ GatewayAnswerLost(w)
      \/ \E p \in Purchases : GatewayMoves(p)
      \/ \E w \in Workers, p \in Purchases : UnsignedWebhook(w, p)
  BY DEF Next, vars, Step, Arrival, InitiateCheckout, WebhookFound, GetStatus,
         GetSubscription,
         InsertRow, GatewayRefuses, StoreAnswer, StoreRefusal, WebhookCompletes, PollAnswered,
         PollRecords, AddonBase, SumCompletedAddonBytes, CallFails, JobSelects, JobTakes,
         WebhookIgnored, Crash, Tick
<1> QED BY <1>2, <1>3, <1>4, <1>5, <1>6, <1>7, <1>8, <1>9, <1>10

\* Billing implements Entitlement: with the gateway's completed payments and the
\* accepted unsigned events as the money, every step of a handler, of the job, of
\* the gateway or of a crash pays, claims, subscribes to something confirmed,
\* grants something confirmed, or changes nothing the user is entitled to.
THEOREM Implementation == Spec => EntitlementSpec
BY AbstractInit, AbstractNext, Inductive, PTL DEF Spec, EntitlementSpec, Ent!Spec

\* Where every webhook is signed, nothing unpaid gets into a row or a quota.
NothingUnpaid ==
  /\ \A u \in Users :
       /\ sub[u].status # "none" =>
            \E p \in Payments : /\ Owner[p] = u /\ PlanOf[p] = sub[u].plan
                                /\ gateway[p] = "completed"
       /\ quota[u].plan # Free =>
            \E p \in Payments : /\ Owner[p] = u /\ PlanOf[p] = quota[u].plan
                                /\ gateway[p] = "completed"
       /\ \A a \in quota[u].adds : gateway[a] = "completed" /\ Owner[a] = u
  /\ \A p \in Purchases : ledger[p].status = "completed" => gateway[p] = "completed"

\* With SASPAY_WEBHOOK_SECRET set, the gateway took the payment for every plan in
\* a subscription row or a quota, every add-on in a quota and every completed row.
\* (saspayWebhook, HandleSaspayWebhook, HandleWebhook.)
THEOREM SignedIsPaid == ASSUME Unsigned = {} PROVE Spec => []NothingUnpaid
<1>1. IInv => NothingUnpaid
  <2> SUFFICES ASSUME IInv PROVE NothingUnpaid
    OBVIOUS
  <2>1. Confirmed = PaidSet BY DEF IInv, TypeOK, Confirmed, PaidSet
  <2> QED
    BY <2>1 DEF IInv, PaidForPlan, QuotaPaidFor, LedgerFollowsGateway, Paid, PaidPlans,
                PaidSet, NothingUnpaid
<1> QED BY <1>1, Inductive, PTL

-----------------------------------------------------------------------------
(* The quota when handlers interleave and calls fail.  A step moves one        *)
(* process, or crashes them all, or touches neither a process nor a row.       *)

LEMMA BecomeOne ==
  ASSUME TypeOK, NEW w \in Procs, NEW state, Become(w, state)
  PROVE  worker'[w] = state /\ OthersUnchanged(w)
BY DEF TypeOK, Become, OthersUnchanged

LEMMA StepIsAlone ==
  ASSUME TypeOK, NEW w \in Procs, Step(w)
  PROVE  OthersUnchanged(w) /\ ~At(w, "idle") /\ UNCHANGED faults
<1>1. ~At(w, "idle") /\ UNCHANGED faults
  BY DEF Step, At, InsertRow, GatewayCreates, GatewayRefuses, StoreAnswer, StoreRefusal,
         WebhookCompletes, PollAnswered, PollRecords, UpsertSubscription, AddonBase,
         SumCompletedAddonBytes, SetQuota, ExpireSubscription, ResetQuota
<1>2. \E state : Become(w, state)
  BY DEF Step, InsertRow, GatewayCreates, GatewayRefuses, StoreAnswer, StoreRefusal,
         WebhookCompletes, PollAnswered, PollRecords, UpsertSubscription, AddonBase,
         SumCompletedAddonBytes, SetQuota, ExpireSubscription, ResetQuota,
         Goto, Return, AfterRecord
<1> QED BY <1>1, <1>2, BecomeOne

\* A call that fails goes on in two places only.
LEMMA FailureIsAlone ==
  ASSUME TypeOK, NEW w \in Procs, GatewayAnswerLost(w) \/ CallFails(w)
  PROVE  /\ OthersUnchanged(w) /\ faults' # faults
         /\ UNCHANGED <<sub, quota, ledger>>
         /\ worker'[w].pc \in {"idle", "refuse"} \/ At(w, "record") \/ At(w, "sum")
         /\ At(w, "sum") => worker'[w].pc = "idle" \/ worker'[w] = [worker[w] EXCEPT !.pc = "quota"]
<1>1. faults' # faults /\ UNCHANGED <<sub, quota, ledger>>
  BY DEF GatewayAnswerLost, CallFails, TypeOK
<1>2. CASE GatewayAnswerLost(w)
  <2>1. At(w, "create") /\ Become(w, [worker[w] EXCEPT !.pc = "refuse"])
    BY <1>2 DEF GatewayAnswerLost, Goto
  <2>2. worker'[w] = [worker[w] EXCEPT !.pc = "refuse"] /\ OthersUnchanged(w)
    BY <2>1, BecomeOne
  <2>3. worker[w] \in ProcState BY DEF TypeOK
  <2> QED BY <1>1, <2>1, <2>2, <2>3 DEF At, ProcState
<1>3. CASE CallFails(w) /\ At(w, "record")
  <2>1. \E state : Become(w, state)
    BY <1>3 DEF CallFails, OnError, AfterRecord, Goto, Return, At
  <2> QED BY <1>1, <1>3, <2>1, BecomeOne DEF At
<1>4. CASE CallFails(w) /\ At(w, "sum") /\ worker[w].p \in Payments
  <2>1. Become(w, [worker[w] EXCEPT !.pc = "quota"])
    BY <1>4 DEF CallFails, OnError, Goto, At
  <2> QED BY <1>1, <1>4, <2>1, BecomeOne DEF At
<1>5. CASE CallFails(w) /\ ~At(w, "record") /\ ~(At(w, "sum") /\ worker[w].p \in Payments)
  <2>1. Become(w, Idle) BY <1>5 DEF CallFails, OnError, Return
  <2>2. worker'[w].pc = "idle" /\ OthersUnchanged(w) BY <2>1, BecomeOne DEF Idle
  <2> QED BY <1>1, <2>2
<1> QED BY <1>2, <1>3, <1>4, <1>5

\* A process that starts has read nothing it will base a quota on.
Starts(w) ==
  /\ At(w, "idle") /\ worker'[w].pc \in {"insert", "complete", "ask", "expire"}
  /\ OthersUnchanged(w) /\ UNCHANGED <<sub, quota, ledger>>

LEMMA StartIsAlone ==
  ASSUME TypeOK, NEW w \in Procs, NEW state, Become(w, state),
         worker[w].pc = "idle", state.pc \in {"insert", "complete", "ask", "expire"},
         UNCHANGED <<sub, quota, ledger>>
  PROVE  Starts(w)
BY BecomeOne DEF Starts, At

LEMMA StartCases ==
  ASSUME TypeOK,
         \/ \E w \in Workers : Arrival(w)
         \/ \E u \in Users : JobTakes(u)
  PROVE  \E w \in Procs : Starts(w)
<1>1. Workers \subseteq Procs /\ Job \in Procs BY DEF Procs
<1>2. ASSUME NEW w \in Workers, NEW p \in Purchases, InitiateCheckout(w, p) PROVE Starts(w)
  <2> DEFINE state == [Idle EXCEPT !.pc = "insert", !.p = p, !.u = Owner[p]]
  <2>1. state.pc = "insert" BY DEF Idle
  <2>2. Become(w, state) BY <1>2 DEF InitiateCheckout, Start
  <2> HIDE DEF state
  <2> QED BY <1>1, <1>2, <2>1, <2>2, StartIsAlone DEF InitiateCheckout, Admitted
<1>3. ASSUME NEW w \in Workers, NEW p \in Purchases, NEW hook \in BOOLEAN,
             worker[w].pc = "idle", UNCHANGED <<sub, quota, ledger>>,
             Become(w, [Idle EXCEPT !.pc = "complete", !.hook = hook, !.p = p, !.u = Owner[p]])
      PROVE  Starts(w)
  <2> DEFINE state == [Idle EXCEPT !.pc = "complete", !.hook = hook, !.p = p, !.u = Owner[p]]
  <2>1. state.pc = "complete" BY DEF Idle
  <2>2. Become(w, state) BY <1>3
  <2> HIDE DEF state
  <2> QED BY <1>1, <1>3, <2>1, <2>2, StartIsAlone
<1>4. ASSUME NEW w \in Workers, NEW p \in Purchases, GetStatus(w, p) PROVE Starts(w)
  <2> DEFINE state == [Idle EXCEPT !.pc = "ask", !.s = ledger[p].status, !.p = p, !.u = Owner[p]]
  <2>1. state.pc = "ask" BY DEF Idle
  <2>2. Become(w, state) BY <1>4 DEF GetStatus
  <2> HIDE DEF state
  <2> QED BY <1>1, <1>4, <2>1, <2>2, StartIsAlone DEF GetStatus, Admitted
<1>5. ASSUME NEW w \in Procs, NEW u, worker[w].pc = "idle", UNCHANGED <<sub, quota, ledger>>,
             Become(w, [Idle EXCEPT !.pc = "expire", !.u = u])
      PROVE  Starts(w)
  <2> DEFINE state == [Idle EXCEPT !.pc = "expire", !.u = u]
  <2>1. state.pc = "expire" BY DEF Idle
  <2>2. Become(w, state) BY <1>5
  <2> HIDE DEF state
  <2> QED BY <1>5, <2>1, <2>2, StartIsAlone
<1>6. ASSUME NEW w \in Workers, Arrival(w) PROVE Starts(w)
  <2>1. ASSUME NEW p \in Purchases, WebhookFound(w, p) PROVE Starts(w)
    BY <1>3, <2>1 DEF WebhookFound, Admitted
  <2>2. ASSUME NEW p \in Purchases, UnsignedWebhook(w, p) PROVE Starts(w)
    BY <1>3, <2>2 DEF UnsignedWebhook, Admitted
  <2>3. ASSUME NEW u \in Users, GetSubscription(w, u) PROVE Starts(w)
    BY <1>1, <1>5, <2>3 DEF GetSubscription, Admitted
  <2> QED BY <1>2, <1>4, <1>6, <2>1, <2>2, <2>3 DEF Arrival
<1>7. ASSUME NEW u \in Users, JobTakes(u) PROVE Starts(Job)
  BY <1>1, <1>5, <1>7 DEF JobTakes, At
<1> QED BY <1>1, <1>6, <1>7

Fails(w) == GatewayAnswerLost(w) \/ CallFails(w)

LEMMA Movements ==
  ASSUME TypeOK, [Next]_vars
  PROVE  \/ \E w \in Procs : Starts(w) \/ Step(w) \/ Fails(w)
         \/ Crash
         \/ UNCHANGED <<sub, quota, ledger, worker>>
<1>1. CASE (\E w \in Workers : Arrival(w)) \/ (\E u \in Users : JobTakes(u))
  BY <1>1, StartCases
<1>2. CASE \/ JobSelects \/ Tick \/ UNCHANGED vars
           \/ \E p \in Purchases : WebhookIgnored(p) \/ GatewayMoves(p)
  BY <1>2 DEF JobSelects, Tick, vars, WebhookIgnored, GatewayMoves
<1> QED BY <1>1, <1>2 DEF Next, Fails

\* Where the steps of a process lead.
LEMMA LeadsAway ==
  ASSUME IInv, NEW w \in Procs,
         \/ InsertRow(w) \/ GatewayCreates(w) \/ GatewayRefuses(w) \/ StoreAnswer(w)
         \/ StoreRefusal(w) \/ PollAnswered(w) \/ SetQuota(w) \/ ResetQuota(w)
  PROVE  worker'[w].pc \in {"create", "store", "refuse", "record", "idle"}
<1>1. TypeOK /\ worker[w] \in ProcState BY DEF IInv, TypeOK
<1>2. CASE Return(w)
  BY <1>1, <1>2, BecomeOne DEF Return, Idle
<1>3. ASSUME NEW pc \in {"create", "refuse"}, Goto(w, pc) PROVE worker'[w].pc = pc
  BY <1>1, <1>3, BecomeOne DEF Goto, ProcState
<1>4. CASE GatewayCreates(w)
  <2>1. PICK s \in Status : Become(w, [worker[w] EXCEPT !.pc = "store", !.s = s])
    BY <1>4 DEF GatewayCreates
  <2>2. worker'[w] = [worker[w] EXCEPT !.pc = "store", !.s = s] BY <1>1, <2>1, BecomeOne
  <2> QED BY <1>1, <2>2 DEF ProcState
<1>5. CASE Become(w, [worker[w] EXCEPT !.pc = "record", !.s = gateway[worker[w].p]])
  <2>1. worker'[w] = [worker[w] EXCEPT !.pc = "record", !.s = gateway[worker[w].p]]
    BY <1>1, <1>5, BecomeOne
  <2> QED BY <1>1, <2>1 DEF ProcState
<1> QED
  BY <1>2, <1>3, <1>4, <1>5
  DEF InsertRow, GatewayRefuses, StoreAnswer, StoreRefusal, PollAnswered, SetQuota, ResetQuota

\* A webhook or a poll goes on with the purchase whose row it has completed.
LEMMA LeadsToActivation ==
  ASSUME IInv, NEW w \in Procs,
         WebhookCompletes(w) \/ PollRecords(w), worker'[w].pc # "idle"
  PROVE  LET p == worker[w].p IN
         /\ p \in Purchases /\ worker[w].u = Owner[p]
         /\ worker'[w].p = p /\ worker'[w].u = Owner[p] /\ worker'[w].pc = Activation(p)
         /\ ledger'[p].status = "completed"
         /\ \A x \in Purchases \ {p} : ledger'[x] = ledger[x]
<1> DEFINE p == worker[w].p
<1>1. TypeOK /\ worker[w] \in ProcState BY DEF IInv, TypeOK
<1>2. p \in Purchases /\ worker[w].u = Owner[p]
  BY DEF IInv, Assigned, WebhookCompletes, PollRecords, At, StatusCalls
<1>3. Goto(w, Activation(p)) /\ UpdateStatus(p, "completed", TRUE)
  <2>1. CASE WebhookCompletes(w) BY <2>1 DEF WebhookCompletes
  <2>2. CASE PollRecords(w) /\ worker[w].s = "completed"
    BY <2>2 DEF PollRecords, AfterRecord
  <2>3. CASE PollRecords(w) /\ worker[w].s # "completed"
    <3>1. Return(w) BY <2>3 DEF PollRecords, AfterRecord
    <3>2. worker'[w].pc = "idle" BY <1>1, <3>1, BecomeOne DEF Return, Idle
    <3> QED BY <3>2
  <2> QED BY <2>1, <2>2, <2>3
<1>4. worker'[w] = [worker[w] EXCEPT !.pc = Activation(p)]
  BY <1>1, <1>3, BecomeOne DEF Goto
<1>5. /\ worker'[w].p = p /\ worker'[w].u = worker[w].u /\ worker'[w].pc = Activation(p)
  BY <1>1, <1>4 DEF ProcState
<1>6. /\ ledger'[p].status = "completed"
      /\ \A x \in Purchases \ {p} : ledger'[x] = ledger[x]
  BY <1>1, <1>2, <1>3 DEF UpdateStatus, TypeOK
<1> QED BY <1>2, <1>5, <1>6

\* Within an activation or an expiry a process works on for the same user.
LEMMA LeadsOn ==
  ASSUME IInv, NEW w \in Procs,
         \/ UpsertSubscription(w) \/ AddonBase(w) \/ SumCompletedAddonBytes(w)
         \/ ExpireSubscription(w)
  PROVE  /\ worker'[w].p = worker[w].p /\ worker'[w].u = worker[w].u
         /\ worker[w].u \in Users
         /\ UpsertSubscription(w) => /\ worker[w].p \in Payments
                                     /\ worker'[w].pc = "sum"
                                     /\ worker'[w].q = [plan |-> PlanOf[worker[w].p], adds |-> {}]
         /\ AddonBase(w) => LET row == sub[worker[w].u] IN
              /\ worker'[w].pc = "sum"
              /\ worker'[w].q = [plan |-> IF row.status = "none" THEN Free ELSE row.plan,
                                 adds |-> {}]
         /\ SumCompletedAddonBytes(w) =>
              /\ worker'[w].pc = "quota"
              /\ worker'[w].q.plan = worker[w].q.plan
              /\ worker'[w].q.adds = CompletedAddons(worker[w].u)
         /\ ExpireSubscription(w) => worker'[w].pc = "reset"
<1> USE DEF At
<1>1. TypeOK /\ worker[w] \in ProcState /\ worker[w].q \in Quotas
  BY DEF IInv, TypeOK, ProcState
<1>2. worker[w].u \in Users
  BY BillingAssumption
  DEF IInv, Assigned, UpsertSubscription, AddonBase, SumCompletedAddonBytes, ExpireSubscription,
      ActivationCalls
<1>3. ASSUME NEW q, NEW pc, Become(w, [worker[w] EXCEPT !.pc = pc, !.q = q])
      PROVE  /\ worker'[w].p = worker[w].p /\ worker'[w].u = worker[w].u
             /\ worker'[w].pc = pc /\ worker'[w].q = q
  <2>1. worker'[w] = [worker[w] EXCEPT !.pc = pc, !.q = q] BY <1>1, <1>3, BecomeOne
  <2> QED BY <1>1, <2>1 DEF ProcState
<1>4. CASE UpsertSubscription(w)
  <2>1. /\ worker[w].pc = "upsert" /\ worker[w].p \in Payments
        /\ Become(w, [worker[w] EXCEPT !.pc = "sum",
                        !.q = [plan |-> PlanOf[worker[w].p], adds |-> {}]])
    BY <1>4 DEF UpsertSubscription, IInv, Assigned
  <2> QED
    BY <1>2, <1>3, <1>4, <2>1
    DEF AddonBase, SumCompletedAddonBytes, ExpireSubscription
<1>5. CASE AddonBase(w)
  <2>1. /\ worker[w].pc = "base"
        /\ Become(w, [worker[w] EXCEPT !.pc = "sum",
             !.q = [plan |-> IF sub[worker[w].u].status = "none" THEN Free
                             ELSE sub[worker[w].u].plan, adds |-> {}]])
    BY <1>5 DEF AddonBase
  <2> QED
    BY <1>2, <1>3, <1>5, <2>1
    DEF UpsertSubscription, SumCompletedAddonBytes, ExpireSubscription
<1>6. CASE SumCompletedAddonBytes(w)
  <2> DEFINE q == [worker[w].q EXCEPT !.adds = CompletedAddons(worker[w].u)]
  <2>1. /\ worker[w].pc = "sum"
        /\ Become(w, [worker[w] EXCEPT !.pc = "quota", !.q = q])
    BY <1>1, <1>6 DEF SumCompletedAddonBytes, ProcState, Quotas
  <2>2. q.plan = worker[w].q.plan /\ q.adds = CompletedAddons(worker[w].u)
    BY <1>1 DEF Quotas
  <2> HIDE DEF q
  <2> QED
    BY <1>2, <1>3, <1>6, <2>1, <2>2
    DEF UpsertSubscription, AddonBase, ExpireSubscription
<1>7. CASE ExpireSubscription(w)
  <2>1. worker[w].pc = "expire" /\ Become(w, [worker[w] EXCEPT !.pc = "reset"])
    BY <1>7 DEF ExpireSubscription, Goto
  <2>2. worker'[w] = [worker[w] EXCEPT !.pc = "reset"] BY <1>1, <2>1, BecomeOne
  <2>3. worker'[w].pc = "reset" /\ worker'[w].p = worker[w].p /\ worker'[w].u = worker[w].u
    BY <1>1, <2>2 DEF ProcState
  <2> QED
    BY <1>2, <1>7, <2>1, <2>3
    DEF UpsertSubscription, AddonBase, SumCompletedAddonBytes
<1> QED BY <1>4, <1>5, <1>6, <1>7

-----------------------------------------------------------------------------
(* What a process has read stays true unless it is overtaken. *)

LEMMA StillInformed ==
  ASSUME History, NEW w \in Procs, w \in overtaken \/ Informed(w), worker'[w] = worker[w],
         w \notin overtaken'
  PROVE  Informed(w)'
<1>1. CASE ~Midway(w)
  BY <1>1 DEF Midway, Informed, At
<1>2. CASE Midway(w)
  <2>1. Informed(w) /\ Reads(w)' = Reads(w)
    BY <1>2 DEF History, Midway, Overtakes, Moves
  <2>2. /\ Reads(w).plan = Reads(w)'.plan /\ Reads(w).adds = Reads(w)'.adds
    BY <2>1
  <2>3. worker[w].pc \in {"sum", "quota", "reset"} =>
          /\ sub'[worker[w].u].status = sub[worker[w].u].status
          /\ sub'[worker[w].u].plan = sub[worker[w].u].plan
    BY <2>2 DEF Reads, At
  <2>4. worker[w].pc = "quota" => CompletedAddons(worker[w].u)' = CompletedAddons(worker[w].u)
    BY <2>2 DEF Reads, At
  <2>5. worker[w].p \in CompletedAddons(worker[w].u) =>
          worker[w].p \in CompletedAddons(worker[w].u)'
    BY <2>2, <2>4 DEF Reads, At
  <2>6. At(w, "base") => worker[w].p \in CompletedAddons(worker[w].u)'
    BY <2>1, <2>5 DEF Informed
  <2>7. worker[w].pc \in {"sum", "quota"} =>
          /\ sub'[worker[w].u].status = "active" =>
               worker[w].q.plan = sub'[worker[w].u].plan
          /\ \/ sub'[worker[w].u].status = "active"
             \/ worker[w].p \in CompletedAddons(worker[w].u)'
    BY <2>1, <2>3, <2>5 DEF Informed
  <2>8. At(w, "quota") => worker[w].q.adds = CompletedAddons(worker[w].u)'
    BY <2>1, <2>4 DEF Informed, At
  <2>9. At(w, "reset") => sub'[worker[w].u].status # "active"
    BY <2>1, <2>3 DEF Informed, At
  <2> HIDE DEF History
  <2> QED BY <2>6, <2>7, <2>8, <2>9 DEF Informed, At
<1> QED BY <1>1, <1>2

LEMMA MoverInformed ==
  ASSUME IInv, History, NEW w \in Procs, Step(w) \/ Fails(w),
         w \in overtaken \/ Informed(w), w \notin overtaken'
  PROVE  Informed(w)'
<1>1. TypeOK BY DEF IInv
<1>2. CASE worker'[w].pc \in {"create", "store", "refuse", "record", "idle", "upsert"}
  BY <1>2 DEF Informed, At
<1>3. CASE Fails(w) /\ worker'[w].pc \notin {"idle", "refuse"}
  <2>1. (At(w, "sum") \/ At(w, "record")) /\ faults' # faults
    BY <1>1, <1>3, FailureIsAlone DEF Fails
  <2>2. worker'[w].pc # "record" /\ worker'[w].pc # "sum" => Moves(w)
    BY <2>1 DEF Moves, At
  <2>3. At(w, "sum") => worker'[w].pc = "quota"
    <3>1. worker[w] \in ProcState BY <1>1 DEF TypeOK
    <3> QED BY <1>1, <1>3, <3>1, FailureIsAlone DEF Fails, ProcState
  <2>4. At(w, "record") /\ worker'[w].pc = "sum" => Moves(w)
    BY DEF Moves, At
  <2>5. worker'[w].pc \notin {"base", "sum", "quota", "reset"}
    BY <2>1, <2>2, <2>3, <2>4 DEF History, Midway, Overtakes, Fault
  <2> QED BY <2>5 DEF Informed, At
<1>4. CASE WebhookCompletes(w) \/ PollRecords(w)
  <2>1. CASE worker'[w].pc = "base"
    <3>1. LET p == worker[w].p IN
          /\ p \in Purchases /\ worker'[w].p = p /\ worker'[w].u = Owner[p]
          /\ ledger'[p].status = "completed" /\ Activation(p) = "base"
      BY <1>4, <2>1, LeadsToActivation
    <3>2. worker[w].p \in Addons BY <3>1 DEF Activation, Purchases
    <3>3. worker[w].p \in CompletedAddons(Owner[worker[w].p])'
      BY <3>1, <3>2 DEF CompletedAddons
    <3> QED BY <2>1, <3>1, <3>3 DEF Informed, At
  <2>2. CASE worker'[w].pc # "base"
    <3>1. worker'[w].pc \in {"idle", "upsert"}
      BY <1>4, <2>2, LeadsToActivation DEF Activation
    <3> QED BY <1>2, <3>1
  <2> QED BY <2>1, <2>2
<1>5. CASE UpsertSubscription(w)
  <2>1. /\ worker'[w].u = worker[w].u /\ worker[w].u \in Users /\ worker'[w].pc = "sum"
        /\ worker'[w].q = [plan |-> PlanOf[worker[w].p], adds |-> {}]
    BY <1>5, LeadsOn
  <2>2. sub'[worker[w].u].status = "active" /\ sub'[worker[w].u].plan = PlanOf[worker[w].p]
    BY <1>1, <1>5, <2>1 DEF UpsertSubscription, TypeOK
  <2> QED BY <2>1, <2>2 DEF Informed, At
<1>6. ASSUME worker[w].pc \in {"base", "sum"}, worker'[w].pc \in {"sum", "quota"}
      PROVE  Informed(w)
  BY <1>6 DEF History, Midway
<1>7. CASE AddonBase(w)
  <2>1. /\ worker'[w].p = worker[w].p /\ worker'[w].u = worker[w].u /\ worker[w].pc = "base"
        /\ worker'[w].pc = "sum" /\ UNCHANGED <<sub, ledger>>
        /\ worker'[w].q = [plan |-> IF sub[worker[w].u].status = "none" THEN Free
                                    ELSE sub[worker[w].u].plan, adds |-> {}]
    BY <1>7, LeadsOn DEF AddonBase, At
  <2>2. worker[w].p \in CompletedAddons(worker[w].u) BY <1>6, <2>1 DEF Informed, At
  <2>3. CompletedAddons(worker[w].u)' = CompletedAddons(worker[w].u)
    BY <2>1 DEF CompletedAddons
  <2> QED BY <2>1, <2>2, <2>3 DEF Informed, At
<1>8. CASE SumCompletedAddonBytes(w)
  <2>1. /\ worker'[w].p = worker[w].p /\ worker'[w].u = worker[w].u /\ worker[w].pc = "sum"
        /\ worker'[w].pc = "quota" /\ UNCHANGED <<sub, ledger>>
        /\ worker'[w].q.plan = worker[w].q.plan
        /\ worker'[w].q.adds = CompletedAddons(worker[w].u)
    BY <1>8, LeadsOn DEF SumCompletedAddonBytes, At
  <2>2. Informed(w) BY <1>6, <2>1
  <2>3. CompletedAddons(worker[w].u)' = CompletedAddons(worker[w].u)
    BY <2>1 DEF CompletedAddons
  <2> QED BY <2>1, <2>2, <2>3 DEF Informed, At
<1>9. CASE ExpireSubscription(w)
  <2>1. worker'[w].u = worker[w].u /\ worker[w].u \in Users /\ worker'[w].pc = "reset"
    BY <1>9, LeadsOn
  <2>2. sub'[worker[w].u].status # "active"
    BY <1>1, <1>9, <2>1 DEF ExpireSubscription, TypeOK
  <2> QED BY <2>1, <2>2 DEF Informed, At
<1>10. CASE \/ InsertRow(w) \/ GatewayCreates(w) \/ GatewayRefuses(w) \/ StoreAnswer(w)
            \/ StoreRefusal(w) \/ PollAnswered(w) \/ SetQuota(w) \/ ResetQuota(w)
  BY <1>2, <1>10, LeadsAway
<1>11. CASE Fails(w) /\ worker'[w].pc \in {"idle", "refuse"}
  BY <1>2, <1>11
<1> QED BY <1>3, <1>4, <1>5, <1>7, <1>8, <1>9, <1>10, <1>11 DEF Step

LEMMA KeepsInformed ==
  ASSUME IInv, HInv, [Next]_vars, History, NEW w \in Procs, w \notin overtaken'
  PROVE  Informed(w)'
<1>1. TypeOK /\ (w \in overtaken \/ Informed(w)) BY DEF IInv, HInv
<1>2. CASE worker'[w] = worker[w] BY <1>1, <1>2, StillInformed
<1>3. CASE Starts(w) BY <1>3 DEF Starts, Informed, At
<1>4. CASE Step(w) \/ Fails(w) BY <1>1, <1>4, MoverInformed
<1>5. CASE Crash
  <2>1. worker'[w].pc = "idle" BY <1>5 DEF Crash, Idle
  <2> QED BY <2>1 DEF Informed, At
<1>6. ASSUME NEW v \in Procs, v # w, Starts(v) \/ Step(v) \/ Fails(v)
      PROVE  worker'[w] = worker[w]
  BY <1>1, <1>6, StepIsAlone, FailureIsAlone DEF Starts, Fails, OthersUnchanged
<1> QED BY <1>1, <1>2, <1>3, <1>4, <1>5, <1>6, Movements

-----------------------------------------------------------------------------
(* Who leaves a quota unsettled, and who settles it. *)

LEMMA StillSettling ==
  ASSUME IInv, [Next]_vars, NEW w \in Procs, NEW u \in Users, Settling(w, u)
  PROVE  Settling(w, u)' \/ worker'[w].pc = "idle"
<1>1. TypeOK /\ worker[w] \in ProcState BY DEF IInv, TypeOK
<1>2. worker[w].u = u /\ worker[w].pc \in {"upsert", "base", "sum", "quota", "reset"}
  BY DEF Settling, Midway, At
<1>3. ASSUME worker'[w].u = u, worker'[w].pc \in {"upsert", "base", "sum", "quota", "reset"}
      PROVE  Settling(w, u)'
  BY <1>3 DEF Settling, Midway, At
<1>4. CASE worker'[w] = worker[w] BY <1>2, <1>3, <1>4
<1>5. CASE Step(w)
  <2>1. CASE \/ UpsertSubscription(w) \/ AddonBase(w) \/ SumCompletedAddonBytes(w)
             \/ ExpireSubscription(w)
    BY <1>2, <1>3, <2>1, LeadsOn
  <2>2. CASE SetQuota(w) \/ ResetQuota(w)
    BY <1>1, <2>2, BecomeOne DEF SetQuota, ResetQuota, Return, Idle
  <2> QED
    BY <1>2, <1>5, <2>1, <2>2
    DEF Step, At, InsertRow, GatewayCreates, GatewayRefuses, StoreAnswer, StoreRefusal,
        WebhookCompletes, PollAnswered, PollRecords
<1>6. CASE Fails(w)
  <2>1. \/ worker'[w].pc = "idle" \/ GatewayAnswerLost(w)
        \/ At(w, "sum") /\ worker'[w] = [worker[w] EXCEPT !.pc = "quota"]
        \/ At(w, "record")
    <3>1. CASE At(w, "sum") BY <1>1, <1>6, <3>1, FailureIsAlone DEF Fails
    <3>2. CASE ~At(w, "sum") /\ ~At(w, "record")
      <4>1. CASE CallFails(w)
        BY <1>1, <3>2, <4>1, BecomeOne DEF CallFails, OnError, Return, Idle
      <4> QED BY <1>6, <4>1 DEF Fails
    <3> QED BY <3>1, <3>2
  <2>2. CASE worker'[w] = [worker[w] EXCEPT !.pc = "quota"]
    BY <1>1, <1>2, <1>3, <2>2 DEF ProcState
  <2> QED BY <1>2, <2>1, <2>2 DEF GatewayAnswerLost, At
<1>7. CASE Crash
  BY <1>7 DEF Crash, Idle
<1>8. CASE Starts(w) BY <1>2, <1>8 DEF Starts, At
<1>9. ASSUME NEW v \in Procs, v # w, Starts(v) \/ Step(v) \/ Fails(v)
      PROVE  worker'[w] = worker[w]
  BY <1>1, <1>9, StepIsAlone, FailureIsAlone DEF Starts, Fails, OthersUnchanged
<1> QED BY <1>1, <1>4, <1>5, <1>6, <1>7, <1>8, <1>9, Movements

\* The write of an up-to-date quota.
LEMMA CleanWrite ==
  ASSUME IInv, HInv, [Next]_vars, NEW w \in Procs, NEW u \in Users,
         Writes(w, u), w \notin overtaken
  PROVE  Settled(u)'
<1>1. TypeOK /\ Informed(w) /\ worker[w] \in ProcState BY DEF IInv, HInv, TypeOK
<1>2. /\ worker[w].u = u /\ worker[w].pc \in {"quota", "reset"}
      /\ worker'[w] # worker[w] /\ faults' = faults
  BY DEF Writes, Moves, Fault
<1>3. Step(w)
  <2>1. ASSUME NEW v \in Procs, v # w, Starts(v) \/ Step(v) \/ Fails(v)
        PROVE  worker'[w] = worker[w]
    BY <1>1, <2>1, StepIsAlone, FailureIsAlone DEF Starts, Fails, OthersUnchanged
  <2>2. ~Starts(w) BY <1>2 DEF Starts, At
  <2>3. ~Fails(w) BY <1>1, <1>2, FailureIsAlone DEF Fails
  <2>4. ~Crash BY <1>1, <1>2 DEF Crash, TypeOK
  <2> QED BY <1>1, <1>2, <2>1, <2>2, <2>3, <2>4, Movements
<1>4. SetQuota(w) \/ ResetQuota(w)
  BY <1>2, <1>3
  DEF Step, At, InsertRow, GatewayCreates, GatewayRefuses, StoreAnswer, StoreRefusal,
      WebhookCompletes, PollAnswered, PollRecords, UpsertSubscription, AddonBase,
      SumCompletedAddonBytes, ExpireSubscription
<1>5. CASE SetQuota(w)
  <2>1. /\ quota'[u] = worker[w].q /\ UNCHANGED <<sub, ledger>> /\ worker[w].pc = "quota"
    BY <1>1, <1>2, <1>5 DEF SetQuota, TypeOK, At
  <2>2. CompletedAddons(u)' = CompletedAddons(u) BY <2>1 DEF CompletedAddons
  <2>3. /\ sub[u].status = "active" => worker[w].q.plan = sub[u].plan
        /\ sub[u].status = "active" \/ worker[w].p \in CompletedAddons(u)
        /\ worker[w].q.adds = CompletedAddons(u)
    BY <1>1, <1>2, <2>1 DEF Informed, At
  <2>4. worker[w].q = [plan |-> worker[w].q.plan, adds |-> worker[w].q.adds]
    BY <1>1 DEF ProcState, Quotas
  <2> QED BY <2>1, <2>2, <2>3, <2>4 DEF Settled, FullQuota
<1>6. CASE ResetQuota(w)
  <2>1. /\ quota'[u] = FreeQuota /\ UNCHANGED sub /\ worker[w].pc = "reset"
    BY <1>1, <1>2, <1>6 DEF ResetQuota, TypeOK, At
  <2>2. sub[u].status # "active" BY <1>1, <1>2, <2>1 DEF Informed, At
  <2> QED BY <2>1, <2>2 DEF Settled
<1> QED BY <1>4, <1>5, <1>6

\* The row of an add-on moves nobody else's sum, and adds to its owner's only when
\* it becomes completed.
LEMMA OthersAddons ==
  ASSUME TypeOK, NEW p \in Purchases, NEW s, NEW id, UpdateStatus(p, s, id), NEW u,
         Owner[p] # u \/ p \notin Addons
  PROVE  CompletedAddons(u)' = CompletedAddons(u)
<1>1. \A x \in Purchases \ {p} : ledger'[x] = ledger[x]
  BY DEF UpdateStatus, TypeOK
<1>2. Addons \subseteq Purchases BY DEF Purchases
<1> QED BY <1>1, <1>2 DEF CompletedAddons

LEMMA NoAddonMore ==
  ASSUME TypeOK, NEW p \in Purchases, NEW s \in Status, NEW id \in BOOLEAN, UpdateStatus(p, s, id), NEW u,
         s # "completed"
  PROVE  CompletedAddons(u)' \subseteq CompletedAddons(u)
<1>1. /\ ledger'[p].status = s
      /\ \A x \in Purchases \ {p} : ledger'[x] = ledger[x]
  BY DEF UpdateStatus, TypeOK
<1>2. Addons \subseteq Purchases BY DEF Purchases
<1> QED BY <1>1, <1>2 DEF CompletedAddons

\* A user whose quota nobody is about to write keeps what it depends on.
LEMMA StepUntouched ==
  ASSUME IInv, NEW w \in Procs, Step(w), NEW u \in Users, ~Settling(w, u), ~Settling(w, u)',
         ~RowAlone(u)
  PROVE  /\ sub'[u].status = sub[u].status /\ sub'[u].plan = sub[u].plan
         /\ quota'[u] = quota[u] /\ CompletedAddons(u)' = CompletedAddons(u)
<1>1. TypeOK /\ worker[w] \in ProcState BY DEF IInv, TypeOK
<1>2. worker[w].pc \in {"upsert", "base", "sum", "quota", "reset"} => worker[w].u # u
  BY DEF Settling, Midway, At
<1>3. worker'[w].pc \in {"upsert", "base", "sum", "quota", "reset"} => worker'[w].u # u
  BY DEF Settling, Midway, At
<1>4. CASE UNCHANGED <<sub, quota, ledger>>
  BY <1>4 DEF CompletedAddons
<1>5. CASE SetQuota(w) \/ ResetQuota(w)
  BY <1>1, <1>2, <1>5 DEF SetQuota, ResetQuota, At, TypeOK, CompletedAddons
<1>6. CASE UpsertSubscription(w)
  BY <1>1, <1>2, <1>6 DEF UpsertSubscription, At, TypeOK, CompletedAddons
<1>7. CASE ExpireSubscription(w)
  <2>1. worker[w].u # u BY <1>3, <1>7, LeadsOn
  <2> QED BY <1>1, <1>7, <2>1 DEF ExpireSubscription, TypeOK, CompletedAddons
<1>8. ASSUME UNCHANGED <<sub, quota>>,
             \/ CompletedAddons(u)' \subseteq CompletedAddons(u)
             \/ CompletedAddons(u)' = CompletedAddons(u)
      PROVE  /\ sub'[u].status = sub[u].status /\ sub'[u].plan = sub[u].plan
             /\ quota'[u] = quota[u] /\ CompletedAddons(u)' = CompletedAddons(u)
  BY <1>8 DEF RowAlone
<1>9. CASE InsertRow(w) \/ StoreRefusal(w)
  <2>1. worker[w].p \in Purchases
    BY <1>9 DEF InsertRow, StoreRefusal, IInv, Assigned, At, CheckoutCalls
  <2>2. CASE UpdateStatus(worker[w].p, "pending", FALSE)
    <3>1. "pending" # "completed" /\ "pending" \in Status BY DEF Status
    <3> QED BY <1>1, <1>8, <1>9, <2>1, <2>2, <3>1, NoAddonMore
            DEF InsertRow, StoreRefusal
  <2>3. CASE UpdateStatus(worker[w].p, "failed", FALSE)
    <3>1. "failed" # "completed" /\ "failed" \in Status BY DEF Status
    <3> QED BY <1>1, <1>8, <1>9, <2>1, <2>3, <3>1, NoAddonMore
            DEF InsertRow, StoreRefusal
  <2> QED BY <1>9, <2>2, <2>3 DEF InsertRow, StoreRefusal
<1>10. CASE StoreAnswer(w)
  <2>1. /\ At(w, "store") /\ UpdateStatus(worker[w].p, worker[w].s, TRUE)
        /\ UNCHANGED <<sub, quota, faults>> /\ Return(w)
    BY <1>10 DEF StoreAnswer
  <2>2. worker[w].p \in Purchases /\ worker[w].u = Owner[worker[w].p]
    BY <2>1 DEF IInv, Assigned, At, CheckoutCalls
  <2>3. worker[w].s \in Status BY <1>1, <2>1 DEF IInv, CheckoutOwnsRow, ProcState, At
  <2>4. Moves(w) BY <1>1, <2>1, BecomeOne DEF Moves, Return, Idle, At
  <2>5. \/ worker[w].s # "completed" \/ worker[w].p \notin Addons
        \/ Owner[worker[w].p] # u
    BY <2>1, <2>2, <2>4 DEF RowAlone, Fault
  <2>6. \/ CompletedAddons(u)' \subseteq CompletedAddons(u)
        \/ CompletedAddons(u)' = CompletedAddons(u)
    BY <1>1, <2>1, <2>2, <2>5, <2>3, NoAddonMore, OthersAddons
  <2> QED BY <1>8, <2>1, <2>6
<1>11. CASE WebhookCompletes(w) \/ PollRecords(w)
  <2>1. UNCHANGED <<sub, quota>> BY <1>11 DEF WebhookCompletes, PollRecords
  <2>2. CASE worker'[w].pc # "idle"
    <3>1. LET p == worker[w].p IN
          /\ p \in Purchases /\ worker'[w].u = Owner[p] /\ worker'[w].pc = Activation(p)
          /\ \A x \in Purchases \ {p} : ledger'[x] = ledger[x]
      BY <1>11, <2>2, LeadsToActivation
    <3>2. Owner[worker[w].p] # u BY <1>3, <3>1 DEF Activation
    <3>3. CompletedAddons(u)' = CompletedAddons(u)
      BY <3>1, <3>2 DEF CompletedAddons, Purchases
    <3> QED BY <1>8, <2>1, <3>3
  <2>3. CASE worker'[w].pc = "idle"
    <3>1. worker[w].p \in Purchases
      BY <1>11 DEF WebhookCompletes, PollRecords, IInv, Assigned, At, StatusCalls
    <3>2. PollRecords(w) /\ worker[w].s # "completed"
      <4>1. ASSUME Goto(w, Activation(worker[w].p)) PROVE FALSE
        <5>1. worker'[w] = [worker[w] EXCEPT !.pc = Activation(worker[w].p)]
          BY <1>1, <4>1, BecomeOne DEF Goto
        <5> QED BY <1>1, <2>3, <5>1 DEF ProcState, Activation
      <4> QED BY <1>11, <4>1 DEF WebhookCompletes, PollRecords, AfterRecord
    <3>3. UpdateStatus(worker[w].p, worker[w].s, TRUE) /\ worker[w].s # "completed"
      BY <3>2 DEF PollRecords
    <3>4. worker[w].s \in Status
      BY <1>1, <3>2 DEF PollRecords, IInv, OnlyPaidActivates, ProcState
    <3>5. \/ CompletedAddons(u)' \subseteq CompletedAddons(u)
          \/ CompletedAddons(u)' = CompletedAddons(u)
      BY <1>1, <3>1, <3>3, <3>4, NoAddonMore
    <3> QED BY <1>8, <2>1, <3>5
  <2> QED BY <2>2, <2>3
<1>12. \/ UNCHANGED <<sub, quota, ledger>>
       \/ SetQuota(w) \/ ResetQuota(w) \/ UpsertSubscription(w) \/ ExpireSubscription(w)
       \/ InsertRow(w) \/ StoreRefusal(w) \/ StoreAnswer(w)
       \/ WebhookCompletes(w) \/ PollRecords(w)
  BY DEF Step, GatewayCreates, GatewayRefuses, PollAnswered, AddonBase, SumCompletedAddonBytes
<1> QED BY <1>4, <1>5, <1>6, <1>7, <1>9, <1>10, <1>11, <1>12

LEMMA Untouched ==
  ASSUME IInv, [Next]_vars, NEW u \in Users, ~RowAlone(u),
         \A w \in Procs : ~Settling(w, u) /\ ~Settling(w, u)'
  PROVE  /\ sub'[u].status = sub[u].status /\ sub'[u].plan = sub[u].plan
         /\ quota'[u] = quota[u] /\ CompletedAddons(u)' = CompletedAddons(u)
<1>1. TypeOK BY DEF IInv
<1>2. CASE \E w \in Procs : Step(w)
  BY <1>2, StepUntouched
<1>3. CASE UNCHANGED <<sub, quota, ledger>>
  BY <1>3 DEF CompletedAddons
<1>4. ASSUME NEW w \in Procs, Starts(w) \/ Fails(w) PROVE UNCHANGED <<sub, quota, ledger>>
  BY <1>1, <1>4, FailureIsAlone DEF Starts, Fails
<1> QED BY <1>1, <1>2, <1>3, <1>4, Movements DEF Crash

\* A user whose quota is not about to be written, and was not disturbed, has the
\* quota the rows call for.
LEMMA StaysSettled ==
  ASSUME IInv, HInv, [Next]_vars, History, NEW u \in Users, Calm(u)'
  PROVE  Settled(u)'
<1>1. /\ ~Disturbed(u)
      /\ \A w \in Procs : ~Settling(w, u)'
  BY DEF Calm, History
<1>2. CASE \E w \in Procs : Writes(w, u)
  <2>1. PICK w \in Procs : Writes(w, u) BY <1>2
  <2>2. w \notin overtaken BY <1>1, <2>1 DEF Disturbed
  <2> QED BY <2>1, <2>2, CleanWrite
<1>3. CASE \A w \in Procs : ~Writes(w, u)
  <2>1. ASSUME NEW w \in Procs, Settling(w, u) PROVE FALSE
    <3>1. worker'[w].pc = "idle" BY <1>1, <2>1, StillSettling
    <3>2. BreaksOff(w, u) BY <1>3, <2>1, <3>1 DEF BreaksOff
    <3> QED BY <1>1, <3>2 DEF Disturbed
  <2>2. u \notin disturbed /\ ~RowAlone(u) BY <1>1, <1>3 DEF Disturbed
  <2>3. Settled(u) BY <2>1, <2>2 DEF HInv, Calm
  <2>4. /\ sub'[u].status = sub[u].status /\ sub'[u].plan = sub[u].plan
        /\ quota'[u] = quota[u] /\ CompletedAddons(u)' = CompletedAddons(u)
    BY <1>1, <2>1, <2>2, Untouched
  <2> QED BY <2>3, <2>4 DEF Settled, FullQuota
<1> QED BY <1>2, <1>3

-----------------------------------------------------------------------------
(* The history invariant and the theorems about the quota. *)

LEMMA InitHInv == Init /\ HInit => HInv
BY DEF Init, HInit, HInv, Informed, At, Idle, Calm, Settled, CompletedAddons, FullQuota,
       FreeQuota, Purchases

LEMMA NextHInv == IInv /\ HInv /\ [Next /\ History]_<<vars, hvars>> => HInv'
<1> SUFFICES ASSUME IInv, HInv, [Next /\ History]_<<vars, hvars>> PROVE HInv'
  OBVIOUS
<1>1. CASE Next /\ History
  <2>1. ASSUME NEW w \in Procs PROVE w \in overtaken' \/ Informed(w)'
    BY <1>1, KeepsInformed
  <2>2. ASSUME NEW u \in Users, Calm(u)' PROVE Settled(u)'
    BY <1>1, <2>2, StaysSettled
  <2> QED BY <2>1, <2>2 DEF HInv
<1>2. CASE UNCHANGED <<vars, hvars>>
  BY <1>2 DEF vars, hvars, HInv, Informed, At, Calm, Settling, Midway, Settled, FullQuota,
              CompletedAddons
<1> QED BY <1>1, <1>2

LEMMA HistoryInductive == HSpec => [](IInv /\ HInv)
<1>1. [Next /\ History]_<<vars, hvars>> => [Next]_vars BY DEF vars
<1> QED BY <1>1, InitIInv, NextIInv, InitHInv, NextHInv, PTL DEF HSpec

\* With any number of goroutines, and whatever calls fail, an active subscriber
\* has the bytes of the plan and of every completed add-on, unless the last thing
\* that happened to the quota was one of the three accidents the history names:
\* a write from stale reads, an activation or a reset that broke off, or a row
\* that changed without either.  (activateSubscription, activateAddon.)
THEOREM QuotasAddUp == HSpec => []QuotaIsPlanPlusAddons
<1>1. HInv => QuotaIsPlanPlusAddons BY DEF HInv, Settled, QuotaIsPlanPlusAddons
<1> QED BY <1>1, HistoryInductive, PTL

\* Under the same conditions a user without an active subscription and without
\* completed add-ons has the free quota.  (expireUser, expireSubscriptions.)
THEOREM ExpiredHaveFreeQuota == HSpec => []LapsedQuotaIsFree
<1>1. HInv => LapsedQuotaIsFree BY DEF HInv, Settled, LapsedQuotaIsFree
<1> QED BY <1>1, HistoryInductive, PTL

=============================================================================
