---------------------------- MODULE LimitsProofs ----------------------------
(***************************************************************************)
(* Proofs about Limits: its types, that requests are counted once, by how  *)
(* much a month's requests may exceed the quota, how many requests a       *)
(* limiter lets through within an interval, and that it denies only whom   *)
(* it has to; for any number of goroutines, requests, plan changes and     *)
(* faults.                                                                 *)
(*                                                                         *)
(* What an action moves between the table, the goroutines that are about   *)
(* to increment, the handlers under way and the lost ones adds up to what  *)
(* was served.  The number of handlers under way is a cardinality, so that *)
(* each action is first reduced to what it does to the set Serving(m).     *)
(*                                                                         *)
(* The limiters do not remember when a window was opened, nor the window   *)
(* before it: the invariant TwoWindows says that there are such ticks, far *)
(* enough apart, and what was let through after each of them.              *)
(***************************************************************************)
EXTENDS Limits, Sums

\* What is about the quota is inductive as it stands.
LInv == TypeOK /\ CountedOnce /\ QuotaOvershoot

Handlers(m) == Cardinality(Serving(m))

-----------------------------------------------------------------------------
(* The handlers under way.                                                 *)

LEMMA ServingFinite ==
  ASSUME NEW m \in AllMonths
  PROVE  IsFiniteSet(Serving(m)) /\ Handlers(m) \in Nat
<1>1. Serving(m) \subseteq Workers
  BY DEF Serving
<1> QED BY <1>1, LimitsAssumption, FS_Subset, FS_CardinalityType DEF Handlers

\* A request that neither enters nor leaves its handler.
LEMMA ServingKept ==
  ASSUME TypeOK, NEW w \in Workers, NEW s, Become(w, s), ~At(w, "serve"), s.pc # "serve"
  PROVE  \A m \in AllMonths : Handlers(m)' = Handlers(m)
<1>1. \A v \in Workers : req'[v] = IF v = w THEN s ELSE req[v]
  BY DEF Become, TypeOK
<1>2. \A m \in AllMonths : Serving(m)' = Serving(m)
  BY <1>1 DEF Serving, At
<1> QED BY <1>2 DEF Handlers

\* One that leaves it.
LEMMA ServingLeft ==
  ASSUME TypeOK, NEW w \in Workers, Return(w), At(w, "serve")
  PROVE  /\ req[w].month \in AllMonths
         /\ \A m \in AllMonths :
              Handlers(m) = Handlers(m)' + (IF m = req[w].month THEN 1 ELSE 0) /\ Handlers(m)' \in Nat
<1>1. \A v \in Workers : req'[v] = IF v = w THEN Idle ELSE req[v]
  BY DEF Return, Become, TypeOK
<1>2. req[w] \in Request
  BY DEF TypeOK, At, Idle
<1>3. req[w].month \in AllMonths
  BY <1>2 DEF Request
<1>4. ASSUME NEW m \in AllMonths
      PROVE  Handlers(m) = Handlers(m)' + (IF m = req[w].month THEN 1 ELSE 0) /\ Handlers(m)' \in Nat
  <2>1. CASE m = req[w].month
    <3>1. Serving(m)' = Serving(m) \ {w} /\ w \in Serving(m)
      BY <1>1, <2>1 DEF Serving, At, Idle
    <3>2. IsFiniteSet(Serving(m)) /\ Handlers(m) \in Nat
      BY ServingFinite
    <3>3. Handlers(m)' = Handlers(m) - 1
      BY <3>1, <3>2, FS_RemoveElement DEF Handlers
    <3>4. Handlers(m)' \in Nat
      BY <3>1, <3>2, FS_RemoveElement, FS_CardinalityType DEF Handlers
    <3> QED BY <2>1, <3>2, <3>3, <3>4
  <2>2. CASE m # req[w].month
    <3>1. Serving(m)' = Serving(m)
      BY <1>1, <2>2 DEF Serving, At, Idle
    <3> QED BY <2>2, <3>1, ServingFinite DEF Handlers
  <2> QED BY <2>1, <2>2
<1> QED BY <1>3, <1>4

\* One that enters it.
LEMMA ServingEntered ==
  ASSUME TypeOK, NEW w \in Workers, At(w, "quota"), Become(w, [req[w] EXCEPT !.pc = "serve"])
  PROVE  /\ req' \in [Workers -> Request \cup {Idle}] /\ req[w].month \in AllMonths
         /\ \A m \in AllMonths :
              Handlers(m)' = Handlers(m) + (IF m = req[w].month THEN 1 ELSE 0)
<1> DEFINE s == [req[w] EXCEPT !.pc = "serve"]
<1>1. req[w] \in Request
  BY DEF TypeOK, At, Idle
<1>2. s \in Request /\ s.pc = "serve" /\ s.month = req[w].month /\ req[w].month \in AllMonths
  BY <1>1 DEF Request
<1>3. req' = [req EXCEPT ![w] = s]
  BY DEF Become
<1> HIDE DEF s
<1>4. \A v \in Workers : req'[v] = IF v = w THEN s ELSE req[v]
  BY <1>3 DEF TypeOK
<1>5. req' \in [Workers -> Request \cup {Idle}]
  BY <1>2, <1>3 DEF TypeOK
<1>6. ASSUME NEW m \in AllMonths
      PROVE  Handlers(m)' = Handlers(m) + (IF m = req[w].month THEN 1 ELSE 0)
  <2>1. CASE m = req[w].month
    <3>1. Serving(m)' = Serving(m) \cup {w} /\ w \notin Serving(m)
      BY <1>2, <1>4, <2>1 DEF Serving, At
    <3> QED BY <2>1, <3>1, ServingFinite, FS_AddElement DEF Handlers
  <2>2. CASE m # req[w].month
    <3>1. Serving(m)' = Serving(m)
      BY <1>2, <1>4, <2>2 DEF Serving, At
    <3> QED BY <2>2, <3>1, ServingFinite DEF Handlers
  <2> QED BY <2>1, <2>2
<1> QED BY <1>2, <1>5, <1>6

-----------------------------------------------------------------------------
(* Two frames.                                                             *)

\* A step that serves no request keeps the bound on the quota.
LEMMA OvershootKept ==
  ASSUME QuotaOvershoot, UNCHANGED <<served, peak, top>>
  PROVE  QuotaOvershoot'
BY DEF QuotaOvershoot

\* A step that leaves all the counts alone.
LEMMA CountsKept ==
  ASSUME LInv, UNCHANGED <<counts, increments, served, lost, peak, top>>,
         \A m \in AllMonths : Handlers(m)' = Handlers(m), TypeOK'
  PROVE  LInv'
<1>1. CountedOnce'
  BY DEF LInv, CountedOnce, Uncounted, Handlers
<1> QED BY <1>1, OvershootKept DEF LInv

LEMMA SameRequests ==
  ASSUME UNCHANGED req
  PROVE  \A m \in AllMonths : Handlers(m)' = Handlers(m)
BY DEF Handlers, Serving, At

LEMMA ReturnTyped ==
  ASSUME TypeOK, NEW w \in Workers, Return(w)
  PROVE  req' \in [Workers -> Request \cup {Idle}]
BY DEF TypeOK, Return, Become

LEMMA Incremented ==
  ASSUME NEW f \in [AllMonths -> Nat], NEW i \in AllMonths
  PROVE  /\ Plus(f, i) \in [AllMonths -> Nat]
         /\ \A m \in AllMonths : Plus(f, i)[m] = f[m] + (IF m = i THEN 1 ELSE 0)
BY DEF Plus

LEMMA Decremented ==
  ASSUME NEW f \in [AllMonths -> Nat], NEW i \in AllMonths, f[i] > 0
  PROVE  /\ [f EXCEPT ![i] = @ - 1] \in [AllMonths -> Nat]
         /\ \A m \in AllMonths : [f EXCEPT ![i] = @ - 1][m] = f[m] - (IF m = i THEN 1 ELSE 0)
OBVIOUS

-----------------------------------------------------------------------------
(* The first state.                                                        *)

LEMMA InitSatisfies ==
  ASSUME Init
  PROVE  LInv
<1> USE LimitsAssumption
<1>1. \A m \in AllMonths : Handlers(m) = 0
  <2>1. \A m \in AllMonths : Serving(m) = {}
    BY DEF Init, Serving, At, Idle
  <2> QED BY <2>1, FS_EmptySet DEF Handlers
<1>2. TypeOK
  BY DEF Init, TypeOK, AllMonths, Zero, Silence, NoWindow, Quotas
<1>3. CountedOnce
  BY <1>1 DEF Init, CountedOnce, Uncounted, Handlers, Zero
<1>4. QuotaOvershoot
  BY DEF Init, QuotaOvershoot, Zero
<1> QED BY <1>2, <1>3, <1>4 DEF LInv

-----------------------------------------------------------------------------
(* Keys, clocks and plans.                                                 *)

LEMMA SurroundingsPreserve ==
  ASSUME LInv,
         \/ create \/ revoke \/ Cleanup \/ Tick \/ NewMonth
         \/ \E q \in Quotas : ChangePlan(q)
  PROVE  LInv'
<1> USE LimitsAssumption
<1>1. UNCHANGED <<counts, increments, served, lost, peak, top, req, begun, faults, admitted>>
  BY DEF create, CreateKey, revoke, Revoke, Cleanup, Tick, NewMonth, ChangePlan,
         database, clocks, history
<1>2. /\ now' \in Nat /\ month' \in AllMonths
      /\ keys' \in [Keys -> {"none", "live", "revoked"}]
      /\ quota' \in Quotas
  <2>1. TypeOK
    BY DEF LInv
  <2>2. CASE create \/ revoke
    BY <2>1, <2>2 DEF TypeOK, create, CreateKey, revoke, Revoke, clocks
  <2>3. CASE Cleanup \/ \E q \in Quotas : ChangePlan(q)
    BY <2>1, <2>3 DEF TypeOK, Cleanup, ChangePlan, clocks, database
  <2>4. CASE Tick
    BY <2>1, <2>4 DEF TypeOK, Tick, database
  <2>5. CASE NewMonth
    BY <2>1, <2>5 DEF TypeOK, NewMonth, database, AllMonths
  <2> QED BY <2>2, <2>3, <2>4, <2>5
<1>3. windows' \in [Callers -> [count : Nat, resetAt : Nat] \cup {NoWindow}]
  BY DEF LInv, TypeOK, create, CreateKey, revoke, Revoke, Cleanup, Tick, NewMonth,
         ChangePlan, database, clocks, history
<1>4. TypeOK'
  BY <1>1, <1>2, <1>3 DEF LInv, TypeOK, Request, Idle, AllMonths
<1> QED BY <1>1, <1>4, SameRequests, CountsKept

-----------------------------------------------------------------------------
(* A request before its handler.                                           *)

LEMMA RoutesPreserve ==
  ASSUME LInv, NEW w \in Workers, Routes(w)
  PROVE  LInv'
<1> USE LimitsAssumption
<1>1. PICK c \in Callers : Arrive(w, c)
  BY DEF Routes, AuthenticateAPIKey, AuthRequest, Callers
<1> DEFINE s == [pc |-> "lock", caller |-> c, at |-> now, month |-> 0]
<1>2. Become(w, s) /\ At(w, "idle")
  BY <1>1 DEF Arrive
<1>3. s \in Request
  BY DEF LInv, TypeOK, Request, AllMonths
<1>4. TypeOK'
  <2>1. req' \in [Workers -> Request \cup {Idle}]
    BY <1>2, <1>3 DEF LInv, TypeOK, Become
  <2>2. /\ UNCHANGED <<now, month, keys, windows, quota, counts, increments, faults>>
        /\ UNCHANGED <<admitted, served, lost, peak, top>>
        /\ begun' = begun + 1
    BY <1>1 DEF Arrive, database, clocks, history
  <2>3. begun' \in Nat
    BY <2>2 DEF LInv, TypeOK
  <2> HIDE DEF s
  <2> QED BY <2>1, <2>2, <2>3 DEF LInv, TypeOK
<1>5. \A m \in AllMonths : Handlers(m)' = Handlers(m)
  BY <1>2, ServingKept DEF At, LInv
<1> QED BY <1>1, <1>4, <1>5, CountsKept DEF Arrive, database, history

\* What the limiter does to its maps, whatever comes next.
LEMMA ThrottlePreserves ==
  ASSUME LInv, NEW w \in Workers, NEW next \in Request \cup {Idle}, next.pc # "serve",
         Throttle(w, next)
  PROVE  LInv'
<1> USE LimitsAssumption
<1> DEFINE c == req[w].caller
<1>1. c \in Callers /\ req[w].at \in Nat
  <2>1. req[w].pc = "lock"
    BY DEF Throttle, At
  <2>2. req[w] \in Request
    BY <2>1 DEF LInv, TypeOK, Idle
  <2> QED BY <2>2 DEF Request
<1>2. Become(w, next) \/ Become(w, Idle)
  BY DEF Throttle, Admit, Deny, Return
<1>3. req' \in [Workers -> Request \cup {Idle}]
  BY <1>2 DEF LInv, TypeOK, Become
<1>4. \A m \in AllMonths : Handlers(m)' = Handlers(m)
  BY <1>2, ServingKept DEF LInv, Throttle, At, Idle
<1>5. admitted' \in [Callers -> [0 .. MaxTime -> Nat]]
  <2>1. UNCHANGED admitted \/ admitted' = [admitted EXCEPT ![c][now] = @ + 1]
    BY DEF Throttle, Admit, Deny
  <2>2. admitted \in [Callers -> [0 .. MaxTime -> Nat]]
    BY DEF LInv, TypeOK
  <2>3. admitted[c] \in [0 .. MaxTime -> Nat]
    BY <1>1, <2>2
  <2>4. [admitted[c] EXCEPT ![now] = @ + 1] \in [0 .. MaxTime -> Nat]
    <3>1. CASE now \in 0 .. MaxTime
      BY <2>3, <3>1
    <3>2. CASE now \notin 0 .. MaxTime
      BY <2>3, <3>2
    <3> QED BY <3>1, <3>2
  <2>5. CASE admitted' = [admitted EXCEPT ![c][now] = @ + 1]
    <3>1. admitted' = [admitted EXCEPT ![c] = [admitted[c] EXCEPT ![now] = @ + 1]]
      BY <1>1, <2>2, <2>5
    <3> QED BY <2>2, <2>4, <3>1
  <2> QED BY <2>1, <2>2, <2>5
<1>6. windows' \in [Callers -> [count : Nat, resetAt : Nat] \cup {NoWindow}]
  <2>1. CASE windows[c] = NoWindow \/ Ended(c, req[w].at)
    <3>1. windows' = [windows EXCEPT ![c] = [count |-> 1, resetAt |-> req[w].at + Window]]
      BY <2>1 DEF Throttle
    <3> QED BY <1>1, <3>1 DEF LInv, TypeOK
  <2>2. CASE ~ (windows[c] = NoWindow \/ Ended(c, req[w].at))
    <3>1. windows' = [windows EXCEPT ![c].count = @ + 1]
      BY <2>2 DEF Throttle
    <3>2. windows[c] \in [count : Nat, resetAt : Nat]
      BY <1>1, <2>2 DEF LInv, TypeOK
    <3>3. [windows[c] EXCEPT !.count = @ + 1] \in [count : Nat, resetAt : Nat]
      BY <3>2
    <3>4. windows' = [windows EXCEPT ![c] = [windows[c] EXCEPT !.count = @ + 1]]
      BY <1>1, <3>1 DEF LInv, TypeOK
    <3> QED BY <3>3, <3>4 DEF LInv, TypeOK
  <2> QED BY <2>1, <2>2
<1>7. UNCHANGED <<clocks, database, increments, begun, faults, served, lost, peak, top>>
  BY DEF Throttle
<1>8. TypeOK'
  BY <1>3, <1>5, <1>6, <1>7 DEF LInv, TypeOK, database, clocks, AllMonths
<1> QED BY <1>4, <1>7, <1>8, CountsKept DEF database

LEMMA LimitersPreserve ==
  ASSUME LInv, NEW w \in Workers, RateLimitPerProject(w) \/ RateLimitPerIP(w)
  PROVE  LInv'
<1>1. CASE RateLimitPerProject(w)
  <2> DEFINE next == [req[w] EXCEPT !.pc = "quota", !.at = 0, !.month = month]
  <2>1. Throttle(w, next)
    BY <1>1 DEF RateLimitPerProject
  <2>2. req[w] \in Request
    BY <2>1 DEF Throttle, LInv, TypeOK, At, Idle
  <2>3. next \in Request /\ next.pc # "serve"
    BY <2>2 DEF LInv, TypeOK, Request
  <2> QED BY <2>1, <2>3, ThrottlePreserves
<1>2. CASE RateLimitPerIP(w)
  <2>1. Throttle(w, Idle)
    BY <1>2 DEF RateLimitPerIP
  <2>2. Idle.pc # "serve"
    BY DEF Idle
  <2> QED BY <2>1, <2>2, ThrottlePreserves
<1> QED BY <1>1, <1>2

-----------------------------------------------------------------------------
(* The quota.                                                              *)

LEMMA CallOfTyped ==
  ASSUME TypeOK, NEW w \in Workers, ~At(w, "idle")
  PROVE  req[w] \in Request /\ req[w].month \in AllMonths
BY DEF TypeOK, At, Idle, Request

\* The quota admits it: one more is served, one more is uncounted, and the count that
\* was read is below the quota.
LEMMA EnforceAPIQuotaPreserves ==
  ASSUME LInv, NEW w \in Workers, EnforceAPIQuota(w)
  PROVE  LInv'
<1> USE LimitsAssumption
<1> DEFINE m == req[w].month
<1> DEFINE more == Uncounted(m) + 1
<1>0. TypeOK /\ At(w, "quota") /\ ~At(w, "idle") /\ ~At(w, "serve")
  BY DEF LInv, EnforceAPIQuota, At
<1>1. m \in AllMonths
  BY <1>0, CallOfTyped
<1>2. CASE Return(w) /\ UNCHANGED <<served, peak, top>>
  <2>1. req' \in [Workers -> Request \cup {Idle}]
    BY <1>0, <1>2, ReturnTyped
  <2>2. TypeOK'
    BY <1>2, <2>1 DEF LInv, TypeOK, EnforceAPIQuota, clocks, database, AllMonths
  <2>3. \A n \in AllMonths : Handlers(n)' = Handlers(n)
    BY <1>0, <1>2, ServingKept DEF Return, Idle
  <2> QED BY <1>2, <2>2, <2>3, CountsKept DEF EnforceAPIQuota, database
<1>3. CASE /\ ~Exceeded(m)
           /\ Become(w, [req[w] EXCEPT !.pc = "serve"])
           /\ served' = Plus(served, m)
           /\ peak' = [peak EXCEPT ![m] = IF more > @ THEN more ELSE @]
           /\ top' = [top EXCEPT ![m] = Larger(@, quota)]
  <2>1. /\ req' \in [Workers -> Request \cup {Idle}]
        /\ \A n \in AllMonths : Handlers(n)' = Handlers(n) + (IF n = m THEN 1 ELSE 0)
    BY <1>0, <1>3, ServingEntered
  <2>2. \A n \in AllMonths : /\ Handlers(n) \in Nat
                             /\ Uncounted(n) = increments[n] + Handlers(n) + lost[n]
    BY ServingFinite DEF Uncounted, Handlers
  <2>3. UNCHANGED <<counts, increments, lost>>
    BY DEF EnforceAPIQuota, database
  <2>4. /\ served' \in [AllMonths -> Nat]
        /\ \A n \in AllMonths : served'[n] = served[n] + (IF n = m THEN 1 ELSE 0)
    BY <1>1, <1>3, Incremented DEF LInv, TypeOK
  <2>5. more \in Nat /\ counts[m] \in Nat /\ served[m] + 1 = counts[m] + more
    <3>1. TypeOK /\ CountedOnce
      BY DEF LInv
    <3>2. increments[m] \in Nat /\ lost[m] \in Nat /\ counts[m] \in Nat
      BY <1>1, <3>1 DEF TypeOK
    <3>3. Handlers(m) \in Nat /\ Uncounted(m) = increments[m] + Handlers(m) + lost[m]
      BY <1>1, <2>2
    <3>4. served[m] = counts[m] + Uncounted(m)
      BY <1>1, <3>1 DEF CountedOnce
    <3> QED BY <3>2, <3>3, <3>4
  <2> HIDE DEF more
  <2>6. /\ peak' \in [AllMonths -> Nat]
        /\ peak'[m] >= more
        /\ \A n \in AllMonths : n # m => peak'[n] = peak[n]
    <3>1. peak \in [AllMonths -> Nat]
      BY DEF LInv, TypeOK
    <3> DEFINE p == IF more > peak[m] THEN more ELSE peak[m]
    <3>2. p \in Nat /\ p >= more
      BY <1>1, <2>5, <3>1
    <3>3. peak' = [peak EXCEPT ![m] = p]
      BY <1>3
    <3> HIDE DEF p
    <3> QED BY <1>1, <3>1, <3>2, <3>3
  <2>7. /\ top' \in [AllMonths -> Quotas \cup {0}]
        /\ top'[m] = Larger(top[m], quota)
        /\ \A n \in AllMonths : n # m => top'[n] = top[n]
    BY <1>1, <1>3 DEF LInv, TypeOK, Larger
  <2>8. TypeOK'
    BY <2>1, <2>4, <2>6, <2>7 DEF LInv, TypeOK, EnforceAPIQuota, clocks, database, AllMonths
  <2>9. CountedOnce'
    <3>1. \A n \in AllMonths : Uncounted(n)' = increments[n] + Handlers(n)' + lost[n]
      BY <2>3 DEF Uncounted, Handlers
    <3>2. \A n \in AllMonths : /\ served[n] = counts[n] + Uncounted(n)
                               /\ increments[n] \in Nat /\ lost[n] \in Nat /\ counts[n] \in Nat
      BY DEF LInv, TypeOK, CountedOnce
    <3>3. ASSUME NEW n \in AllMonths
          PROVE  served'[n] = counts'[n] + Uncounted(n)'
      BY <2>1, <2>2, <2>3, <2>4, <3>1, <3>2
    <3> QED BY <3>3 DEF CountedOnce
  <2>10. QuotaOvershoot'
    <3>1. ASSUME top'[m] # Unlimited
          PROVE  served'[m] < top'[m] + peak'[m]
      <4>1. top[m] \in Nat \cup {Unlimited} /\ quota \in Nat \cup {Unlimited} /\ Unlimited \notin Nat
        <5>1. top[m] \in Quotas \cup {0} /\ quota \in Quotas
          BY <1>0, <1>1 DEF TypeOK
        <5>2. Limits \subseteq Nat /\ Unlimited \notin Nat
          BY LimitsAssumption
        <5>3. \A q \in Quotas \cup {0} : q \in Nat \cup {Unlimited}
          BY <5>2 DEF Quotas
        <5> QED BY <5>1, <5>2, <5>3
      <4>2. quota \in Nat /\ top'[m] \in Nat /\ top'[m] >= quota
        BY <2>7, <3>1, <4>1 DEF Larger
      <4>3. counts[m] < quota
        BY <1>3, <2>5, <4>1, <4>2 DEF Exceeded
      <4>4. served'[m] = served[m] + 1 /\ served[m] \in Nat
        BY <1>0, <1>1, <2>4 DEF TypeOK
      <4>5. served'[m] < quota + more
        BY <2>5, <4>2, <4>3, <4>4
      <4>6. peak'[m] \in Nat
        BY <1>1, <2>6
      <4> QED BY <2>5, <2>6, <4>2, <4>4, <4>5, <4>6
    <3>2. ASSUME NEW n \in AllMonths, n # m, served'[n] > 0, top'[n] # Unlimited
          PROVE  served'[n] < top'[n] + peak'[n]
      <4>1. served'[n] = served[n] /\ top'[n] = top[n] /\ peak'[n] = peak[n]
        BY <2>4, <2>6, <2>7, <3>2 DEF LInv, TypeOK
      <4> QED BY <3>2, <4>1 DEF LInv, QuotaOvershoot
    <3> QED BY <3>1, <3>2 DEF QuotaOvershoot
  <2> QED BY <2>8, <2>9, <2>10 DEF LInv
<1> QED BY <1>2, <1>3 DEF EnforceAPIQuota

LEMMA FailOpenPreserves ==
  ASSUME LInv, NEW w \in Workers, FailOpen(w)
  PROVE  LInv'
<1> USE LimitsAssumption
<1>1. TypeOK /\ Return(w) /\ ~At(w, "serve")
  BY DEF LInv, FailOpen, At
<1>2. TypeOK'
  <2>1. req' \in [Workers -> Request \cup {Idle}]
    BY <1>1, ReturnTyped
  <2>2. /\ UNCHANGED <<now, month, keys, windows, quota, counts, increments, begun>>
        /\ UNCHANGED <<admitted, served, lost, peak, top>>
        /\ faults' = faults + 1
    BY DEF FailOpen, database, clocks, history
  <2> QED BY <2>1, <2>2 DEF LInv, TypeOK
<1>3. \A n \in AllMonths : Handlers(n)' = Handlers(n)
  BY <1>1, ServingKept DEF Return, Idle
<1> QED BY <1>2, <1>3, CountsKept DEF FailOpen, database, history

-----------------------------------------------------------------------------
(* After the handler.                                                      *)

\* The request turns from one under way into one that a goroutine is to count.
LEMMA HandlerReturnsPreserves ==
  ASSUME LInv, NEW w \in Workers, HandlerReturns(w)
  PROVE  LInv'
<1> USE LimitsAssumption
<1> DEFINE m == req[w].month
<1>1. TypeOK /\ CountedOnce /\ Return(w) /\ At(w, "serve") /\ increments' = Plus(increments, m)
  BY DEF LInv, HandlerReturns
<1>2. /\ m \in AllMonths
      /\ \A n \in AllMonths :
           Handlers(n) = Handlers(n)' + (IF n = m THEN 1 ELSE 0) /\ Handlers(n)' \in Nat
  BY <1>1, ServingLeft
<1>3. /\ increments' \in [AllMonths -> Nat]
      /\ \A n \in AllMonths : increments'[n] = increments[n] + (IF n = m THEN 1 ELSE 0)
  <2>1. increments \in [AllMonths -> Nat]
    BY <1>1 DEF TypeOK
  <2> HIDE DEF m
  <2> QED BY <1>1, <1>2, <2>1, Incremented
<1>4. UNCHANGED <<now, month, keys, windows, quota, counts, begun, faults,
                  admitted, served, lost, peak, top>>
  BY DEF HandlerReturns, clocks, database, history
<1>5. TypeOK'
  <2>1. req' \in [Workers -> Request \cup {Idle}]
    BY <1>1, ReturnTyped
  <2> QED BY <1>1, <1>3, <1>4, <2>1 DEF TypeOK
<1>6. CountedOnce'
  <2>1. ASSUME NEW n \in AllMonths
        PROVE  served'[n] = counts'[n] + Uncounted(n)'
    <3>1. served[n] = counts[n] + (increments[n] + Handlers(n) + lost[n])
      BY <1>1 DEF CountedOnce, Uncounted, Handlers
    <3>2. Uncounted(n)' = increments'[n] + Handlers(n)' + lost'[n]
      BY DEF Uncounted, Handlers
    <3>3. counts[n] \in Nat /\ increments[n] \in Nat /\ lost[n] \in Nat
      BY <1>1 DEF TypeOK
    <3> QED BY <1>2, <1>3, <1>4, <3>1, <3>2, <3>3
  <2> QED BY <2>1 DEF CountedOnce
<1> QED BY <1>4, <1>5, <1>6, OvershootKept DEF LInv

LEMMA HandlerPanicsPreserves ==
  ASSUME LInv, NEW w \in Workers, HandlerPanics(w)
  PROVE  LInv'
<1> USE LimitsAssumption
<1> DEFINE m == req[w].month
<1>1. TypeOK /\ CountedOnce /\ Return(w) /\ At(w, "serve") /\ lost' = Plus(lost, m)
  BY DEF LInv, HandlerPanics
<1>2. /\ m \in AllMonths
      /\ \A n \in AllMonths :
           Handlers(n) = Handlers(n)' + (IF n = m THEN 1 ELSE 0) /\ Handlers(n)' \in Nat
  BY <1>1, ServingLeft
<1>3. /\ lost' \in [AllMonths -> Nat]
      /\ \A n \in AllMonths : lost'[n] = lost[n] + (IF n = m THEN 1 ELSE 0)
  <2>1. lost \in [AllMonths -> Nat]
    BY <1>1 DEF TypeOK
  <2> HIDE DEF m
  <2> QED BY <1>1, <1>2, <2>1, Incremented
<1>4. /\ UNCHANGED <<now, month, keys, windows, quota, counts, increments, begun,
                     admitted, served, peak, top>>
      /\ faults' = faults + 1
  BY DEF HandlerPanics, clocks, database
<1>5. TypeOK'
  <2>1. req' \in [Workers -> Request \cup {Idle}]
    BY <1>1, ReturnTyped
  <2> QED BY <1>1, <1>3, <1>4, <2>1 DEF TypeOK
<1>6. CountedOnce'
  <2>1. ASSUME NEW n \in AllMonths
        PROVE  served'[n] = counts'[n] + Uncounted(n)'
    <3>1. served[n] = counts[n] + (increments[n] + Handlers(n) + lost[n])
      BY <1>1 DEF CountedOnce, Uncounted, Handlers
    <3>2. Uncounted(n)' = increments'[n] + Handlers(n)' + lost'[n]
      BY DEF Uncounted, Handlers
    <3>3. counts[n] \in Nat /\ increments[n] \in Nat /\ lost[n] \in Nat
      BY <1>1 DEF TypeOK
    <3> QED BY <1>2, <1>3, <1>4, <3>1, <3>2, <3>3
  <2> QED BY <2>1 DEF CountedOnce
<1> QED BY <1>4, <1>5, <1>6, OvershootKept DEF LInv

\* The goroutine adds one to the table, or fails to: then the request is lost.
LEMMA IncrementsPreserve ==
  ASSUME LInv, NEW m \in AllMonths, Increment(m) \/ IncrementFails(m)
  PROVE  LInv'
<1> USE LimitsAssumption
<1>1. /\ TypeOK /\ CountedOnce
      /\ increments[m] > 0 /\ increments' = [increments EXCEPT ![m] = @ - 1]
      /\ UNCHANGED <<now, month, keys, windows, quota, req, begun,
                     admitted, served, peak, top>>
  BY DEF LInv, Increment, IncrementFails, clocks, database, history
<1>2. /\ increments' \in [AllMonths -> Nat]
      /\ \A n \in AllMonths : increments'[n] = increments[n] - (IF n = m THEN 1 ELSE 0)
  BY <1>1, Decremented DEF TypeOK
<1>3. /\ counts' \in [AllMonths -> Nat] /\ lost' \in [AllMonths -> Nat] /\ faults' \in Nat
      /\ \A n \in AllMonths :
           counts'[n] + lost'[n] = counts[n] + lost[n] + (IF n = m THEN 1 ELSE 0)
  <2>0. counts \in [AllMonths -> Nat] /\ lost \in [AllMonths -> Nat] /\ faults \in Nat
    BY <1>1 DEF TypeOK
  <2>1. CASE Increment(m)
    <3>1. counts' = Plus(counts, m) /\ lost' = lost /\ faults' = faults
      BY <2>1 DEF Increment, history
    <3>2. /\ Plus(counts, m) \in [AllMonths -> Nat]
          /\ \A n \in AllMonths : Plus(counts, m)[n] = counts[n] + (IF n = m THEN 1 ELSE 0)
      BY <2>0, Incremented
    <3> QED BY <2>0, <3>1, <3>2
  <2>2. CASE IncrementFails(m)
    <3>1. lost' = Plus(lost, m) /\ counts' = counts /\ faults' = faults + 1
      BY <2>2 DEF IncrementFails, database
    <3>2. /\ Plus(lost, m) \in [AllMonths -> Nat]
          /\ \A n \in AllMonths : Plus(lost, m)[n] = lost[n] + (IF n = m THEN 1 ELSE 0)
      BY <2>0, Incremented
    <3> QED BY <2>0, <3>1, <3>2
  <2> QED BY <2>1, <2>2
<1>4. TypeOK'
  BY <1>1, <1>2, <1>3 DEF TypeOK
<1>5. CountedOnce'
  <2>1. ASSUME NEW n \in AllMonths
        PROVE  served'[n] = counts'[n] + Uncounted(n)'
    <3>1. served[n] = counts[n] + (increments[n] + Handlers(n) + lost[n])
      BY <1>1 DEF CountedOnce, Uncounted, Handlers
    <3>2. Uncounted(n)' = increments'[n] + Handlers(n)' + lost'[n]
      BY DEF Uncounted, Handlers
    <3>3. Handlers(n)' = Handlers(n) /\ Handlers(n) \in Nat
      BY <1>1, SameRequests, ServingFinite
    <3>4. /\ counts[n] \in Nat /\ increments[n] \in Nat /\ lost[n] \in Nat
          /\ counts'[n] \in Nat /\ increments'[n] \in Nat /\ lost'[n] \in Nat
      BY <1>1, <1>2, <1>3 DEF TypeOK
    <3>5. counts'[n] + increments'[n] + lost'[n] = counts[n] + increments[n] + lost[n]
      <4>1. /\ counts'[n] + lost'[n] = counts[n] + lost[n] + (IF n = m THEN 1 ELSE 0)
            /\ increments'[n] = increments[n] - (IF n = m THEN 1 ELSE 0)
        BY <1>2, <1>3
      <4> QED BY <3>4, <4>1
    <3> QED BY <1>1, <3>1, <3>2, <3>3, <3>4, <3>5
  <2> QED BY <2>1 DEF CountedOnce
<1> QED BY <1>1, <1>4, <1>5, OvershootKept DEF LInv

\* Whatever was not counted is lost.
LEMMA CrashPreserves ==
  ASSUME LInv, Crash
  PROVE  LInv'
<1> USE LimitsAssumption
<1>1. /\ TypeOK /\ CountedOnce
      /\ UNCHANGED <<now, month, keys, quota, counts, begun, served, peak, top>>
      /\ faults' = faults + 1 /\ increments' = Zero
      /\ lost' = [m \in AllMonths |-> Uncounted(m)]
      /\ windows' = [c \in Callers |-> NoWindow] /\ admitted' = Silence
      /\ req' = [w \in Workers |-> Idle]
  BY DEF LInv, Crash, clocks, database
<1>2. \A m \in AllMonths : Uncounted(m) \in Nat
  <2>1. \A m \in AllMonths : Uncounted(m) = increments[m] + Handlers(m) + lost[m]
    BY DEF Uncounted, Handlers
  <2> QED BY <1>1, <2>1, ServingFinite DEF TypeOK
<1>3. \A m \in AllMonths : Handlers(m)' = 0
  <2>1. \A m \in AllMonths : Serving(m)' = {}
    BY <1>1 DEF Serving, At, Idle
  <2> QED BY <2>1, FS_EmptySet DEF Handlers
<1>4. TypeOK'
  <2>1. increments' \in [AllMonths -> Nat] /\ lost' \in [AllMonths -> Nat]
    BY <1>1, <1>2 DEF Zero
  <2>2. admitted' \in [Callers -> [0 .. MaxTime -> Nat]]
    BY <1>1 DEF Silence
  <2>3. /\ windows' \in [Callers -> [count : Nat, resetAt : Nat] \cup {NoWindow}]
        /\ req' \in [Workers -> Request \cup {Idle}]
    BY <1>1
  <2>4. faults' \in Nat
    BY <1>1 DEF TypeOK
  <2> QED BY <1>1, <2>1, <2>2, <2>3, <2>4 DEF TypeOK
<1>5. CountedOnce'
  <2>1. ASSUME NEW m \in AllMonths
        PROVE  served'[m] = counts'[m] + Uncounted(m)'
    <3>1. Uncounted(m)' = increments'[m] + Handlers(m)' + lost'[m]
      BY DEF Uncounted, Handlers
    <3>2. increments'[m] = 0 /\ lost'[m] = Uncounted(m)
      BY <1>1 DEF Zero
    <3>3. Uncounted(m)' = Uncounted(m)
      BY <1>2, <1>3, <3>1, <3>2
    <3> QED BY <1>1, <3>3 DEF CountedOnce
  <2> QED BY <2>1 DEF CountedOnce
<1> QED BY <1>1, <1>4, <1>5, OvershootKept DEF LInv

-----------------------------------------------------------------------------
(* The theorems.                                                           *)

LEMMA NextPreserves ==
  ASSUME LInv, [Next]_vars
  PROVE  LInv'
<1>1. CASE create \/ revoke \/ Cleanup \/ Tick \/ NewMonth \/ \E q \in Quotas : ChangePlan(q)
  BY <1>1, SurroundingsPreserve
<1>2. CASE \E w \in Workers : Routes(w) \/ CallsOf(w)
  <2>1. PICK w \in Workers : Routes(w) \/ CallsOf(w)
    BY <1>2
  <2>2. CASE Routes(w)
    BY <2>2, RoutesPreserve
  <2>3. CASE CallsOf(w)
    BY <2>3, LimitersPreserve, EnforceAPIQuotaPreserves, HandlerReturnsPreserves,
       FailOpenPreserves, HandlerPanicsPreserves DEF CallsOf
  <2> QED BY <2>1, <2>2, <2>3
<1>3. CASE \E m \in AllMonths : Increment(m) \/ IncrementFails(m)
  BY <1>3, IncrementsPreserve
<1>4. CASE Crash
  BY <1>4, CrashPreserves
<1>5. CASE UNCHANGED vars
  <2>1. /\ UNCHANGED <<now, month, keys, windows, quota, counts, increments, req, begun>>
        /\ UNCHANGED <<faults, admitted, served, lost, peak, top>>
    BY <1>5 DEF vars
  <2>2. TypeOK'
    BY <2>1 DEF LInv, TypeOK
  <2> QED BY <2>1, <2>2, SameRequests, CountsKept
<1> QED BY <1>1, <1>2, <1>3, <1>4, <1>5 DEF Next

\* The invariant holds in every state.
THEOREM Invariance == Spec => []LInv
<1>1. Init => LInv
  BY InitSatisfies
<1>2. LInv /\ [Next]_vars => LInv'
  BY NextPreserves
<1> QED BY <1>1, <1>2, PTL DEF Spec

\* Windows, counts and requests keep their types; no count becomes negative.
THEOREM LimitsTyped == Spec => []TypeOK
<1>1. LInv => TypeOK
  BY DEF LInv
<1> QED BY <1>1, Invariance, PTL

\* Every request that passed the quota check is in exactly one place: under way, about to
\* be counted, counted in the month it was checked for, or lost to a fault.
THEOREM RequestsAreCountedOnce == Spec => []CountedOnce
<1>1. LInv => CountedOnce
  BY DEF LInv
<1> QED BY <1>1, Invariance, PTL

\* The requests of a month exceed the highest quota in force by less than the most
\* requests that were uncounted at a time.
THEOREM OvershootIsBounded == Spec => []QuotaOvershoot
<1>1. LInv => QuotaOvershoot
  BY DEF LInv
<1> QED BY <1>1, Invariance, PTL

-----------------------------------------------------------------------------
(* The windows.                                                            *)

Ticks == 0 .. MaxTime
Least(a, b) == IF a < b THEN a ELSE b
\* How much later a window is opened than the one before it, at least.
Gap == Window - LockWait

\* What was let through after tick t; g is what a limiter let through at each.
After(g, t) == Total(g, {u \in Ticks : t < u})

\* Nobody waits for a mutex for long, and the time that was read is not in the future.
ShortWaits ==
  /\ now \in Ticks
  /\ \A w \in Workers : At(w, "lock") => req[w].at <= now /\ now <= req[w].at + LockWait

NothingLater == \A c \in Callers : After(admitted[c], now) = 0

\* A window's requests were let through since the time its first one had read.
Filled ==
  \A c \in Callers :
    windows[c] # NoWindow =>
      After(admitted[c], windows[c].resetAt - Window - 1) >= Least(windows[c].count, N[c])

\* c's window was opened at tick o, by a request that had waited, and the one before it
\* at tick q or earlier: what was let through after a tick is the later requests of the
\* one window, or those and all of the other.  Without a window, one opened now is far
\* enough from o.
Opened(c, o, q) ==
  LET win == windows[c]
      n == Least(win.count, N[c])
  IN
  IF win = NoWindow
  THEN now > o + Gap /\ After(admitted[c], o) <= N[c] - 1
  ELSE /\ win.count >= 1
       /\ o <= now /\ win.resetAt - Window <= o /\ o <= win.resetAt - Gap
       /\ q + Gap < o
       /\ After(admitted[c], o) <= n - 1
       /\ After(admitted[c], q) <= N[c] - 1 + n

TwoWindows == \A c \in Callers : \E o, q \in Int : Opened(c, o, q)

Spaced == ShortWaits /\ NothingLater /\ Filled /\ TwoWindows
WInv == LInv /\ Spaced

-----------------------------------------------------------------------------
(* Sums over ticks.                                                        *)

LEMMA TicksFinite == IsFiniteSet(Ticks) /\ Ticks \subseteq Int
<1>1. MaxTime \in Int
  BY LimitsAssumption
<1> QED BY <1>1, FS_Interval DEF Ticks

LEMMA AfterType ==
  ASSUME NEW g \in [Ticks -> Nat], NEW t \in Int
  PROVE  After(g, t) \in Nat
<1>1. IsFiniteSet(Ticks) /\ {u \in Ticks : t < u} \in SUBSET Ticks /\ Nat \in {Nat, Int}
  BY LimitsAssumption, FS_Interval DEF Ticks
<1>2. \A x \in Ticks : g[x] \in Nat
  OBVIOUS
<1> QED BY <1>1, <1>2, TotalInt DEF After

LEMMA AfterLater ==
  ASSUME NEW g \in [Ticks -> Nat], NEW s \in Int, NEW t \in Int, s <= t
  PROVE  After(g, t) <= After(g, s)
<1> DEFINE S == {u \in Ticks : s < u}
           T == {u \in Ticks : t < u}
<1>1. S \in SUBSET Ticks /\ T \in SUBSET S
  <2>1. ASSUME NEW u \in T PROVE u \in S
    BY TicksFinite
  <2> QED BY <2>1
<1>2. \A x \in Ticks : g[x] \in Nat
  OBVIOUS
<1>3. Total(g, T) <= Total(g, S)
  <2> HIDE DEF S, T
  <2> QED BY <1>1, <1>2, TicksFinite, TotalGrows
<1> QED BY <1>3 DEF After

LEMMA AfterRaise ==
  ASSUME NEW g \in [Ticks -> Nat], NEW n \in Ticks, NEW t \in Int
  PROVE  After([g EXCEPT ![n] = @ + 1], t) = After(g, t) + (IF t < n THEN 1 ELSE 0)
<1> DEFINE S == {u \in Ticks : t < u}
           h == [g EXCEPT ![n] = @ + 1]
<1>1. /\ S \in SUBSET Ticks /\ (n \in S <=> t < n)
      /\ \A y \in Ticks : g[y] \in Int
      /\ \A y \in Ticks : h[y] \in Int
      /\ \A y \in Ticks : y # n => h[y] = g[y]
      /\ h[n] = g[n] + 1
  OBVIOUS
<1>2. Total(h, S) = Total(g, S) + (IF n \in S THEN 1 ELSE 0)
  <2>1. IsFiniteSet(Ticks) /\ n \in Ticks /\ S \in SUBSET Ticks
    BY <1>1, TicksFinite
  <2> HIDE DEF S, h
  <2> QED BY <1>1, <2>1, TotalRaise
<1> QED BY <1>1, <1>2 DEF After

\* What the properties count.
LEMMA AdmittedIsTotal ==
  ASSUME NEW c \in Callers, NEW first \in Int, NEW last \in Int
  PROVE  AdmittedIn(c, first, last) = Total(admitted[c], {t \in Ticks : first <= t /\ t <= last})
BY DEF AdmittedIn, Total, Ticks

LEMMA AdmittedAtMost ==
  ASSUME TypeOK, NEW c \in Callers, NEW first \in Int, NEW last \in Int, NEW t \in Int, t < first
  PROVE  AdmittedIn(c, first, last) <= After(admitted[c], t)
<1> DEFINE S == {u \in Ticks : first <= u /\ u <= last}
           A == {u \in Ticks : t < u}
<1>1. A \in SUBSET Ticks /\ S \in SUBSET A
  <2>1. ASSUME NEW u \in S PROVE u \in A
    BY TicksFinite
  <2> QED BY <2>1
<1>2. \A x \in Ticks : admitted[c][x] \in Nat
  BY DEF TypeOK, Ticks
<1>3. Total(admitted[c], S) <= Total(admitted[c], A)
  <2> HIDE DEF S, A
  <2> QED BY <1>1, <1>2, TicksFinite, TotalGrows
<1> QED BY <1>3, AdmittedIsTotal DEF After

\* Nothing is let through later than now.
LEMMA AdmittedAtLeast ==
  ASSUME TypeOK, ShortWaits, NothingLater, NEW c \in Callers, NEW first \in Int
  PROVE  AdmittedIn(c, first, now) = After(admitted[c], first - 1)
<1> DEFINE g == admitted[c]
           S == {u \in Ticks : first <= u /\ u <= now}
           L == {u \in Ticks : now < u}
           A == {u \in Ticks : first - 1 < u}
<1>1. g \in [Ticks -> Nat] /\ now \in Int
  BY DEF TypeOK, Ticks
<1>2. After(g, now) = 0 /\ Total(g, L) = 0
  BY DEF NothingLater, After
<1>3. CASE first - 1 <= now
  <2>1. /\ IsFiniteSet(Ticks) /\ \A x \in Ticks : g[x] \in Int /\ g[x] \in Nat
        /\ S \in SUBSET Ticks /\ L \in SUBSET Ticks /\ S \cap L = {} /\ S \cup L = A
    <3>1. \A u \in Ticks : u \in Int /\ g[u] \in Int /\ g[u] \in Nat
      BY <1>1, TicksFinite
    <3>2. S \cap L = {} /\ S \cup L = A
      BY <1>1, <1>3, <3>1
    <3> QED BY <3>1, <3>2, TicksFinite
  <2>2. Total(g, S) \in Nat
    <3>1. Nat \in {Nat, Int}
      OBVIOUS
    <3> HIDE DEF S, g
    <3> QED BY <2>1, <3>1, TotalInt
  <2>3. Total(g, S \cup L) = Total(g, S) + Total(g, L)
    <3> HIDE DEF S, L, g
    <3> QED BY <2>1, TotalUnion
  <2>4. Total(g, A) = Total(g, S)
    <3> HIDE DEF S, L, A, g
    <3> QED BY <1>2, <2>1, <2>2, <2>3
  <2> QED BY <1>1, <2>4, AdmittedIsTotal DEF After
<1>4. CASE now < first - 1
  <2>1. S = {}
    BY <1>1, <1>4 DEF Ticks
  <2>2. Total(g, S) = 0
    BY <2>1, TotalEmpty
  <2>3. After(g, first - 1) <= 0 /\ After(g, first - 1) \in Nat
    <3> HIDE DEF g
    <3> QED BY <1>1, <1>2, <1>4, AfterType, AfterLater
  <2>4. After(g, first - 1) = 0
    BY <2>3
  <2> QED BY <1>1, <2>2, <2>4, AdmittedIsTotal
<1> QED BY <1>1, <1>3, <1>4

-----------------------------------------------------------------------------
(* The steps.                                                              *)

\* A step that leaves the limiters and the clock alone.
LEMMA WindowsKept ==
  ASSUME WInv, UNCHANGED <<now, windows, admitted>>,
         \A v \in Workers : req'[v].pc = "lock" => req'[v] = req[v] \/ req'[v].at = now
  PROVE  Spaced'
<1>1. now \in Nat /\ LockWait \in Nat
  BY LimitsAssumption DEF WInv, LInv, TypeOK
<1>2. ShortWaits'
  BY <1>1 DEF WInv, Spaced, ShortWaits, At
<1>3. NothingLater' /\ Filled'
  BY DEF WInv, Spaced, NothingLater, Filled
<1>4. \A c \in Callers, o \in Int, q \in Int : Opened(c, o, q)' <=> Opened(c, o, q)
  BY DEF Opened
<1> QED BY <1>2, <1>3, <1>4 DEF WInv, Spaced, TwoWindows

\* One goroutine's request becomes s.
LEMMA BecomeKeeps ==
  ASSUME WInv, UNCHANGED <<now, windows, admitted>>, NEW w \in Workers, NEW s, Become(w, s),
         s.pc = "lock" => s.at = now
  PROVE  Spaced'
<1>1. \A v \in Workers : req'[v] = IF v = w THEN s ELSE req[v]
  BY DEF WInv, LInv, TypeOK, Become
<1> QED BY <1>1, WindowsKept

LEMMA TickSpaced ==
  ASSUME WInv, Tick
  PROVE  Spaced'
<1>1. /\ now \in Ticks /\ now \in Nat /\ now' = now + 1 /\ now' \in Ticks
      /\ UNCHANGED <<req, windows, admitted>>
  BY LimitsAssumption DEF WInv, LInv, TypeOK, Tick, Spaced, ShortWaits, Ticks, history
<1>2. ShortWaits'
  <2>1. ASSUME NEW w \in Workers, At(w, "lock")
        PROVE  req[w].at <= now + 1 /\ now + 1 <= req[w].at + LockWait
    <3>1. req[w].at \in Nat
      BY <2>1 DEF WInv, LInv, TypeOK, Request, At, Idle
    <3> QED BY <1>1, <2>1, <3>1, LimitsAssumption DEF Tick, WInv, Spaced, ShortWaits
  <2> QED BY <1>1, <2>1 DEF ShortWaits, At
<1>3. \A c \in Callers : admitted[c] \in [Ticks -> Nat]
  BY DEF WInv, LInv, TypeOK, Ticks
<1>4. NothingLater'
  <2>1. ASSUME NEW c \in Callers
        PROVE  After(admitted[c], now + 1) = 0
    <3>1. After(admitted[c], now) = 0
      BY DEF WInv, Spaced, NothingLater
    <3>2. After(admitted[c], now + 1) <= After(admitted[c], now) /\ After(admitted[c], now + 1) \in Nat
      BY <1>1, <1>3, AfterLater, AfterType
    <3> QED BY <3>1, <3>2
  <2> QED BY <1>1, <2>1 DEF NothingLater
<1>5. Filled'
  BY <1>1 DEF WInv, Spaced, Filled
<1>6. TwoWindows'
  <2>1. ASSUME NEW c \in Callers, NEW o \in Int, NEW q \in Int, Opened(c, o, q)
        PROVE  Opened(c, o, q)'
    <3>1. Gap \in Int
      BY LimitsAssumption DEF Gap
    <3>2. CASE windows[c] = NoWindow
      BY <1>1, <2>1, <3>1, <3>2 DEF Opened
    <3>3. CASE windows[c] # NoWindow
      BY <1>1, <2>1, <3>1, <3>3 DEF Opened
    <3> QED BY <3>2, <3>3
  <2> QED BY <1>1, <2>1 DEF WInv, Spaced, TwoWindows
<1> QED BY <1>2, <1>4, <1>5, <1>6 DEF Spaced

\* A window that the cleaner removes has ended.
LEMMA CleanupSpaced ==
  ASSUME WInv, Cleanup
  PROVE  Spaced'
<1>1. /\ UNCHANGED <<now, req, admitted>>
      /\ windows' = [c \in Callers |-> IF Stale(c) THEN NoWindow ELSE windows[c]]
  BY DEF Cleanup, clocks, history
<1>2. ShortWaits' /\ NothingLater'
  BY <1>1 DEF WInv, Spaced, ShortWaits, NothingLater, At
<1>3. Filled'
  BY <1>1 DEF WInv, Spaced, Filled
<1>4. ASSUME NEW c \in Callers
      PROVE  \E o, q \in Int : Opened(c, o, q)'
  <2>1. PICK o \in Int, q \in Int : Opened(c, o, q)
    BY DEF WInv, Spaced, TwoWindows
  <2>2. CASE windows'[c] = windows[c]
    BY <1>1, <2>1, <2>2 DEF Opened
  <2>3. CASE windows'[c] # windows[c]
    <3> DEFINE win == windows[c]
    <3>1. windows'[c] = NoWindow /\ win # NoWindow /\ now > win.resetAt
      BY <1>1, <2>3 DEF Stale, Ended
    <3>2. win.count \in Nat /\ win.resetAt \in Nat /\ now \in Nat /\ N[c] \in Nat
      BY <3>1, LimitsAssumption DEF WInv, LInv, TypeOK
    <3>3. admitted[c] \in [Ticks -> Nat] /\ Gap \in Int
      BY LimitsAssumption DEF WInv, LInv, TypeOK, Ticks, Gap
    <3>4. o <= win.resetAt - Gap /\ After(admitted[c], o) <= Least(win.count, N[c]) - 1
      BY <2>1, <3>1 DEF Opened
    <3>5. now > o + Gap /\ After(admitted[c], o) <= N[c] - 1
      <4>1. After(admitted[c], o) \in Nat
        BY <3>3, AfterType
      <4> QED BY <3>1, <3>2, <3>3, <3>4, <4>1 DEF Least
    <3>6. Opened(c, o, q)'
      BY <1>1, <3>1, <3>5 DEF Opened
    <3> QED BY <3>6
  <2> QED BY <2>2, <2>3
<1> QED BY <1>2, <1>3, <1>4 DEF Spaced, TwoWindows

\* The limiters forget everything, and so does what they are accountable for.
LEMMA CrashSpaced ==
  ASSUME WInv, Crash
  PROVE  Spaced'
<1>1. /\ UNCHANGED now /\ admitted' = Silence /\ windows' = [c \in Callers |-> NoWindow]
      /\ req' = [w \in Workers |-> Idle]
  BY DEF Crash, clocks
<1>2. ShortWaits'
  BY <1>1 DEF WInv, Spaced, ShortWaits, At, Idle
<1>3. ASSUME NEW c \in Callers, NEW t \in Int
      PROVE  After(admitted'[c], t) = 0
  <2> DEFINE S == {u \in Ticks : t < u}
             g == admitted'[c]
  <2>1. S \in SUBSET Ticks /\ \A u \in Ticks : g[u] = 0
    BY <1>1 DEF Silence, Ticks
  <2>2. Total(g, S) = 0
    <3> HIDE DEF S, g
    <3> QED BY <2>1, TicksFinite, TotalZero
  <2> QED BY <2>2 DEF After
<1>4. NothingLater' /\ Filled'
  <2>1. now \in Int
    BY DEF WInv, LInv, TypeOK
  <2> QED BY <1>1, <1>3, <2>1 DEF NothingLater, Filled
<1>5. TwoWindows'
  <2>1. ASSUME NEW c \in Callers
        PROVE  \E o, q \in Int : Opened(c, o, q)'
    <3>1. now \in Int /\ Gap \in Int /\ N[c] \in Nat \ {0}
      BY LimitsAssumption DEF WInv, LInv, TypeOK, Gap
    <3>2. PICK o \in Int : now > o + Gap
      <4>1. now - Gap - 1 \in Int /\ now > (now - Gap - 1) + Gap
        BY <3>1
      <4> QED BY <4>1
    <3>3. After(admitted'[c], o) = 0
      BY <1>3
    <3>4. Opened(c, o, o)'
      BY <1>1, <3>1, <3>2, <3>3 DEF Opened
    <3> QED BY <3>2, <3>4
  <2> QED BY <2>1 DEF TwoWindows
<1> QED BY <1>2, <1>4, <1>5 DEF Spaced

\* A request that holds the mutex has read the clock, and not long ago.
LEMMA ThrottleTimes ==
  ASSUME WInv, NEW w \in Workers, NEW next, Throttle(w, next)
  PROVE  /\ req[w].caller \in Callers /\ req[w].at \in Nat
         /\ req[w].at <= now /\ now <= req[w].at + LockWait
         /\ now \in Nat /\ now' = now
<1>1. TypeOK /\ ShortWaits /\ At(w, "lock")
  BY DEF WInv, LInv, Spaced, Throttle
<1>2. req[w] \in Request
  BY <1>1 DEF TypeOK, At, Idle
<1> QED BY <1>1, <1>2 DEF Request, TypeOK, ShortWaits, Throttle, clocks

LEMMA OthersKept ==
  ASSUME WInv, NEW w \in Workers, NEW next, Throttle(w, next), NEW d \in Callers, d # req[w].caller
  PROVE  windows'[d] = windows[d] /\ admitted'[d] = admitted[d]
BY DEF WInv, LInv, TypeOK, Throttle, Admit, Deny

\* The limiter of one caller opens a window, lets one more through, or denies.
LEMMA ThrottleCases ==
  ASSUME WInv, NEW w \in Workers, NEW next, Throttle(w, next), NEW c, c = req[w].caller
  PROVE  \/ /\ windows[c] = NoWindow \/ req[w].at > windows[c].resetAt
            /\ windows'[c] = [count |-> 1, resetAt |-> req[w].at + Window]
            /\ Admit(w, next)
         \/ /\ windows[c] \in [count : Nat, resetAt : Nat] /\ windows[c] # NoWindow
            /\ windows'[c] \in [count : Nat, resetAt : Nat]
            /\ req[w].at <= windows[c].resetAt
            /\ windows'[c].count = windows[c].count + 1
            /\ windows'[c].resetAt = windows[c].resetAt
            /\ \/ windows[c].count + 1 <= N[c] /\ Admit(w, next)
               \/ windows[c].count + 1 > N[c] /\ Deny(w)
<1>3. c \in Callers /\ req[w].at \in Nat /\ N[c] \in Nat
  BY ThrottleTimes, LimitsAssumption
<1>6. windows \in [Callers -> [count : Nat, resetAt : Nat] \cup {NoWindow}]
  BY DEF WInv, LInv, TypeOK
<1>7. CASE windows[c] = NoWindow \/ Ended(c, req[w].at)
  <2>1. /\ windows' = [windows EXCEPT ![c] = [count |-> 1, resetAt |-> req[w].at + Window]]
        /\ Admit(w, next)
    BY <1>7 DEF Throttle
  <2> QED BY <1>3, <1>6, <1>7, <2>1 DEF Ended
<1>8. CASE ~ (windows[c] = NoWindow \/ Ended(c, req[w].at))
  <2>1. /\ windows' = [windows EXCEPT ![c].count = @ + 1]
        /\ IF Over(c, windows[c].count + 1) THEN Deny(w) ELSE Admit(w, next)
    BY <1>8 DEF Throttle
  <2>2. windows[c] \in [count : Nat, resetAt : Nat]
    BY <1>3, <1>6, <1>8
  <2>3. windows'[c] = [windows[c] EXCEPT !.count = @ + 1]
    BY <1>3, <1>6, <2>1
  <2>4. /\ windows'[c] \in [count : Nat, resetAt : Nat]
        /\ windows'[c].count = windows[c].count + 1
        /\ windows'[c].resetAt = windows[c].resetAt
    BY <2>2, <2>3
  <2>6. req[w].at <= windows[c].resetAt
    BY <1>3, <1>8, <2>2 DEF Ended
  <2>7. \/ windows[c].count + 1 <= N[c] /\ Admit(w, next)
        \/ windows[c].count + 1 > N[c] /\ Deny(w)
    BY <1>3, <2>1, <2>2 DEF Over
  <2> QED BY <1>8, <2>2, <2>4, <2>6, <2>7
<1> QED BY <1>7, <1>8

\* What a request that is let through adds to the sums.
LEMMA AdmitRaises ==
  ASSUME WInv, NEW w \in Workers, NEW next, Admit(w, next), req[w].caller \in Callers
  PROVE  \A t \in Int : After(admitted'[req[w].caller], t)
                          = After(admitted[req[w].caller], t) + (IF t < now THEN 1 ELSE 0)
<1> DEFINE c == req[w].caller
           g == admitted[c]
<1>1. admitted \in [Callers -> [Ticks -> Nat]] /\ now \in Ticks
  BY DEF WInv, LInv, TypeOK, Spaced, ShortWaits, Ticks
<1>2. g \in [Ticks -> Nat]
  BY <1>1
<1>3. admitted'[c] = [g EXCEPT ![now] = @ + 1]
  BY <1>1 DEF Admit
<1> HIDE DEF g
<1> QED BY <1>1, <1>2, <1>3, AfterRaise DEF g

LEMMA ThrottleSpaced ==
  ASSUME WInv, NEW w \in Workers, NEW next, next.pc # "lock", Throttle(w, next)
  PROVE  Spaced'
<1>0. PICK c : c = req[w].caller
  OBVIOUS
<1>1. PICK a : a = req[w].at
  OBVIOUS
<1> DEFINE win == windows[c]
           new == windows'[c]
           A(t) == After(admitted[c], t)
           B(t) == After(admitted'[c], t)
           Opens == /\ win = NoWindow \/ a > win.resetAt
                    /\ new = [count |-> 1, resetAt |-> a + Window]
           Joins == /\ win \in [count : Nat, resetAt : Nat] /\ win # NoWindow
                    /\ new \in [count : Nat, resetAt : Nat]
                    /\ new.count = win.count + 1 /\ new.resetAt = win.resetAt
           Raised == \A t \in Int : B(t) = A(t) + (IF t < now THEN 1 ELSE 0)
<1>2. /\ c \in Callers /\ a \in Nat /\ a <= now /\ now <= a + LockWait
      /\ now' = now /\ now \in Int /\ now' \in Int
      /\ \A d \in Callers : d # c => windows'[d] = windows[d] /\ admitted'[d] = admitted[d]
      /\ N[c] \in Nat \ {0} /\ Gap = Window - LockWait /\ Window \in Nat /\ LockWait \in Nat
  <2>1. c \in Callers /\ a \in Nat /\ a <= now /\ now <= a + LockWait /\ now' = now
    BY <1>0, <1>1, ThrottleTimes
  <2>3. \A d \in Callers : d # c => windows'[d] = windows[d] /\ admitted'[d] = admitted[d]
    BY <1>0, OthersKept
  <2>2. now \in Int
    BY DEF WInv, LInv, TypeOK
  <2> QED BY <2>1, <2>2, <2>3, LimitsAssumption DEF Gap
<1>3. \/ Opens /\ Raised
      \/ Joins /\ win.count + 1 <= N[c] /\ Raised
      \/ Joins /\ win.count + 1 > N[c] /\ \A t \in Int : B(t) = A(t)
  <2>1. \/ Opens /\ Admit(w, next)
        \/ Joins /\ win.count + 1 <= N[c] /\ Admit(w, next)
        \/ Joins /\ win.count + 1 > N[c] /\ Deny(w)
    BY <1>0, <1>1, ThrottleCases
  <2>2. Admit(w, next) => Raised
    BY <1>0, <1>2, AdmitRaises
  <2>3. Deny(w) => \A t \in Int : B(t) = A(t)
    BY DEF Deny
  <2> QED BY <2>1, <2>2, <2>3
<1>4. ShortWaits'
  <2>1. Become(w, next) \/ Become(w, Idle)
    BY DEF Throttle, Admit, Deny, Return
  <2>2. \A v \in Workers : v # w => req'[v] = req[v]
    BY <2>1 DEF Become, WInv, LInv, TypeOK
  <2>3. req'[w].pc # "lock"
    BY <2>1 DEF Become, WInv, LInv, TypeOK, Idle
  <2> QED BY <1>2, <2>2, <2>3 DEF WInv, Spaced, ShortWaits, At
<1>5. \A t \in Int : A(t) \in Nat
  <2>1. admitted[c] \in [Ticks -> Nat]
    BY <1>2 DEF WInv, LInv, TypeOK, Ticks
  <2> QED BY <2>1, AfterType
<1>6. PICK o \in Int, q \in Int : Opened(c, o, q)
  BY <1>2 DEF WInv, Spaced, TwoWindows
<1>7. /\ A(now) = 0
      /\ win # NoWindow => A(win.resetAt - Window - 1) >= Least(win.count, N[c])
  BY <1>2 DEF WInv, Spaced, NothingLater, Filled
<1>8. /\ win = NoWindow => now > o + Gap /\ A(o) <= N[c] - 1
      /\ win # NoWindow =>
           /\ win.count >= 1
           /\ o <= now /\ win.resetAt - Window <= o /\ o <= win.resetAt - Gap
           /\ q + Gap < o
           /\ A(o) <= Least(win.count, N[c]) - 1
           /\ A(q) <= N[c] - 1 + Least(win.count, N[c])
  BY <1>6 DEF Opened
<1>9. win = NoWindow \/ (win.count \in Nat /\ win.resetAt \in Nat)
  BY <1>2 DEF WInv, LInv, TypeOK
<1>10. NoWindow # new
  <2>1. NoWindow.resetAt \notin Nat /\ new.resetAt \in Nat
    BY <1>2, <1>3 DEF NoWindow
  <2> QED BY <2>1
<1> HIDE DEF A, B, win, new
<1>11. B(now) = 0
  BY <1>2, <1>3, <1>5, <1>7
<1>12. B(new.resetAt - Window - 1) >= Least(new.count, N[c])
  <2>1. CASE Opens /\ Raised
    BY <1>2, <1>5, <2>1 DEF Least
  <2>2. CASE Joins /\ win.count + 1 <= N[c] /\ Raised
    BY <1>2, <1>5, <1>7, <1>8, <2>2 DEF Least
  <2>3. CASE Joins /\ win.count + 1 > N[c] /\ \A t \in Int : B(t) = A(t)
    BY <1>2, <1>5, <1>7, <1>8, <2>3 DEF Least
  <2> QED BY <1>3, <2>1, <2>2, <2>3
<1> DEFINE Is(x, y) == LET n == Least(new.count, N[c]) IN
                       /\ new.count >= 1
                       /\ x <= now /\ new.resetAt - Window <= x /\ x <= new.resetAt - Gap
                       /\ y + Gap < x
                       /\ B(x) <= n - 1
                       /\ B(y) <= N[c] - 1 + n
<1>13. Is(now, o) \/ Is(o, q)
  <2>1. CASE Opens /\ Raised
    <3>1. now > o + Gap
      BY <1>2, <1>8, <1>9, <2>1
    <3>2. A(o) <= N[c] - 1
      BY <1>2, <1>5, <1>8, <1>9 DEF Least
    <3>3. B(o) <= N[c]
      BY <1>2, <1>5, <2>1, <3>2
    <3>4. Is(now, o)
      BY <1>2, <1>11, <2>1, <3>1, <3>3 DEF Least
    <3> QED BY <3>4
  <2>2. CASE Joins /\ win.count + 1 <= N[c] /\ Raised
    <3>1. Is(o, q)
      BY <1>2, <1>5, <1>8, <2>2 DEF Least
    <3> QED BY <3>1
  <2>3. CASE Joins /\ win.count + 1 > N[c] /\ \A t \in Int : B(t) = A(t)
    <3>1. Is(o, q)
      BY <1>2, <1>5, <1>8, <2>3 DEF Least
    <3> QED BY <3>1
  <2> QED BY <1>3, <2>1, <2>2, <2>3
<1>14. NothingLater'
  <2>1. \A d \in Callers : After(admitted'[d], now) = 0
    <3>1. After(admitted'[c], now) = 0
      BY <1>11 DEF B
    <3> QED BY <1>2, <3>1 DEF WInv, Spaced, NothingLater
  <2> QED BY <1>2, <2>1 DEF NothingLater
<1>15. Filled'
  BY <1>2, <1>12 DEF WInv, Spaced, Filled, B, new
<1>16. TwoWindows'
  <2>1. ASSUME NEW x \in Int, NEW y \in Int, Is(x, y)
        PROVE  Opened(c, x, y)'
    <3>1. windows'[c] # NoWindow
      BY <1>10 DEF new
    <3> QED BY <1>2, <2>1, <3>1 DEF Opened, B, new
  <2>2. ASSUME NEW d \in Callers, d # c, NEW x \in Int, NEW y \in Int, Opened(d, x, y)
        PROVE  Opened(d, x, y)'
    BY <1>2, <2>2 DEF Opened
  <2>3. \E x, y \in Int : Opened(c, x, y)'
    BY <1>2, <1>6, <1>13, <2>1
  <2> QED BY <2>2, <2>3 DEF TwoWindows, WInv, Spaced
<1> QED BY <1>4, <1>14, <1>15, <1>16 DEF Spaced

LEMMA NextSpaced ==
  ASSUME WInv, [Next]_vars
  PROVE  Spaced'
<1>1. CASE Tick \/ Cleanup \/ Crash
  BY <1>1, TickSpaced, CleanupSpaced, CrashSpaced
<1>2. CASE \/ create \/ revoke \/ NewMonth \/ UNCHANGED vars
           \/ \E q \in Quotas : ChangePlan(q)
           \/ \E m \in AllMonths : Increment(m) \/ IncrementFails(m)
  <2>1. UNCHANGED <<now, windows, admitted, req>>
    BY <1>2 DEF create, CreateKey, revoke, Revoke, NewMonth, vars, ChangePlan, Increment,
                IncrementFails, clocks, database, history
  <2> QED BY <2>1, WindowsKept
<1>3. CASE \E w \in Workers : Routes(w) \/ CallsOf(w)
  <2>1. PICK w \in Workers : Routes(w) \/ CallsOf(w)
    BY <1>3
  <2>2. CASE Routes(w)
    <3>1. PICK c \in Callers : Arrive(w, c)
      BY <2>2, LimitsAssumption DEF Routes, AuthenticateAPIKey, AuthRequest, Callers
    <3> DEFINE s == [pc |-> "lock", caller |-> c, at |-> now, month |-> 0]
    <3>2. Become(w, s) /\ s.at = now /\ UNCHANGED <<now, windows, admitted>>
      BY <3>1 DEF Arrive, clocks, history
    <3> HIDE DEF s
    <3> QED BY <3>2, BecomeKeeps
  <2>3. CASE RateLimitPerProject(w) \/ RateLimitPerIP(w)
    <3>1. CASE RateLimitPerProject(w)
      <4> DEFINE s == [req[w] EXCEPT !.pc = "quota", !.at = 0, !.month = month]
      <4>1. Throttle(w, s)
        BY <3>1 DEF RateLimitPerProject
      <4>2. req[w] \in Request
        BY <4>1 DEF Throttle, WInv, LInv, TypeOK, At, Idle
      <4>3. s.pc # "lock"
        BY <4>2 DEF Request
      <4> HIDE DEF s
      <4> QED BY <4>1, <4>3, ThrottleSpaced
    <3>2. CASE RateLimitPerIP(w)
      <4>1. Throttle(w, Idle) /\ Idle.pc # "lock"
        BY <3>2 DEF RateLimitPerIP, Idle
      <4> QED BY <4>1, ThrottleSpaced
    <3> QED BY <2>3, <3>1, <3>2
  <2>4. CASE EnforceAPIQuota(w)
    <3> DEFINE s == [req[w] EXCEPT !.pc = "serve"]
    <3>1. At(w, "quota") /\ (Become(w, s) \/ Become(w, Idle)) /\ UNCHANGED <<now, windows, admitted>>
      BY <2>4 DEF EnforceAPIQuota, Return, clocks
    <3>2. req[w] \in Request
      BY <3>1 DEF WInv, LInv, TypeOK, At, Idle
    <3>3. s.pc # "lock" /\ Idle.pc # "lock"
      BY <3>2 DEF Request, Idle
    <3> HIDE DEF s
    <3> QED BY <3>1, <3>3, BecomeKeeps
  <2>5. CASE HandlerReturns(w) \/ FailOpen(w) \/ HandlerPanics(w)
    <3>1. Become(w, Idle) /\ UNCHANGED <<now, windows, admitted>> /\ Idle.pc # "lock"
      BY <2>5 DEF HandlerReturns, FailOpen, HandlerPanics, Return, clocks, history, Idle
    <3> QED BY <3>1, BecomeKeeps
  <2> QED BY <2>1, <2>2, <2>3, <2>4, <2>5 DEF CallsOf
<1> QED BY <1>1, <1>2, <1>3 DEF Next

LEMMA InitSpaced ==
  ASSUME Init
  PROVE  Spaced
<1>1. /\ now = 0 /\ now \in Ticks
      /\ \A c \in Callers : windows[c] = NoWindow /\ N[c] \in Nat \ {0}
      /\ \A w \in Workers : ~At(w, "lock")
  BY LimitsAssumption DEF Init, Ticks, At, Idle
<1>2. ASSUME NEW c \in Callers, NEW t \in Int
      PROVE  After(admitted[c], t) = 0
  <2> DEFINE S == {u \in Ticks : t < u}
             g == admitted[c]
  <2>1. S \in SUBSET Ticks /\ \A u \in Ticks : g[u] = 0
    BY DEF Init, Silence, Ticks
  <2>2. Total(g, S) = 0
    <3> HIDE DEF S, g
    <3> QED BY <2>1, TicksFinite, TotalZero
  <2> QED BY <2>2 DEF After
<1>3. ASSUME NEW c \in Callers
      PROVE  \E o, q \in Int : Opened(c, o, q)
  <2>1. Gap \in Int
    BY LimitsAssumption DEF Gap
  <2>2. PICK o \in Int : 0 > o + Gap
    <3>1. 0 - Gap - 1 \in Int /\ 0 > (0 - Gap - 1) + Gap
      BY <2>1
    <3> QED BY <3>1
  <2>3. After(admitted[c], o) = 0
    BY <1>2
  <2>4. Opened(c, o, o)
    BY <1>1, <2>2, <2>3 DEF Opened
  <2> QED BY <2>4
<1>4. NothingLater
  BY <1>1, <1>2 DEF NothingLater
<1> QED BY <1>1, <1>3, <1>4 DEF Spaced, ShortWaits, Filled, TwoWindows

\* The invariant of the windows holds in every state.
THEOREM WindowsInvariance == Spec => []WInv
<1>1. Init => WInv
  BY InitSatisfies, InitSpaced DEF WInv
<1>2. WInv /\ [Next]_vars => WInv'
  BY NextPreserves, NextSpaced DEF WInv
<1> QED BY <1>1, <1>2, PTL DEF Spec

-----------------------------------------------------------------------------
(* What the limiters promise.                                              *)

LEMMA SpacedBounds ==
  ASSUME WInv
  PROVE  IntervalBound
<1>1. ASSUME NEW c \in Callers
      PROVE  AdmittedIn(c, now - (Window - LockWait), now) < 2 * N[c]
  <2>1. /\ TypeOK /\ now \in Int /\ Gap \in Int /\ Gap = Window - LockWait
        /\ N[c] \in Nat \ {0} /\ now - Gap \in Int
    BY LimitsAssumption DEF WInv, LInv, TypeOK, Gap
  <2>2. admitted[c] \in [Ticks -> Nat]
    BY <2>1 DEF TypeOK, Ticks
  <2>3. PICK o \in Int, q \in Int : Opened(c, o, q)
    BY DEF WInv, Spaced, TwoWindows
  <2>4. After(admitted[c], o) \in Nat /\ After(admitted[c], q) \in Nat
    BY <2>2, AfterType
  <2> DEFINE a == AdmittedIn(c, now - Gap, now)
             n == Least(windows[c].count, N[c])
  <2>5. a \in Int
    <3> DEFINE S == {t \in Ticks : now - Gap <= t /\ t <= now}
    <3>1. S \in SUBSET Ticks /\ Nat \in {Nat, Int} /\ \A x \in Ticks : admitted[c][x] \in Nat
      BY <2>2
    <3>2. Total(admitted[c], S) \in Nat
      <4> HIDE DEF S
      <4> QED BY <3>1, TicksFinite, TotalInt
    <3>3. a = Total(admitted[c], S)
      BY <2>1, AdmittedIsTotal
    <3> QED BY <3>2, <3>3
  <2>6. CASE o < now - Gap
    <3>1. a <= After(admitted[c], o)
      BY <2>1, <2>6, AdmittedAtMost
    <3>2. After(admitted[c], o) <= N[c] - 1
      <4>1. CASE windows[c] = NoWindow
        BY <2>3, <4>1 DEF Opened
      <4>2. CASE windows[c] # NoWindow
        <5>1. After(admitted[c], o) <= n - 1 /\ windows[c].count \in Nat
          BY <2>1, <2>3, <4>2 DEF Opened, TypeOK
        <5> QED BY <2>1, <2>4, <5>1 DEF Least
      <4> QED BY <4>1, <4>2
    <3> HIDE DEF a
    <3>3. a < 2 * N[c]
      BY <2>1, <2>4, <2>5, <3>1, <3>2
    <3> QED BY <2>1, <3>3 DEF a
  <2>7. CASE ~(o < now - Gap)
    <3>1. windows[c] # NoWindow
      BY <2>1, <2>3, <2>7 DEF Opened
    <3>2. o <= now /\ q + Gap < o /\ After(admitted[c], q) <= N[c] - 1 + n
      BY <2>3, <3>1 DEF Opened
    <3>3. n <= N[c] /\ n \in Nat
      BY <2>1, <3>1 DEF Least, TypeOK
    <3>4. q < now - Gap
      BY <2>1, <3>2
    <3>5. a <= After(admitted[c], q)
      BY <2>1, <3>4, AdmittedAtMost
    <3> HIDE DEF a, n
    <3>6. a < 2 * N[c]
      BY <2>1, <2>4, <2>5, <3>2, <3>3, <3>5
    <3> QED BY <2>1, <3>6 DEF a
  <2> QED BY <2>6, <2>7
<1> QED BY <1>1 DEF IntervalBound

\* No caller gets twice its limit through within the length of a window, less the time
\* a request may wait for the mutex, whatever the cleaner and other requests do.
THEOREM IntervalsAreBounded == Spec => []IntervalBound
<1>1. WInv => IntervalBound
  BY SpacedBounds
<1> QED BY <1>1, WindowsInvariance, PTL

\* A request is only denied by the limiter, when its window is full.
LEMMA DeniedIsThrottled ==
  ASSUME WInv, [Next]_vars, NEW w \in Workers, Denied(w)
  PROVE  \E next : Throttle(w, next)
<1>0. At(w, "lock") /\ req'[w] # req[w] /\ faults' = faults /\ faults \in Nat
  BY DEF Denied, At, WInv, LInv, TypeOK
<1>1. CASE \/ Tick \/ Cleanup \/ create \/ revoke \/ NewMonth \/ UNCHANGED vars
           \/ \E q \in Quotas : ChangePlan(q)
           \/ \E m \in AllMonths : Increment(m) \/ IncrementFails(m)
  BY <1>0, <1>1 DEF Tick, Cleanup, create, CreateKey, revoke, Revoke, NewMonth, vars,
                    ChangePlan, Increment, IncrementFails
<1>2. CASE Crash
  BY <1>0, <1>2 DEF Crash
<1>3. CASE \E v \in Workers : Routes(v) \/ CallsOf(v)
  <2>1. PICK v \in Workers : Routes(v) \/ CallsOf(v)
    BY <1>3
  <2>2. \E s : Become(v, s)
    BY <2>1 DEF Routes, AuthenticateAPIKey, AuthRequest, Arrive, CallsOf, RateLimitPerProject,
                RateLimitPerIP, Throttle, Admit, Deny, EnforceAPIQuota, HandlerReturns, FailOpen,
                HandlerPanics, Return
  <2>3. v = w
    BY <1>0, <2>2 DEF Become, WInv, LInv, TypeOK
  <2>4. CASE RateLimitPerProject(w) \/ RateLimitPerIP(w)
    BY <2>4 DEF RateLimitPerProject, RateLimitPerIP
  <2>5. CASE Routes(w) \/ EnforceAPIQuota(w) \/ HandlerReturns(w) \/ FailOpen(w) \/ HandlerPanics(w)
    BY <1>0, <2>5 DEF Routes, AuthenticateAPIKey, AuthRequest, Arrive, EnforceAPIQuota,
                      HandlerReturns, FailOpen, HandlerPanics, At
  <2> QED BY <2>1, <2>3, <2>4, <2>5 DEF CallsOf
<1> QED BY <1>1, <1>2, <1>3 DEF Next

LEMMA FullWhenDenied ==
  ASSUME WInv, [Next]_vars, NEW w \in Workers, Denied(w)
  PROVE  AdmittedIn(req[w].caller, now - Window - LockWait, now) >= N[req[w].caller]
<1>1. PICK next : Throttle(w, next)
  BY DeniedIsThrottled
<1>2. PICK c : c = req[w].caller
  OBVIOUS
<1> DEFINE A(t) == After(admitted[c], t)
           first == now - Window - LockWait
           win == windows[c]
<1>3. /\ c \in Callers /\ req[w].at \in Nat /\ now \in Int /\ now <= req[w].at + LockWait
      /\ Window \in Nat /\ LockWait \in Nat /\ N[c] \in Nat
  <2>1. now \in Int
    BY DEF WInv, LInv, TypeOK
  <2>2. c \in Callers /\ req[w].at \in Nat /\ now <= req[w].at + LockWait
    BY <1>1, <1>2, ThrottleTimes
  <2> QED BY <2>1, <2>2, LimitsAssumption
<1>4. ~Admit(w, next)
  <2>1. ASSUME Admit(w, next) PROVE FALSE
    <3>1. admitted' = admitted /\ After(admitted'[c], now - 1) = After(admitted[c], now - 1) + 1
      BY <1>2, <1>3, <2>1, AdmitRaises DEF Denied
    <3>2. admitted[c] \in [Ticks -> Nat]
      BY <1>3 DEF WInv, LInv, TypeOK, Ticks
    <3>3. After(admitted[c], now - 1) \in Nat
      BY <1>3, <3>2, AfterType
    <3> QED BY <3>1, <3>3
  <2> QED BY <2>1
<1>5. /\ win # NoWindow /\ win.count \in Nat /\ win.resetAt \in Nat
      /\ req[w].at <= win.resetAt /\ win.count + 1 > N[c]
  <2>1. /\ win \in [count : Nat, resetAt : Nat] /\ win # NoWindow
        /\ req[w].at <= win.resetAt /\ win.count + 1 > N[c]
    BY <1>1, <1>2, <1>4, ThrottleCases
  <2> QED BY <2>1
<1>6. A(win.resetAt - Window - 1) >= N[c]
  BY <1>3, <1>5 DEF WInv, Spaced, Filled, Least
<1>7. A(win.resetAt - Window - 1) <= A(first - 1)
  <2>1. first - 1 <= win.resetAt - Window - 1
    BY <1>3, <1>5
  <2>2. admitted[c] \in [Ticks -> Nat]
    BY <1>3 DEF WInv, LInv, TypeOK, Ticks
  <2>3. first - 1 \in Int /\ win.resetAt - Window - 1 \in Int
    BY <1>3, <1>5
  <2> HIDE DEF first, win
  <2> QED BY <2>1, <2>2, <2>3, AfterLater
<1>8. AdmittedIn(c, first, now) = A(first - 1) /\ A(first - 1) \in Int /\ A(win.resetAt - Window - 1) \in Int
  <2>1. first \in Int /\ first - 1 \in Int /\ win.resetAt - Window - 1 \in Int
    BY <1>3, <1>5
  <2>2. admitted[c] \in [Ticks -> Nat]
    BY <1>3 DEF WInv, LInv, TypeOK, Ticks
  <2> HIDE DEF first, win
  <2> QED BY <1>3, <2>1, <2>2, AdmittedAtLeast, AfterType DEF WInv, LInv, Spaced
<1> HIDE DEF A, first, win
<1>9. AdmittedIn(c, first, now) >= N[c]
  BY <1>3, <1>6, <1>7, <1>8
<1> QED BY <1>2, <1>9 DEF first

\* Nobody is locked out: whom a limiter refuses has had its limit within the last window
\* and the time spent waiting for the mutex.
THEOREM DenialsAreJustified == Spec => DeniedJustified
<1>1. WInv /\ [Next]_vars =>
        [\A w \in Workers : Denied(w) =>
           AdmittedIn(req[w].caller, now - Window - LockWait, now) >= N[req[w].caller]]_vars
  BY FullWhenDenied
<1> QED BY <1>1, WindowsInvariance, PTL DEF Spec, DeniedJustified

=============================================================================
