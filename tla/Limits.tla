------------------------------- MODULE Limits -------------------------------
(***************************************************************************)
(* What stands before the handlers: API keys (internal/apikeys and         *)
(* AuthenticateAPIKey), the fixed windows of pkg/middleware/rate_limit.go  *)
(* and the monthly quota of pkg/middleware/api_quota.go, in the order of   *)
(* the route groups of cmd/server/main.go.                                 *)
(*                                                                         *)
(* The windows are in memory and guarded by a mutex, but the clock is read *)
(* before the mutex is locked.  The month's count is read before the       *)
(* handler and incremented after it, by a goroutine nobody waits for.      *)
(* All projects belong to one user.                                        *)
(***************************************************************************)
EXTENDS Integers, FiniteSets, FiniteSetsExt

CONSTANTS
  Keys, Projects, ProjectOf,  \* API keys, and the project of each
  IPs,           \* clients of the /auth routes
  N,             \* requests a window admits, for a project and for an IP
  Window,        \* its length in ticks
  LockWait,      \* bound: ticks between reading the clock and holding the mutex
  Limits,        \* the monthly quotas of the plans
  Unlimited,     \* the quota NULL
  Workers,       \* request goroutines
  NoCaller,
  Months,        \* bound: months 0 .. Months
  MaxTime,       \* bound: ticks
  MaxRequests,   \* bound: requests
  MaxFaults      \* bound: failed calls and crashes

Callers == Projects \cup IPs

ASSUME LimitsAssumption ==
  /\ ProjectOf \in [Keys -> Projects]
  /\ N \in [Callers -> Nat \ {0}]
  /\ Window \in Nat /\ LockWait \in Nat
  /\ Limits \subseteq Nat /\ Unlimited \notin Nat
  /\ NoCaller \notin Callers
  /\ Months \in Nat /\ MaxTime \in Nat /\ MaxRequests \in Nat /\ MaxFaults \in Nat
  /\ IsFiniteSet(Workers)

Quotas == Limits \cup {Unlimited}

VARIABLES
  now,       \* the clock, in ticks of the windows
  month,     \* and in months
  keys,      \* api_keys rows
  windows,   \* the limiters' maps
  quota,     \* max_monthly_api_requests of the plan in force
  counts,    \* api_request_counts rows
  increments,\* goroutines that are about to add one
  req,       \* the requests under way
  begun,     \* requests so far
  faults,    \* faults so far
  admitted,  \* history: requests each limiter let through at each tick
  served,    \* history: requests of each month that passed the quota check
  lost,      \* history: those of them that will not be counted
  peak,      \* history: the most of them that were not counted at a time
  top        \* history: the highest quota one of them was checked against

clocks == <<now, month>>
database == <<keys, quota, counts>>
history == <<admitted, served, lost, peak, top>>
vars == <<now, month, keys, windows, quota, counts, increments, req, begun, faults,
          admitted, served, lost, peak, top>>

AllMonths == 0 .. Months
NoWindow == [count |-> 0, resetAt |-> -1]
Idle == [pc |-> "idle", caller |-> NoCaller, at |-> 0, month |-> 0]
\* at: the time the limiter has read; month: the one the quota check has read.
Request == [pc : {"lock", "quota", "serve"}, caller : Callers, at : Nat, month : AllMonths]

TypeOK ==
  /\ now \in Nat /\ month \in AllMonths
  /\ keys \in [Keys -> {"none", "live", "revoked"}]
  /\ windows \in [Callers -> [count : Nat, resetAt : Nat] \cup {NoWindow}]
  /\ quota \in Quotas
  /\ counts \in [AllMonths -> Nat] /\ increments \in [AllMonths -> Nat]
  /\ req \in [Workers -> Request \cup {Idle}]
  /\ begun \in Nat /\ faults \in Nat
  /\ admitted \in [Callers -> [0 .. MaxTime -> Nat]]
  /\ served \in [AllMonths -> Nat] /\ lost \in [AllMonths -> Nat]
  /\ peak \in [AllMonths -> Nat] /\ top \in [AllMonths -> Quotas \cup {0}]

Zero == [m \in AllMonths |-> 0]
Silence == [c \in Callers |-> [t \in 0 .. MaxTime |-> 0]]
Init ==
  /\ now = 0 /\ month = 0
  /\ keys = [k \in Keys |-> "none"]
  /\ windows = [c \in Callers |-> NoWindow]
  /\ quota \in Quotas
  /\ counts = Zero /\ increments = Zero
  /\ req = [w \in Workers |-> Idle]
  /\ begun = 0 /\ faults = 0
  /\ admitted = Silence
  /\ served = Zero /\ lost = Zero /\ peak = Zero /\ top = Zero

-----------------------------------------------------------------------------
At(w, pc) == req[w].pc = pc
Become(w, state) == req' = [req EXCEPT ![w] = state]
Return(w) == Become(w, Idle)
Plus(f, m) == [f EXCEPT ![m] = @ + 1]

-----------------------------------------------------------------------------
(* API keys.                                                               *)

CreateKey(k) ==
  /\ keys[k] = "none"
  /\ keys' = [keys EXCEPT ![k] = "live"]
  /\ UNCHANGED <<clocks, windows, quota, counts, increments, req, begun, faults, history>>

Revoke(k) ==
  /\ keys[k] = "live"
  /\ keys' = [keys EXCEPT ![k] = "revoked"]
  /\ UNCHANGED <<clocks, windows, quota, counts, increments, req, begun, faults, history>>

\* A request reaches a limiter, which reads the clock.
Arrive(w, c) ==
  /\ At(w, "idle") /\ begun < MaxRequests
  /\ begun' = begun + 1
  /\ Become(w, [pc |-> "lock", caller |-> c, at |-> now, month |-> 0])
  /\ UNCHANGED <<clocks, database, windows, increments, faults, history>>

AuthenticateAPIKey(w, k) == keys[k] = "live" /\ Arrive(w, ProjectOf[k])
AuthRequest(w, ip) == Arrive(w, ip)

-----------------------------------------------------------------------------
(* The limiters.                                                           *)

\* Mutant: one request more than the limit.
Over_ByOne(c, count) == count > N[c] + 1
\* Mutant: the last request of the limit is refused.
Over_AtLimit(c, count) == count >= N[c]
Over(c, count) == count > N[c]

Ended(c, t) == t > windows[c].resetAt

\* A request that the limiter lets through and one that it answers with 429.
Admit(w, next) ==
  /\ admitted' = [admitted EXCEPT ![req[w].caller][now] = @ + 1]
  /\ Become(w, next)
Deny(w) == Return(w) /\ UNCHANGED admitted

\* Under the mutex: a new window, or one more in the old one.
Throttle(w, next) ==
  LET c == req[w].caller
      win == windows[c]
  IN
  /\ At(w, "lock")
  /\ IF win = NoWindow \/ Ended(c, req[w].at)
     THEN /\ windows' = [windows EXCEPT ![c] = [count |-> 1, resetAt |-> req[w].at + Window]]
          /\ Admit(w, next)
     ELSE /\ windows' = [windows EXCEPT ![c].count = @ + 1]
          /\ IF Over(c, win.count + 1) THEN Deny(w) ELSE Admit(w, next)
  /\ UNCHANGED <<clocks, database, increments, begun, faults, served, lost, peak, top>>

\* EnforceAPIQuota comes next; it reads the month first.
RateLimitPerProject(w) ==
  /\ req[w].caller \in Projects
  /\ Throttle(w, [req[w] EXCEPT !.pc = "quota", !.at = 0, !.month = month])

\* What the handlers of the /auth routes do is in Auth.
RateLimitPerIP(w) ==
  /\ req[w].caller \in IPs
  /\ Throttle(w, Idle)

\* Mutant: the running windows go as well.
Stale_Any(c) == TRUE
Stale(c) == Ended(c, now)
\* The goroutine that keeps the maps small.
Cleanup ==
  /\ \E c \in Callers : windows[c] # NoWindow /\ Stale(c)
  /\ windows' = [c \in Callers |-> IF Stale(c) THEN NoWindow ELSE windows[c]]
  /\ UNCHANGED <<clocks, database, increments, req, begun, faults, history>>

-----------------------------------------------------------------------------
(* The monthly quota.                                                      *)

Serving(m) == {w \in Workers : At(w, "serve") /\ req[w].month = m}
\* Requests of a month that the table does not show.
Uncounted(m) == increments[m] + Cardinality(Serving(m)) + lost[m]

Larger(a, b) == IF Unlimited \in {a, b} THEN Unlimited ELSE IF a > b THEN a ELSE b

\* Mutant: the request that uses the quota up is still below it.
Exceeded_Late(m) == quota # Unlimited /\ counts[m] > quota
Exceeded(m) == quota # Unlimited /\ counts[m] >= quota

EnforceAPIQuota(w) ==
  LET m == req[w].month
      more == Uncounted(m) + 1
  IN
  /\ At(w, "quota")
  /\ \/ Exceeded(m) /\ Return(w) /\ UNCHANGED <<served, peak, top>>
     \/ /\ ~Exceeded(m)
        /\ Become(w, [req[w] EXCEPT !.pc = "serve"])
        /\ served' = Plus(served, m)
        /\ peak' = [peak EXCEPT ![m] = IF more > @ THEN more ELSE @]
        /\ top' = [top EXCEPT ![m] = Larger(@, quota)]
  /\ UNCHANGED <<clocks, database, windows, increments, begun, faults, admitted, lost>>

\* Infrastructure must not block requests: the handler is called, nothing counted.
FailOpen(w) ==
  /\ At(w, "quota")
  /\ faults < MaxFaults /\ faults' = faults + 1
  /\ Return(w)
  /\ UNCHANGED <<clocks, database, windows, increments, begun, history>>

\* Mutant: the month is read when the request is done.
HandlerReturns_NewMonth(w) ==
  /\ At(w, "serve")
  /\ increments' = Plus(increments, month)
  /\ Return(w)
  /\ UNCHANGED <<clocks, database, windows, begun, faults, history>>

HandlerReturns(w) ==
  /\ At(w, "serve")
  /\ increments' = Plus(increments, req[w].month)
  /\ Return(w)
  /\ UNCHANGED <<clocks, database, windows, begun, faults, history>>

\* Mutant: a refused request is counted as well.
Increment_Any(m) ==
  /\ increments' = [increments EXCEPT ![m] = @ - 1]
  /\ counts' = Plus(counts, m)
  /\ UNCHANGED <<clocks, keys, quota, windows, req, begun, faults, history>>

\* The upsert, which is atomic.
Increment(m) ==
  /\ increments[m] > 0
  /\ increments' = [increments EXCEPT ![m] = @ - 1]
  /\ counts' = Plus(counts, m)
  /\ UNCHANGED <<clocks, keys, quota, windows, req, begun, faults, history>>

\* The error of the upsert is dropped.
IncrementFails(m) ==
  /\ increments[m] > 0
  /\ faults < MaxFaults /\ faults' = faults + 1
  /\ increments' = [increments EXCEPT ![m] = @ - 1]
  /\ lost' = Plus(lost, m)
  /\ UNCHANGED <<clocks, database, windows, req, begun, admitted, served, peak, top>>

\* A handler panics, and chi's Recoverer answers: no increment follows.
HandlerPanics(w) ==
  /\ At(w, "serve")
  /\ faults < MaxFaults /\ faults' = faults + 1
  /\ lost' = Plus(lost, req[w].month)
  /\ Return(w)
  /\ UNCHANGED <<clocks, database, windows, increments, begun, admitted, served, peak, top>>

\* The limiters start anew, with nothing admitted by this process.
Crash ==
  /\ faults < MaxFaults /\ faults' = faults + 1
  /\ windows' = [c \in Callers |-> NoWindow]
  /\ admitted' = Silence
  /\ lost' = [m \in AllMonths |-> Uncounted(m)]
  /\ increments' = Zero
  /\ req' = [w \in Workers |-> Idle]
  /\ UNCHANGED <<clocks, database, begun, served, peak, top>>

-----------------------------------------------------------------------------
(* The surroundings.                                                       *)

\* Billing and administration: another plan, or another quota of the plan.
ChangePlan(q) ==
  /\ quota' = q /\ quota # q
  /\ UNCHANGED <<clocks, keys, counts, windows, increments, req, begun, faults, history>>

Tick ==
  /\ now < MaxTime
  /\ \A w \in Workers : At(w, "lock") => now < req[w].at + LockWait
  /\ now' = now + 1
  /\ UNCHANGED <<month, database, windows, increments, req, begun, faults, history>>

NewMonth ==
  /\ month < Months
  /\ month' = month + 1
  /\ UNCHANGED <<now, database, windows, increments, req, begun, faults, history>>

-----------------------------------------------------------------------------
create == \E k \in Keys : CreateKey(k)
revoke == \E k \in Keys : Revoke(k)

Routes(w) ==
  \/ \E k \in Keys : AuthenticateAPIKey(w, k)
  \/ \E ip \in IPs : AuthRequest(w, ip)

CallsOf(w) ==
  \/ RateLimitPerProject(w) \/ RateLimitPerIP(w)
  \/ EnforceAPIQuota(w) \/ HandlerReturns(w)
  \/ FailOpen(w) \/ HandlerPanics(w)

Next ==
  \/ create \/ revoke
  \/ \E w \in Workers : Routes(w) \/ CallsOf(w)
  \/ \E m \in AllMonths : Increment(m) \/ IncrementFails(m)
  \/ Cleanup \/ Crash
  \/ \E q \in Quotas : ChangePlan(q)
  \/ Tick \/ NewMonth

Spec == Init /\ [][Next]_vars

-----------------------------------------------------------------------------
(* Properties.                                                             *)

AdmittedIn(c, first, last) ==
  MapThenSumSet(LAMBDA t : admitted[c][t], {t \in 0 .. MaxTime : first <= t /\ t <= last})

\* A fixed window lets nearly twice its limit through around its end, and never all of
\* it, as the request that opens a window is one of its limit: neither the cleaner nor
\* requests that read the clock before they waited for the mutex open a third window
\* within the length of one, less that wait.  The length that ends now is looked at.
IntervalBound ==
  \A c \in Callers : AdmittedIn(c, now - (Window - LockWait), now) < 2 * N[c]

Denied(w) == At(w, "lock") /\ ~At(w, "lock")' /\ admitted' = admitted /\ faults' = faults

\* Nobody is locked out: a request is refused only when as many as the limit were
\* admitted within the last window, and refused ones do not prolong it.
DeniedJustified ==
  [][\A w \in Workers : Denied(w) =>
       AdmittedIn(req[w].caller, now - Window - LockWait, now) >= N[req[w].caller]]_vars

\* A request that passed the check is counted once, in the month it was checked for,
\* unless its increment fails, its handler panics or the server stops.
CountedOnce == \A m \in AllMonths : served[m] = counts[m] + Uncounted(m)

\* The quota is checked against a count that lags behind: a month's requests exceed it
\* by less than the most that were uncounted at a time.
QuotaOvershoot ==
  \A m \in AllMonths :
    served[m] > 0 /\ top[m] # Unlimited => served[m] < top[m] + peak[m]

=============================================================================
