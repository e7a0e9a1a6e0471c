---------------------------- MODULE BillingHistory ----------------------------
(***************************************************************************)
(* What becomes of the quota when handlers interleave and calls fail.      *)
(*                                                                         *)
(* An activation and an expiry end by writing a quota they computed some   *)
(* calls earlier.  The quota is therefore wrong now and then; this module  *)
(* says exactly when.  It adds to Billing three history variables, which   *)
(* follow every step and constrain none, and states the properties that    *)
(* need them.                                                              *)
(***************************************************************************)
EXTENDS Billing

VARIABLES
  overtaken,  \* processes that are about to write a quota from stale reads
  disturbed,  \* users whose last activation or reset went wrong
  lost        \* purchases whose id or activation was lost for good

hvars == <<overtaken, disturbed, lost>>

-----------------------------------------------------------------------------
(* Processes on their way to a write of the quota.                         *)

Midway(w) == worker[w].pc \in {"base", "sum", "quota", "reset"}
Settling(w, u) == worker[w].u = u /\ (Midway(w) \/ At(w, "upsert"))
Moves(w) == worker'[w] # worker[w]
Fault == faults' # faults

\* The rows a process has read, or written itself, and whose content it will
\* not look at again.  An add-on's activation starts from its own row.
Reads(w) ==
  LET u == worker[w].u IN
  [plan |-> IF worker[w].pc \in {"sum", "quota", "reset"}
            THEN <<sub[u].status, sub[u].plan>> ELSE <<>>,
   adds |-> IF At(w, "quota") THEN CompletedAddons(u)
            ELSE CompletedAddons(u) \cap {worker[w].p}]

\* Another process changed what w has read; or w itself goes on without the
\* sum of the add-ons, or with an add-on whose row could not be written.
Overtakes(w) ==
  IF Moves(w) THEN Fault /\ (At(w, "sum") \/ At(w, "record"))
              ELSE Reads(w)' # Reads(w)

\* The last call of an activation or a reset succeeds.
Writes(w, u) == worker[w].u = u /\ worker[w].pc \in {"quota", "reset"} /\ Moves(w) /\ ~Fault

\* An activation or a reset of u's ends without its write.
BreaksOff(w, u) == Settling(w, u) /\ worker'[w].pc = "idle" /\ ~Writes(w, u)

\* A completed add-on's row is written without any activation: a poll writes the
\* status it read before the confirmation, or the answer to the creation itself
\* says completed.
RowAlone(u) ==
  \/ CompletedAddons(u)' \subseteq CompletedAddons(u) /\ CompletedAddons(u)' # CompletedAddons(u)
  \/ \E w \in Procs : /\ worker[w].u = u /\ worker[w].p \in Addons
                      /\ At(w, "store") /\ Moves(w) /\ ~Fault /\ worker[w].s = "completed"

\* A write from up-to-date reads makes good what went wrong before.
Disturbed(u) ==
  \/ RowAlone(u)
  \/ \E w \in Procs : BreaksOff(w, u) \/ (Writes(w, u) /\ w \in overtaken)
  \/ u \in disturbed /\ \A w \in Procs : ~Writes(w, u)

\* The gateway has the purchase but its id is not stored; its first status was
\* completed already; or its activation ends without its write.
Loses(w) ==
  \/ At(w, "create") /\ Moves(w) /\ Fault
  \/ At(w, "store") /\ Moves(w) /\ (Fault \/ worker[w].s = "completed")
  \/ worker[w].p \in Purchases /\ BreaksOff(w, worker[w].u)

HInit == overtaken = {} /\ disturbed = {} /\ lost = {}

History ==
  /\ overtaken' = {w \in Procs : Midway(w)' /\ (w \in overtaken \/ Overtakes(w))}
  /\ disturbed' = {u \in Users : Disturbed(u)}
  /\ lost' = lost \cup {p \in Purchases : \E w \in Procs : worker[w].p = p /\ Loses(w)}

HSpec == Init /\ HInit /\ [][Next /\ History]_<<vars, hvars>>
HFairSpec == HSpec /\ Fairness

-----------------------------------------------------------------------------
(* Properties.                                                             *)

FullQuota(u) == [plan |-> sub[u].plan, adds |-> CompletedAddons(u)]

\* Nothing is under way that will write u's quota, and the last thing that did
\* worked on rows that were still as it had read them.
Calm(u) == u \notin disturbed /\ \A w \in Procs : ~Settling(w, u)

\* An active subscriber's quota is the bytes of the plan plus those of every
\* completed add-on, however webhooks, polls, renewals and expiries interleave
\* and calls fail, unless one of these happened last: a write from rows another
\* process had changed meanwhile, an ignored or fatal error on the way to the
\* write, or an add-on's row that changed without an activation.
\* (activateSubscription, activateAddon.)
QuotaIsPlanPlusAddons ==
  \A u \in Users : Calm(u) /\ sub[u].status = "active" => quota[u] = FullQuota(u)

\* Under the same conditions, a user without an active subscription has the free
\* quota, unless add-ons were paid for.  (expireUser, expireSubscriptions.)
LapsedQuotaIsFree ==
  \A u \in Users :
    Calm(u) /\ sub[u].status # "active" /\ CompletedAddons(u) = {} => quota[u] = FreeQuota

\* What the gateway took is activated, even if the webhook came before the id was
\* stored and was dropped, and whatever calls fail before the activation or beside
\* it: the polling client makes up for it.  It is not if the id was never stored,
\* if the answer to the creation said completed, or if the activation itself broke
\* off.
PaidIsActivated ==
  \A p \in Purchases : gateway[p] = "completed" ~> p \in activated \cup lost

-----------------------------------------------------------------------------
(* The inductive invariant behind the two properties of the quota.         *)

Settled(u) ==
  /\ sub[u].status = "active" => quota[u] = FullQuota(u)
  /\ sub[u].status # "active" /\ CompletedAddons(u) = {} => quota[u] = FreeQuota

\* What a process that was not overtaken has read still is as it read it.
Informed(w) ==
  LET p == worker[w].p
      u == worker[w].u
      q == worker[w].q
  IN
  /\ At(w, "base") => p \in CompletedAddons(u)
  /\ worker[w].pc \in {"sum", "quota"} =>
       /\ sub[u].status = "active" => q.plan = sub[u].plan
       /\ sub[u].status = "active" \/ p \in CompletedAddons(u)
  /\ At(w, "quota") => q.adds = CompletedAddons(u)
  /\ At(w, "reset") => sub[u].status # "active"

HInv ==
  /\ \A w \in Procs : w \in overtaken \/ Informed(w)
  /\ \A u \in Users : Calm(u) => Settled(u)

=============================================================================
