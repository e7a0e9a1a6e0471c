----------------------------- MODULE AuthProofs -----------------------------
(***************************************************************************)
(* Proofs about Auth: its types, that codes are used once, that a reset    *)
(* ends the sessions, that a session has one token, that passwords are     *)
(* kept and addresses proven, for any number of users, requests, faults.   *)
(*                                                                         *)
(* A step moves one request and may overtake others.  What those know, by  *)
(* WellFormed, stays true because the tables only grow where it matters;   *)
(* what they have read, by StillTrue, because a step that changes an       *)
(* account overtakes all other requests on it.  Addressed adds what is     *)
(* known of addresses, which needs no request to be undisturbed.           *)
(***************************************************************************)
EXTENDS Auth, SequenceTheorems, TLAPS

\* What a step does not take away from a request.
Grows ==
  /\ \A u \in Users : Exists(u) => Exists(u)'
  /\ DOMAIN codes \subseteq DOMAIN codes' /\ \A c \in DOMAIN codes : codes'[c].user = codes[c].user
  /\ DOMAIN issued \subseteq DOMAIN issued' /\ \A t \in DOMAIN issued : issued'[t] = issued[t]

\* A step that leaves what the request has read as it is.
Undisturbed(r) ==
  /\ users'[r.user].password = users[r.user].password
  /\ users'[r.user].verified = users[r.user].verified
  /\ era'[r.user] = era[r.user]
  /\ \A t \in tokens : issued[t].user = r.user => t \in tokens'
  /\ \A t \in tokens' \ tokens :
       r.pc = "issue" /\ r.token # 0 =>
         ~(/\ issued'[t].clean /\ issued'[r.token].clean
           /\ issued'[t].session = issued'[r.token].session)

\* The types of all but req.
TablesTyped ==
  /\ users \in [Users -> UserRow \cup {NoUser}]
  /\ codes \in Seq(CodeRow) /\ issued \in Seq(TokenRow)
  /\ tokens \subseteq DOMAIN issued
  /\ begun \in Nat /\ faults \in Nat
  /\ era \in [Users -> Nat] /\ loose \subseteq Users

\* The conjuncts of AInv that are not about requests.
TablesFine ==
  /\ IssuedInOrder
  /\ \A c \in DOMAIN codes : codes[c].state # "used" => codes[c].uses = 0
  /\ SessionsEndWithReset /\ OneTokenPerSession

LEMMA Parts == ASSUME AInv PROVE TablesTyped /\ TablesFine
BY DEF AInv, TypeOK, TablesTyped, TablesFine

LEMMA Rows ==
  ASSUME AInv
  PROVE  /\ \A c \in DOMAIN codes : c \in Nat \ {0} /\ codes[c] \in CodeRow
         /\ \A t \in DOMAIN issued : t \in Nat \ {0} /\ issued[t] \in TokenRow
         /\ \A u \in Users : era[u] \in Nat
<1>1. codes \in Seq(CodeRow) /\ issued \in Seq(TokenRow) /\ era \in [Users -> Nat]
  BY Parts DEF TablesTyped
<1>2. DOMAIN codes = 1 .. Len(codes) /\ DOMAIN issued = 1 .. Len(issued) /\ Len(codes) \in Nat /\ Len(issued) \in Nat
  BY <1>1
<1>3. \A c \in DOMAIN codes : c \in Nat \ {0} /\ codes[c] \in CodeRow
  BY <1>1, <1>2
<1>4. \A t \in DOMAIN issued : t \in Nat \ {0} /\ issued[t] \in TokenRow
  BY <1>1, <1>2
<1> QED BY <1>1, <1>3, <1>4

LEMMA IdleIsNoRequest == Idle \notin Request /\ Idle.pc = "idle" /\ Idle.user = None
BY DEF Idle, Request, Ops

LEMMA UnderWay ==
  ASSUME AInv, NEW w \in Workers, req[w] # Idle
  PROVE  req[w] \in Request /\ WellFormed(req[w]) /\ StillTrue(req[w])
BY DEF AInv, TypeOK

\* At a call of a handler a request is under way.
LEMMA AtCall ==
  ASSUME AInv, NEW w \in Workers, ~At(w, "idle")
  PROVE  req[w] # Idle /\ req[w] \in Request /\ WellFormed(req[w]) /\ StillTrue(req[w])
BY IdleIsNoRequest, UnderWay DEF At

-----------------------------------------------------------------------------
(* The frame.                                                              *)

LEMMA OthersKnow ==
  ASSUME AInv, Grows, NEW v \in Workers, req[v] # Idle,
         req'[v] = req[v] \/ req'[v] = [req[v] EXCEPT !.raced = TRUE]
  PROVE  WellFormed(req[v])' /\ req'[v] \in Request
<1>1. req[v] \in Request /\ WellFormed(req[v])
  BY UnderWay
<1>2. req'[v] \in Request
  BY <1>1 DEF Request
<1>3. /\ req'[v].pc = req[v].pc /\ req'[v].user = req[v].user /\ req'[v].to = req[v].to
      /\ req'[v].new = req[v].new /\ req'[v].op = req[v].op /\ req'[v].code = req[v].code
      /\ req'[v].token = req[v].token
  BY <1>1 DEF Request
<1>4. WellFormed(req[v])'
  BY <1>1, <1>3 DEF WellFormed, Grows
<1> QED BY <1>2, <1>4

LEMMA OthersStillRight ==
  ASSUME AInv, Grows, IssuedInOrder', TablesTyped', NEW v \in Workers, req[v] # Idle,
         req'[v] = req[v] \/ req'[v] = [req[v] EXCEPT !.raced = TRUE],
         req'[v].raced \/ req[v].pc = "create" \/ Undisturbed(req[v])
  PROVE  StillTrue(req[v])'
<1>1. req[v] \in Request /\ WellFormed(req[v]) /\ StillTrue(req[v])
  BY UnderWay
<1>2. CASE req'[v].raced
  BY <1>2 DEF StillTrue
<1>3. CASE ~req'[v].raced
  <2>1. req'[v] = req[v]
    BY <1>1, <1>3 DEF Request
  <2>2. CASE req[v].pc = "create"
    BY <2>1, <2>2 DEF StillTrue
  <2>3. CASE req[v].pc # "create"
    <3>1. req[v].user \in Users /\ Undisturbed(req[v])
      BY <1>1, <1>3, <2>3 DEF WellFormed
    <3>2. req[v].pc = "delete" => req[v].token \in tokens'
      BY <1>1, <1>3, <2>1, <3>1 DEF WellFormed, StillTrue, Undisturbed
    <3>3. ASSUME req[v].pc = "issue", req[v].token # 0, NEW s \in tokens'
          PROVE  ~(s \in tokens' /\ issued'[s].clean /\ issued'[req[v].token].clean
                   /\ issued'[s].session = issued'[req[v].token].session)
      <4>1. issued'[req[v].token] = issued[req[v].token]
        BY <1>1, <3>3 DEF WellFormed, Grows
      <4>2. CASE s \in tokens
        <5>1. issued'[s] = issued[s]
          BY <4>2, Parts DEF Grows, TablesTyped
        <5> QED BY <1>1, <1>3, <2>1, <3>3, <4>1, <4>2, <5>1 DEF StillTrue, Successor
      <4>3. CASE s \notin tokens
        BY <3>1, <3>3, <4>3 DEF Undisturbed
      <4> QED BY <4>2, <4>3
    <3> QED BY <1>1, <1>3, <2>1, <3>1, <3>2, <3>3 DEF StillTrue, Undisturbed, Successor
  <2> QED BY <2>2, <2>3
<1> QED BY <1>2, <1>3

\* A step of w: the tables it leaves behind, what w goes on with, and whom it overtakes.
LEMMA StepPreserves ==
  ASSUME AInv, NEW w \in Workers, NEW ov \in SUBSET Workers, NEW s,
         s \in Request \cup {Idle}, Move(w, s, ov), \A v \in ov : v = w \/ req[v] # Idle,
         Grows, TablesTyped', TablesFine',
         \A v \in Workers \ {w} :
           req[v] # Idle => v \in ov \/ req'[v].raced \/ req[v].pc = "create" \/ Undisturbed(req[v]),
         s # Idle => WellFormed(req[w])' /\ StillTrue(req[w])',
         \A v \in Workers \ {w} : ~Rivals(req[w], req[v])'
  PROVE  AInv'
<1>1. req'[w] = s
  BY DEF Move
<1>2. ASSUME NEW v \in Workers \ {w}
      PROVE  /\ req[v] = Idle => req'[v] = Idle
             /\ req'[v] = req[v] \/ req'[v] = [req[v] EXCEPT !.raced = TRUE]
             /\ v \in ov => req'[v] = [req[v] EXCEPT !.raced = TRUE]
  BY DEF Move
<1>3. ASSUME NEW v \in Workers \ {w}, req[v] # Idle
      PROVE  WellFormed(req[v])' /\ StillTrue(req[v])' /\ req'[v] \in Request
  <2>1. WellFormed(req[v])' /\ req'[v] \in Request
    BY <1>2, <1>3, OthersKnow
  <2>2. req[v] \in Request
    BY <1>3, UnderWay
  <2>3. v \in ov => req'[v].raced
    BY <1>2, <2>2 DEF Request
  <2>4. StillTrue(req[v])'
    BY <1>2, <1>3, <2>3, OthersStillRight DEF TablesFine
  <2> QED BY <2>1, <2>4
<1>4. req' \in [Workers -> Request \cup {Idle}]
  <2>1. \A v \in Workers : req'[v] \in Request \cup {Idle}
    BY <1>1, <1>2, <1>3
  <2>2. req' = [v \in Workers |-> req'[v]]
    BY DEF Move
  <2> QED BY <2>1, <2>2
<1>5. \A v \in Workers : req'[v] # Idle => WellFormed(req[v])' /\ StillTrue(req[v])'
  BY <1>1, <1>2, <1>3
<1>6. ASSUME NEW v \in Workers, NEW x \in Workers, v # x PROVE ~Rivals(req[v], req[x])'
  <2>1. CASE v = w
    BY <1>6, <2>1
  <2>2. CASE x = w
    <3>1. ~Rivals(req[w], req[v])'
      BY <1>6, <2>2
    <3> QED BY <2>2, <3>1 DEF Rivals
  <2>3. CASE v # w /\ x # w
    <3> SUFFICES ASSUME Rivals(req[v], req[x])' PROVE FALSE
      OBVIOUS
    <3>1. req'[v].pc = "issue" /\ req'[x].pc = "issue" /\ ~req'[v].raced /\ ~req'[x].raced
      BY DEF Rivals
    <3>2. req[v] # Idle /\ req[x] # Idle
      BY <1>2, <2>3, <3>1, IdleIsNoRequest
    <3>3. req[v] \in Request /\ req[x] \in Request /\ WellFormed(req[v]) /\ WellFormed(req[x])
      BY <3>2, UnderWay
    <3>4. req'[v] = req[v] /\ req'[x] = req[x]
      <4>1. req'[v] = [req[v] EXCEPT !.raced = TRUE] => req'[v].raced
        BY <3>3 DEF Request
      <4>2. req'[x] = [req[x] EXCEPT !.raced = TRUE] => req'[x].raced
        BY <3>3 DEF Request
      <4> QED BY <1>2, <2>3, <3>1, <4>1, <4>2
    <3>5. \A r \in {req[v], req[x]} : r.token # 0 => r.token \in DOMAIN issued /\ issued'[r.token] = issued[r.token]
      BY <3>3 DEF WellFormed, Grows
    <3>6. Rivals(req[v], req[x])
      BY <3>4, <3>5 DEF Rivals
    <3> QED BY <1>6, <3>6 DEF AInv
  <2> QED BY <2>1, <2>2, <2>3
<1> QED BY <1>4, <1>5, <1>6 DEF AInv, TypeOK, TablesTyped, TablesFine

\* A step that changes no table.
LEMMA Quiet ==
  ASSUME AInv, UNCHANGED <<tables, history>>, begun' \in Nat, faults' \in Nat
  PROVE  /\ Grows /\ TablesTyped' /\ TablesFine'
         /\ \A v \in Workers : Undisturbed(req[v])
<1>1. TablesTyped /\ TablesFine
  BY Parts
<1>2. TablesTyped'
  BY <1>1 DEF TablesTyped, tables, history
<1>3. TablesFine'
  BY <1>1 DEF TablesFine, tables, history, IssuedInOrder, Exists,
               SessionsEndWithReset, OneTokenPerSession
<1>4. Grows
  BY DEF Grows, tables, history, Exists
<1>5. \A v \in Workers : Undisturbed(req[v])
  BY DEF Undisturbed, tables, history
<1> QED BY <1>2, <1>3, <1>4, <1>5

\* A request that goes on, or starts, and writes nothing.
LEMMA QuietStepPreserves ==
  ASSUME AInv, NEW w \in Workers, NEW s, s \in Request \cup {Idle}, Move(w, s, {}),
         UNCHANGED <<tables, history>>, begun' \in Nat, faults' \in Nat,
         s # Idle => WellFormed(s) /\ StillTrue(s),
         s.pc = "issue" => s.token = 0
  PROVE  AInv'
<1>1. req'[w] = s
  BY DEF Move
<1>2. Grows /\ TablesTyped' /\ TablesFine' /\ \A v \in Workers : Undisturbed(req[v])
  BY Quiet
<1>3. s # Idle => WellFormed(req[w])' /\ StillTrue(req[w])'
  BY <1>1 DEF WellFormed, StillTrue, Successor, tables, history, Exists
<1>4. \A v \in Workers \ {w} : ~Rivals(req[w], req[v])'
  BY <1>1 DEF Rivals
<1>5. \A v \in Workers \ {w} : req[v] # Idle => req[v].pc = "create" \/ Undisturbed(req[v])
  BY <1>2
<1> QED BY <1>2, <1>3, <1>4, <1>5, StepPreserves

-----------------------------------------------------------------------------
(* Requests begin.                                                         *)

\* A request that begins writes nothing.
LEMMA BeginPreserves ==
  ASSUME AInv, NEW w \in Workers, NEW s, s \in Request, Begin(w, s),
         UNCHANGED <<tables, faults, history>>,
         WellFormed(s), StillTrue(s), s.pc = "issue" => s.token = 0
  PROVE  AInv'
<1>1. begun' \in Nat /\ faults' \in Nat
  BY DEF Begin, AInv, TypeOK
<1> QED BY <1>1, QuietStepPreserves DEF Begin

\* A signed-in user, or one that is found by its address, exists.
LEMMA SignedIn ==
  ASSUME AInv, NEW u \in Users, Authenticate(u)
  PROVE  Exists(u) /\ users[u] \in UserRow
BY Parts DEF Authenticate, TablesFine, TablesTyped, IssuedInOrder, Exists

LEMMA Found ==
  ASSUME AInv, NEW u \in Users, NEW e \in Emails, HasEmail(u, e)
  PROVE  Exists(u) /\ users[u] \in UserRow
BY Parts, AuthAssumption DEF HasEmail, TablesTyped, Exists, NoUser

LEMMA RegisterPreserves ==
  ASSUME AInv, NEW w \in Workers, NEW e \in Emails, NEW p \in Passwords, Register(w, e, p)
  PROVE  AInv'
<1>1. ASSUME NEW u \in Users, HasEmail(u, e), ~users[u].verified,
             Begin(w, [Idle EXCEPT !.op = "register", !.pc = "update", !.user = u, !.to = e, !.new = p])
      PROVE  AInv'
  <2> DEFINE s == [Idle EXCEPT !.op = "register", !.pc = "update", !.user = u, !.to = e, !.new = p]
  <2>1. s \in Request
    BY DEF Idle, Request, Ops, Calls
  <2>2. WellFormed(s) /\ StillTrue(s) /\ s.pc # "issue"
    BY <1>1, Found DEF Idle, WellFormed, StillTrue
  <2> QED BY <1>1, <2>1, <2>2, BeginPreserves DEF Register
<1>2. ASSUME Begin(w, [Idle EXCEPT !.op = "register", !.pc = "create", !.to = e, !.new = p])
      PROVE  AInv'
  <2> DEFINE s == [Idle EXCEPT !.op = "register", !.pc = "create", !.to = e, !.new = p]
  <2>1. s \in Request
    BY DEF Idle, Request, Ops, Calls
  <2>2. WellFormed(s) /\ StillTrue(s) /\ s.pc # "issue"
    BY DEF Idle, WellFormed, StillTrue
  <2> QED BY <1>2, <2>1, <2>2, BeginPreserves DEF Register
<1> QED BY <1>1, <1>2 DEF Register

LEMMA createAdminPreserves ==
  ASSUME AInv, NEW w \in Workers, NEW e \in Emails, NEW p \in Passwords, createAdmin(w, e, p)
  PROVE  AInv'
<1> DEFINE s == [Idle EXCEPT !.op = "admin", !.pc = "create", !.to = e, !.new = p]
<1>1. s \in Request
  BY DEF Idle, Request, Ops, Calls
<1>2. WellFormed(s) /\ StillTrue(s) /\ s.pc # "issue"
  BY DEF Idle, WellFormed, StillTrue
<1> QED BY <1>1, <1>2, BeginPreserves DEF createAdmin

LEMMA ResendPreserves ==
  ASSUME AInv, NEW w \in Workers, NEW e \in Emails, ResendVerification(w, e)
  PROVE  AInv'
<1>1. PICK u \in Users : HasEmail(u, e) /\ ~users[u].verified
              /\ Begin(w, [Idle EXCEPT !.op = "resend", !.pc = "code", !.user = u, !.to = e])
  BY DEF ResendVerification
<1> DEFINE s == [Idle EXCEPT !.op = "resend", !.pc = "code", !.user = u, !.to = e]
<1>2. s \in Request
  BY Found, Rows, <1>1 DEF Idle, Request, Ops, Calls
<1>3. WellFormed(s) /\ StillTrue(s) /\ (s.pc = "issue" => s.token = 0)
  BY <1>1, Found DEF Idle, WellFormed, StillTrue
<1> QED BY <1>1, <1>2, <1>3, BeginPreserves DEF ResendVerification

LEMMA ForgotPreserves ==
  ASSUME AInv, NEW w \in Workers, NEW e \in Emails, ForgotPassword(w, e)
  PROVE  AInv'
<1>1. PICK u \in Users : HasEmail(u, e)
              /\ Begin(w, [Idle EXCEPT !.op = "forgot", !.pc = "code", !.user = u, !.to = e])
  BY DEF ForgotPassword
<1> DEFINE s == [Idle EXCEPT !.op = "forgot", !.pc = "code", !.user = u, !.to = e]
<1>2. s \in Request
  BY Found, Rows, <1>1 DEF Idle, Request, Ops, Calls
<1>3. WellFormed(s) /\ StillTrue(s) /\ (s.pc = "issue" => s.token = 0)
  BY <1>1, Found DEF Idle, WellFormed, StillTrue
<1> QED BY <1>1, <1>2, <1>3, BeginPreserves DEF ForgotPassword

LEMMA LoginPreserves ==
  ASSUME AInv, NEW w \in Workers, NEW e \in Emails, NEW p \in Passwords, Login(w, e, p)
  PROVE  AInv'
<1>1. PICK u \in Users : HasEmail(u, e)
              /\ Begin(w, [Idle EXCEPT !.op = "login", !.pc = "issue", !.user = u, !.era = era[u]])
  BY DEF Login
<1> DEFINE s == [Idle EXCEPT !.op = "login", !.pc = "issue", !.user = u, !.era = era[u]]
<1>2. s \in Request
  BY Found, Rows, <1>1 DEF Idle, Request, Ops, Calls
<1>3. WellFormed(s) /\ StillTrue(s) /\ (s.pc = "issue" => s.token = 0)
  BY <1>1, Found DEF Idle, WellFormed, StillTrue
<1> QED BY <1>1, <1>2, <1>3, BeginPreserves DEF Login

LEMMA VerifyPreserves ==
  ASSUME AInv, NEW w \in Workers, NEW e \in Emails, NEW c \in DOMAIN codes \cup {0}, VerifyEmail(w, e, c)
  PROVE  AInv'
<1>1. PICK u \in Users : HasEmail(u, e)
              /\ Begin(w, [Idle EXCEPT !.op = "verify_email",
                                    !.pc = IF users[u].verified THEN "issue" ELSE "find",
                                    !.user = u, !.code = c, !.era = era[u]])
  BY DEF VerifyEmail
<1> DEFINE s == [Idle EXCEPT !.op = "verify_email",
                                    !.pc = IF users[u].verified THEN "issue" ELSE "find",
                                    !.user = u, !.code = c, !.era = era[u]]
<1>2. s \in Request
  <2>1. c \in Nat /\ era[u] \in Nat
    BY Rows
  <2>2. CASE users[u].verified
    BY <2>1, <2>2 DEF Idle, Request, Ops, Calls
  <2>3. CASE ~users[u].verified
    BY <2>1, <2>3 DEF Idle, Request, Ops, Calls
  <2> QED BY <2>2, <2>3
<1>3. WellFormed(s) /\ StillTrue(s) /\ (s.pc = "issue" => s.token = 0)
  BY <1>1, Found DEF Idle, WellFormed, StillTrue
<1> QED BY <1>1, <1>2, <1>3, BeginPreserves DEF VerifyEmail

LEMMA ResetPreserves ==
  ASSUME AInv, NEW w \in Workers, NEW e \in Emails, NEW p \in Passwords, NEW c \in DOMAIN codes, ResetPassword(w, e, p, c)
  PROVE  AInv'
<1>1. PICK u \in Users : HasEmail(u, e)
              /\ Begin(w, [Idle EXCEPT !.op = "reset", !.pc = "find", !.user = u, !.new = p, !.code = c])
  BY DEF ResetPassword
<1> DEFINE s == [Idle EXCEPT !.op = "reset", !.pc = "find", !.user = u, !.new = p, !.code = c]
<1>2. s \in Request
  BY Found, Rows, <1>1 DEF Idle, Request, Ops, Calls
<1>3. WellFormed(s) /\ StillTrue(s) /\ (s.pc = "issue" => s.token = 0)
  BY <1>1, Found DEF Idle, WellFormed, StillTrue
<1> QED BY <1>1, <1>2, <1>3, BeginPreserves DEF ResetPassword

LEMMA RefreshPreserves ==
  ASSUME AInv, NEW w \in Workers, NEW t \in DOMAIN issued, Refresh(w, t)
  PROVE  AInv'
<1> DEFINE u == issued[t].user
           s == [Idle EXCEPT !.op = "refresh", !.pc = "delete", !.user = u, !.token = t, !.era = era[u]]
<1>1. u \in Users /\ Exists(u) /\ t \in Nat \ {0} /\ era[u] \in Nat
  BY Rows, Parts DEF TablesFine, IssuedInOrder, TokenRow
<1>2. s \in Request
  BY <1>1 DEF Idle, Request, Ops, Calls
<1>3. WellFormed(s) /\ StillTrue(s) /\ s.pc # "issue"
  BY <1>1 DEF Idle, WellFormed, StillTrue, Refresh, GetRefreshToken
<1> QED BY <1>2, <1>3, BeginPreserves DEF Refresh

LEMMA UpdateProfilePreserves ==
  ASSUME AInv, NEW w \in Workers, NEW u \in Users, NEW q \in Passwords \cup {None},
         NEW p \in Passwords \cup {None}, UpdateProfile(w, u, q, p)
  PROVE  AInv'
<1> DEFINE s == [Idle EXCEPT !.op = IF p = None THEN "rename" ELSE "password", !.pc = "update", !.user = u,
                             !.to = users[u].email, !.new = IF p = None THEN users[u].password ELSE p]
<1>1. Exists(u) /\ users[u] \in UserRow
  BY SignedIn DEF UpdateProfile
<1>2. s \in Request
  BY <1>1 DEF Idle, Request, Ops, Calls, UserRow
<1>3. WellFormed(s) /\ StillTrue(s) /\ s.pc # "issue"
  BY <1>1 DEF Idle, WellFormed, StillTrue, UserRow
<1> QED BY <1>2, <1>3, BeginPreserves DEF UpdateProfile

LEMMA RequestEmailChangePreserves ==
  ASSUME AInv, NEW w \in Workers, NEW u \in Users, NEW e \in Emails, RequestEmailChange(w, u, e)
  PROVE  AInv'
<1> DEFINE s == [Idle EXCEPT !.op = "request", !.pc = "existing", !.user = u, !.to = e]
<1>1. s \in Request
  BY DEF Idle, Request, Ops, Calls
<1>2. WellFormed(s) /\ StillTrue(s) /\ s.pc # "issue"
  BY SignedIn DEF Idle, WellFormed, StillTrue, RequestEmailChange
<1> QED BY <1>1, <1>2, BeginPreserves DEF RequestEmailChange

LEMMA ConfirmEmailChangePreserves ==
  ASSUME AInv, NEW w \in Workers, NEW u \in Users, NEW c \in DOMAIN codes, ConfirmEmailChange(w, u, c)
  PROVE  AInv'
<1> DEFINE s == [Idle EXCEPT !.op = "confirm", !.pc = "find", !.user = u, !.code = c,
                             !.to = users[u].pending, !.new = users[u].password, !.loose = u \in loose]
<1>1. users[u] \in UserRow /\ users[u].pending # None /\ Exists(u) /\ c \in Nat
  BY SignedIn, Rows DEF ConfirmEmailChange
<1>2. s \in Request
  <2> DEFINE l == u \in loose
  <2>1. l \in BOOLEAN
    OBVIOUS
  <2> HIDE DEF l
  <2>2. [Idle EXCEPT !.op = "confirm", !.pc = "find", !.user = u, !.code = c,
                     !.to = users[u].pending, !.new = users[u].password, !.loose = l] \in Request
    BY <1>1, <2>1 DEF Idle, Request, Ops, Calls, UserRow
  <2> QED BY <2>2 DEF l
<1>3. WellFormed(s) /\ StillTrue(s) /\ s.pc # "issue"
  BY <1>1 DEF Idle, WellFormed, StillTrue, UserRow
<1> QED BY <1>2, <1>3, BeginPreserves DEF ConfirmEmailChange

-----------------------------------------------------------------------------
(* Calls that change an account.                                           *)

\* The requests on an account are under way.
LEMMA Overtaken ==
  ASSUME AInv, NEW w \in Workers, NEW u \in Users
  PROVE  OthersOn(w, u) \subseteq Workers /\ \A v \in OthersOn(w, u) : req[v] # Idle
BY IdleIsNoRequest, AuthAssumption DEF OthersOn

LEMMA AccountWritten ==
  ASSUME AInv, NEW u \in Users, NEW row \in UserRow, Write(u, row),
         UNCHANGED <<codes, tokens, issued, era>>,
         loose' \subseteq Users, begun' \in Nat, faults' \in Nat
  PROVE  /\ Grows /\ TablesTyped' /\ TablesFine' /\ Exists(u)' /\ users'[u] = row
         /\ \A v \in Workers :
              req[v] # Idle /\ req[v].pc # "create" /\ req[v].user # u => Undisturbed(req[v])
<1>1. TablesTyped /\ TablesFine
  BY Parts
<1>2. users' = [users EXCEPT ![u] = row] /\ row # NoUser
  BY AuthAssumption DEF Write, UserRow, NoUser
<1>3. \A v \in Users : Exists(v) => Exists(v)'
  BY <1>1, <1>2 DEF Exists, TablesTyped
<1>4. Exists(u)' /\ users'[u] = row
  BY <1>1, <1>2 DEF Exists, TablesTyped
<1>5. TablesTyped'
  BY <1>1, <1>2 DEF TablesTyped
<1>6. Grows
  BY <1>3 DEF Grows
<1>7. IssuedInOrder'
  <2> SUFFICES ASSUME NEW t \in DOMAIN issued
               PROVE  /\ Exists(issued[t].user)' /\ issued[t].session \in 1 .. t
                      /\ \A x \in DOMAIN issued :
                           issued[x].session = issued[t].session => issued[x].user = issued[t].user
    BY DEF IssuedInOrder, Exists
  <2>1. issued[t].user \in Users
    BY Rows DEF TokenRow
  <2> QED BY <1>1, <1>3, <2>1 DEF TablesFine, IssuedInOrder, Exists
<1>8. TablesFine'
  BY <1>1, <1>7 DEF TablesFine, SessionsEndWithReset, OneTokenPerSession
<1>9. ASSUME NEW v \in Workers, req[v] # Idle, req[v].pc # "create", req[v].user # u
      PROVE  Undisturbed(req[v])
  <2>1. req[v].user \in Users
    BY <1>9, UnderWay DEF WellFormed
  <2> QED BY <1>1, <1>2, <1>9, <2>1 DEF Undisturbed, TablesTyped
<1> QED BY <1>3, <1>4, <1>5, <1>6, <1>8, <1>9

\* A call that changes a row of users, and overtakes the other requests on it.
LEMMA AccountStepPreserves ==
  ASSUME AInv, NEW w \in Workers, NEW u \in Users, NEW row \in UserRow, Write(u, row),
         UNCHANGED <<codes, tokens, issued, era>>,
         loose' \subseteq Users, begun' \in Nat, faults' \in Nat,
         NEW s, s \in Request \cup {Idle}, Move(w, s, OthersOn(w, u)),
         s # Idle => WellFormed(req[w])' /\ StillTrue(req[w])',
         s.pc = "issue" => s.token = 0
  PROVE  AInv'
<1>1. /\ Grows /\ TablesTyped' /\ TablesFine'
      /\ \A v \in Workers :
           req[v] # Idle /\ req[v].pc # "create" /\ req[v].user # u => Undisturbed(req[v])
  BY AccountWritten
<1>2. \A v \in Workers \ {w} : req[v] # Idle =>
        v \in OthersOn(w, u) \/ req[v].pc = "create" \/ Undisturbed(req[v])
  BY <1>1 DEF OthersOn
<1>3. req'[w] = s
  BY DEF Move
<1>4. \A v \in Workers \ {w} : ~Rivals(req[w], req[v])'
  BY <1>3 DEF Rivals
<1> QED BY <1>1, <1>2, <1>4, Overtaken, StepPreserves

LEMMA RowOf ==
  ASSUME AInv, NEW u \in Users, Exists(u)
  PROVE  users[u] \in UserRow
BY Parts DEF TablesTyped, Exists

LEMMA SetPendingEmailPreserves ==
  ASSUME AInv, NEW w \in Workers, SetPendingEmail(w)
  PROVE  AInv'
<1> DEFINE u == req[w].user
           row == [users[u] EXCEPT !.pending = req[w].to]
           s == [req[w] EXCEPT !.pc = "code"]
<1>1. req[w] \in Request /\ WellFormed(req[w]) /\ At(w, "pending")
  BY AtCall DEF SetPendingEmail, At
<1>2. u \in Users /\ Exists(u) /\ req[w].to \in Emails
  BY <1>1 DEF WellFormed, At
<1>3. row \in UserRow
  BY <1>2, RowOf DEF UserRow
<1>4. s \in Request
  BY <1>1 DEF Request, Calls
<1>5. UNCHANGED <<codes, tokens, issued, era, begun, faults>> /\ loose' \subseteq Users /\ Write(u, row)
      /\ Move(w, s, OthersOn(w, u)) /\ begun \in Nat /\ faults \in Nat
  BY <1>2, Parts DEF SetPendingEmail, TablesTyped
<1>6. req'[w] = s /\ Exists(u)' /\ s.pc = "code" /\ s.user = u /\ s.to = req[w].to /\ s.token = req[w].token
  BY <1>1, <1>2, <1>3, <1>5, AccountWritten DEF Move, Request
<1>7. WellFormed(req[w])' /\ StillTrue(req[w])'
  BY <1>1, <1>2, <1>5, <1>6 DEF WellFormed, StillTrue
<1> QED BY <1>2, <1>3, <1>4, <1>5, <1>6, <1>7, AccountStepPreserves

LEMMA ClearPendingPreserves ==
  ASSUME AInv, NEW w \in Workers, NEW u \in Users, Exists(u), ClearPending(w, u),
         UNCHANGED <<codes, tokens, faults, history>>, begun' \in Nat
  PROVE  AInv'
<1> DEFINE row == [users[u] EXCEPT !.pending = None]
<1>1. row \in UserRow
  BY RowOf DEF UserRow
<1>2. loose' \subseteq Users /\ faults' \in Nat /\ UNCHANGED <<issued, era>> /\ Idle.pc # "issue"
  BY Parts, IdleIsNoRequest DEF TablesTyped, history
<1> QED BY <1>1, <1>2, AccountStepPreserves DEF ClearPending

LEMMA ClearPendingEmailPreserves ==
  ASSUME AInv, NEW w \in Workers, ClearPendingEmail(w)
  PROVE  AInv'
<1>1. req[w].user \in Users /\ Exists(req[w].user)
  BY AtCall DEF ClearPendingEmail, At, WellFormed
<1> QED BY <1>1, Parts, ClearPendingPreserves DEF ClearPendingEmail, TablesTyped

LEMMA CancelEmailChangePreserves ==
  ASSUME AInv, NEW w \in Workers, NEW u \in Users, CancelEmailChange(w, u)
  PROVE  AInv'
<1>1. Exists(u) /\ begun \in Nat
  BY SignedIn, Parts DEF CancelEmailChange, TablesTyped
<1> QED BY <1>1, ClearPendingPreserves DEF CancelEmailChange

LEMMA SetVerifiedPreserves ==
  ASSUME AInv, NEW w \in Workers, SetVerified(w)
  PROVE  AInv'
<1> DEFINE u == req[w].user
           row == [users[u] EXCEPT !.verified = TRUE]
           s == [req[w] EXCEPT !.pc = "issue"]
<1>1. req[w] \in Request /\ WellFormed(req[w]) /\ StillTrue(req[w]) /\ At(w, "verify")
  BY AtCall DEF SetVerified, At
<1>2. u \in Users /\ Exists(u) /\ req[w].token = 0
  BY <1>1 DEF WellFormed, At
<1>3. row \in UserRow
  BY <1>2, RowOf DEF UserRow
<1>4. s \in Request
  BY <1>1 DEF Request, Calls
<1>5. UNCHANGED <<codes, tokens, issued, era, begun, faults>> /\ loose' \subseteq Users /\ Write(u, row)
      /\ Move(w, s, OthersOn(w, u)) /\ begun \in Nat /\ faults \in Nat
  BY <1>2, Parts DEF SetVerified, TablesTyped, history
<1>6. req'[w] = s /\ Exists(u)' /\ s.pc = "issue" /\ s.user = u /\ s.token = 0
      /\ s.raced = req[w].raced /\ s.era = req[w].era
  BY <1>1, <1>2, <1>3, <1>5, AccountWritten DEF Move, Request
<1>7. WellFormed(req[w])' /\ StillTrue(req[w])'
  BY <1>1, <1>2, <1>5, <1>6 DEF WellFormed, StillTrue, At
<1> QED BY <1>2, <1>3, <1>4, <1>5, <1>6, <1>7, AccountStepPreserves

LEMMA UpdatePasswordPreserves ==
  ASSUME AInv, NEW w \in Workers, UpdatePassword(w)
  PROVE  AInv'
<1> DEFINE u == req[w].user
           row == [users[u] EXCEPT !.password = req[w].new]
           s == [req[w] EXCEPT !.pc = "revoke"]
<1>1. req[w] \in Request /\ WellFormed(req[w]) /\ At(w, "password")
  BY AtCall DEF UpdatePassword, At
<1>2. u \in Users /\ Exists(u) /\ req[w].new \in Passwords
  BY <1>1 DEF WellFormed, At
<1>3. row \in UserRow
  BY <1>2, RowOf DEF UserRow
<1>4. s \in Request
  BY <1>1 DEF Request, Calls
<1>5. UNCHANGED <<codes, tokens, issued, era, begun, faults>> /\ loose' \subseteq Users /\ Write(u, row)
      /\ Move(w, s, OthersOn(w, u)) /\ begun \in Nat /\ faults \in Nat
  BY <1>2, Parts DEF UpdatePassword, TablesTyped, history
<1>6. req'[w] = s /\ Exists(u)' /\ s.pc = "revoke" /\ s.user = u /\ s.token = req[w].token
  BY <1>1, <1>2, <1>3, <1>5, AccountWritten DEF Move, Request
<1>7. WellFormed(req[w])' /\ StillTrue(req[w])'
  BY <1>1, <1>2, <1>5, <1>6 DEF WellFormed, StillTrue
<1> QED BY <1>2, <1>3, <1>4, <1>5, <1>6, <1>7, AccountStepPreserves

LEMMA WriteBackPreserves ==
  ASSUME AInv, NEW w \in Workers, WriteBack(w)
  PROVE  AInv'
<1> DEFINE u == req[w].user
           row == [users[u] EXCEPT !.email = req[w].to, !.password = req[w].new]
<1>1. req[w] \in Request /\ WellFormed(req[w]) /\ At(w, "update")
  BY AtCall DEF WriteBack, At
<1>2. u \in Users /\ Exists(u) /\ req[w].to \in Emails /\ req[w].new \in Passwords
  BY <1>1 DEF WellFormed, At
<1>3. row \in UserRow
  BY <1>2, RowOf DEF UserRow
<1>4. UNCHANGED <<codes, tokens, issued, era, begun, faults>> /\ loose' \subseteq Users
      /\ begun \in Nat /\ faults \in Nat
  BY Parts DEF WriteBack, TablesTyped, history
<1>5. ASSUME NEW pc \in {"code", "clear"}, Move(w, [req[w] EXCEPT !.pc = pc], OthersOn(w, u)), Write(u, row)
      PROVE  AInv'
  <2> DEFINE s == [req[w] EXCEPT !.pc = pc]
  <2>1. s \in Request
    BY <1>1 DEF Request, Calls
  <2>2. req'[w] = s /\ Exists(u)' /\ s.pc = pc /\ s.user = u /\ s.to = req[w].to /\ s.token = req[w].token
    BY <1>1, <1>2, <1>3, <1>4, <1>5, AccountWritten DEF Move, Request
  <2>3. WellFormed(req[w])' /\ StillTrue(req[w])'
    BY <1>1, <1>2, <1>4, <2>2 DEF WellFormed, StillTrue
  <2> QED BY <1>2, <1>3, <1>4, <1>5, <2>1, <2>2, <2>3, AccountStepPreserves
<1>6. ASSUME Move(w, Idle, OthersOn(w, u)), Write(u, row) PROVE AInv'
  BY <1>2, <1>3, <1>4, <1>6, IdleIsNoRequest, AccountStepPreserves
<1>7. ASSUME Return(w), UNCHANGED users PROVE AInv'
  BY <1>4, <1>7, IdleIsNoRequest, QuietStepPreserves DEF Return, tables, history, WriteBack
<1> QED BY <1>5, <1>6, <1>7 DEF WriteBack, UpdateUser

LEMMA CreateUserPreserves ==
  ASSUME AInv, NEW w \in Workers, NEW u \in Users, CreateUser(w, u)
  PROVE  AInv'
<1> DEFINE row == [email |-> req[w].to, password |-> req[w].new, verified |-> FALSE, pending |-> None]
           s == [req[w] EXCEPT !.pc = "code", !.user = u]
<1>1. req[w] \in Request /\ WellFormed(req[w]) /\ At(w, "create")
  BY AtCall DEF CreateUser, At
<1>2. row \in UserRow /\ s \in Request
  BY <1>1 DEF UserRow, WellFormed, At, Request, Calls
<1>3. UNCHANGED <<codes, tokens, issued, era>> /\ loose' \subseteq Users /\ begun' \in Nat /\ faults' \in Nat
  BY Parts DEF CreateUser, TablesTyped, history
<1>4. CASE ~Exists(u) /\ Write(u, row) /\ Move(w, s, {})
  <2>1. /\ Grows /\ TablesTyped' /\ TablesFine' /\ Exists(u)'
        /\ \A v \in Workers :
             req[v] # Idle /\ req[v].pc # "create" /\ req[v].user # u => Undisturbed(req[v])
    BY <1>2, <1>3, <1>4, AccountWritten
  <2>2. \A v \in Workers \ {w} : req[v] # Idle => req[v].pc = "create" \/ Undisturbed(req[v])
    BY <1>4, <2>1, UnderWay DEF WellFormed
  <2>3. req'[w] = s /\ s.pc = "code" /\ s.user = u /\ s.to = req[w].to /\ s.token = req[w].token
    BY <1>1, <1>4 DEF Move, Request
  <2>4. req[w].token = 0
    BY <1>1 DEF WellFormed, At
  <2>5. WellFormed(req[w])' /\ StillTrue(req[w])'
    BY <1>1, <2>1, <2>3, <2>4 DEF WellFormed, StillTrue, At
  <2>6. \A v \in Workers \ {w} : ~Rivals(req[w], req[v])'
    BY <2>3 DEF Rivals
  <2> QED BY <1>2, <1>4, <2>1, <2>2, <2>5, <2>6, StepPreserves
<1>5. CASE ~Exists(u) /\ Write(u, row) /\ Move(w, Idle, {})
  <2>1. /\ Grows /\ TablesTyped' /\ TablesFine' /\ Exists(u)'
        /\ \A v \in Workers :
             req[v] # Idle /\ req[v].pc # "create" /\ req[v].user # u => Undisturbed(req[v])
    BY <1>2, <1>3, <1>5, AccountWritten
  <2>2. \A v \in Workers \ {w} : req[v] # Idle => req[v].pc = "create" \/ Undisturbed(req[v])
    BY <1>5, <2>1, UnderWay DEF WellFormed
  <2>3. req'[w] = Idle
    BY <1>5 DEF Move
  <2>4. \A v \in Workers \ {w} : ~Rivals(req[w], req[v])'
    BY <2>3 DEF Rivals, Idle
  <2> QED BY <1>5, <2>1, <2>2, <2>3, <2>4, StepPreserves
<1>6. CASE Return(w) /\ UNCHANGED users
  BY <1>3, <1>6, IdleIsNoRequest, QuietStepPreserves DEF Return, tables, history, CreateUser
<1> QED BY <1>4, <1>5, <1>6 DEF CreateUser

LEMMA CheckExistingPreserves ==
  ASSUME AInv, NEW w \in Workers, CheckExisting(w)
  PROVE  AInv'
<1> DEFINE s == [req[w] EXCEPT !.pc = "pending"]
<1>1. req[w] \in Request /\ WellFormed(req[w]) /\ At(w, "existing")
  BY AtCall DEF CheckExisting, At
<1>2. begun' \in Nat /\ faults' \in Nat
  BY Parts DEF CheckExisting, TablesTyped
<1>3. ASSUME Move(w, s, {}) PROVE AInv'
  <2>1. s \in Request /\ s.pc = "pending" /\ s.user = req[w].user /\ s.to = req[w].to /\ s.token = req[w].token
    BY <1>1 DEF Request, Calls
  <2>2. WellFormed(s) /\ StillTrue(s)
    BY <1>1, <2>1 DEF WellFormed, StillTrue, At
  <2> QED BY <1>2, <1>3, <2>1, <2>2, QuietStepPreserves DEF CheckExisting
<1>4. ASSUME Return(w) PROVE AInv'
  BY <1>2, <1>4, IdleIsNoRequest, QuietStepPreserves DEF Return, CheckExisting
<1> QED BY <1>3, <1>4 DEF CheckExisting, Goto

LEMMA GetLatestCodePreserves ==
  ASSUME AInv, NEW w \in Workers, GetLatestCode(w)
  PROVE  AInv'
<1> DEFINE s == [req[w] EXCEPT !.pc = "mark"]
<1>1. req[w] \in Request /\ WellFormed(req[w]) /\ StillTrue(req[w]) /\ At(w, "find")
  BY AtCall DEF GetLatestCode, At
<1>2. begun' \in Nat /\ faults' \in Nat
  BY Parts DEF GetLatestCode, TablesTyped
<1>3. ASSUME Move(w, s, {}), IsLatest(req[w].code, req[w].user, PurposeOf(w)) PROVE AInv'
  <2>1. s \in Request /\ s.pc = "mark"
    BY <1>1 DEF Request, Calls
  <2>2. /\ s.op = req[w].op /\ s.user = req[w].user /\ s.to = req[w].to /\ s.new = req[w].new
        /\ s.code = req[w].code /\ s.token = req[w].token /\ s.era = req[w].era /\ s.raced = req[w].raced
    BY <1>1 DEF Request
  <2>3. /\ req[w].code \in DOMAIN codes /\ codes[req[w].code].user = req[w].user
        /\ codes[req[w].code].state # "used"
    BY <1>3 DEF IsLatest
  <2>4. WellFormed(s) /\ StillTrue(s)
    BY <1>1, <2>1, <2>2, <2>3 DEF WellFormed, StillTrue, At
  <2> QED BY <1>2, <1>3, <2>1, <2>4, QuietStepPreserves DEF GetLatestCode
<1>4. ASSUME Return(w) PROVE AInv'
  BY <1>2, <1>4, IdleIsNoRequest, QuietStepPreserves DEF Return, GetLatestCode
<1> QED BY <1>3, <1>4 DEF GetLatestCode, Goto

LEMMA CallFailsPreserves ==
  ASSUME AInv, NEW w \in Workers, CallFails(w)
  PROVE  AInv'
<1>1. begun' \in Nat /\ faults' \in Nat
  BY Parts DEF CallFails, TablesTyped
<1> QED BY <1>1, IdleIsNoRequest, QuietStepPreserves DEF Return, CallFails

LEMMA CrashPreserves ==
  ASSUME AInv, Crash
  PROVE  AInv'
<1>1. begun' \in Nat /\ faults' \in Nat /\ UNCHANGED <<tables, history>>
  BY Parts DEF Crash, TablesTyped
<1>2. TablesTyped' /\ TablesFine'
  BY <1>1, Quiet
<1>3. \A w \in Workers : req'[w] = Idle
  BY DEF Crash
<1>4. req' \in [Workers -> Request \cup {Idle}]
  BY DEF Crash
<1>5. \A v, w \in Workers : ~Rivals(req[v], req[w])'
  BY <1>3, IdleIsNoRequest DEF Rivals
<1> QED BY <1>2, <1>3, <1>4, <1>5 DEF AInv, TypeOK, TablesTyped, TablesFine

-----------------------------------------------------------------------------
(* Calls on codes.                                                         *)

\* The rows of codes may be added to, or change their state.
LEMMA CodesWritten ==
  ASSUME AInv, UNCHANGED <<users, tokens, issued, era>>,
         loose' \subseteq Users, begun' \in Nat, faults' \in Nat,
         codes' \in Seq(CodeRow), DOMAIN codes \subseteq DOMAIN codes',
         \A c \in DOMAIN codes : codes'[c].user = codes[c].user,
         \A c \in DOMAIN codes' : codes'[c].state # "used" => codes'[c].uses = 0
  PROVE  Grows /\ TablesTyped' /\ TablesFine'
<1>1. TablesTyped /\ TablesFine
  BY Parts
<1>2. Grows
  BY DEF Grows, Exists
<1>3. TablesTyped'
  BY <1>1 DEF TablesTyped
<1>4. IssuedInOrder' /\ SessionsEndWithReset' /\ OneTokenPerSession'
  BY <1>1 DEF TablesFine, IssuedInOrder, Exists, SessionsEndWithReset, OneTokenPerSession
<1>5. TablesFine'
  BY <1>4 DEF TablesFine
<1> QED BY <1>2, <1>3, <1>5

LEMMA sendCodePreserves ==
  ASSUME AInv, NEW w \in Workers, sendCode(w)
  PROVE  AInv'
<1> DEFINE row == [user |-> req[w].user, purpose |-> PurposeOf(w), to |-> req[w].to, state |-> "live", uses |-> 0]
<1>1. req[w].user \in Users /\ req[w].to \in Emails
  BY AtCall DEF sendCode, At, WellFormed
<1>2. row \in CodeRow
  BY <1>1 DEF CodeRow, PurposeOf, Purposes
<1>3. codes \in Seq(CodeRow) /\ loose \subseteq Users /\ begun \in Nat /\ faults \in Nat
  BY Parts DEF TablesTyped
<1>4. codes' = Append(codes, row)
  BY DEF sendCode, CreateVerificationCode
<1>5. codes' \in Seq(CodeRow) /\ Len(codes') = Len(codes) + 1 /\ codes'[Len(codes) + 1] = row
      /\ \A c \in 1 .. Len(codes) : codes'[c] = codes[c]
  BY <1>2, <1>3, <1>4
<1>6. DOMAIN codes \subseteq DOMAIN codes' /\ \A c \in DOMAIN codes' : c \in DOMAIN codes \/ codes'[c] = row
  BY <1>3, <1>5
<1>7. \A c \in DOMAIN codes : codes'[c] = codes[c]
  BY <1>3, <1>5
<1>8. \A c \in DOMAIN codes : codes[c].state # "used" => codes[c].uses = 0
  BY DEF AInv
<1>9. loose' \subseteq Users
  BY <1>1, <1>3 DEF sendCode
<1>10. UNCHANGED <<users, tokens, issued, era>> /\ begun' \in Nat /\ faults' \in Nat
  BY <1>3 DEF sendCode
<1>11. Grows /\ TablesTyped' /\ TablesFine'
  BY <1>5, <1>6, <1>7, <1>8, <1>9, <1>10, CodesWritten
<1>12. \A v \in Workers : Undisturbed(req[v])
  BY <1>7, <1>10 DEF Undisturbed
<1>13. \A v \in Workers \ {w} : ~Rivals(req[w], req[v])'
  BY IdleIsNoRequest DEF sendCode, Return, Move, Rivals
<1> QED BY <1>11, <1>12, <1>13, StepPreserves DEF sendCode, Return

LEMMA MarkCodeUsedPreserves ==
  ASSUME AInv, NEW w \in Workers, MarkCodeUsed(w)
  PROVE  AInv'
<1> DEFINE c == req[w].code
           u == req[w].user
           row == UsedCode(c)
<1>1. req[w] \in Request /\ WellFormed(req[w]) /\ StillTrue(req[w]) /\ At(w, "mark")
  BY AtCall DEF MarkCodeUsed, At
<1>2. c \in DOMAIN codes /\ codes[c].user = u /\ codes[c] \in CodeRow /\ u \in Users
  BY <1>1, Rows DEF WellFormed, At
<1>4. row \in CodeRow /\ row.user = u /\ row.state = "used"
  <2>1. row = [codes[c] EXCEPT !.state = "used", !.uses = codes[c].uses + 1]
    BY DEF UsedCode
  <2>2. codes[c].uses + 1 \in Nat
    BY <1>2 DEF CodeRow
  <2> QED BY <1>2, <2>1, <2>2 DEF CodeRow
<1>5. codes \in Seq(CodeRow) /\ loose \subseteq Users /\ begun \in Nat /\ faults \in Nat
  BY Parts DEF TablesTyped
<1>6. codes' = [codes EXCEPT ![c] = row]
  BY DEF MarkCodeUsed
<1>7. codes' \in Seq(CodeRow) /\ DOMAIN codes' = DOMAIN codes /\ codes'[c] = row
      /\ \A d \in DOMAIN codes : d # c => codes'[d] = codes[d]
  BY <1>2, <1>4, <1>5, <1>6, ExceptSeq
<1>8. \A d \in DOMAIN codes : codes[d].state # "used" => codes[d].uses = 0
  BY DEF AInv
<1>9. UNCHANGED <<users, tokens, issued, era>> /\ begun' \in Nat /\ faults' \in Nat /\ loose' \subseteq Users
  BY <1>5 DEF MarkCodeUsed, history
<1>10. Grows /\ TablesTyped' /\ TablesFine'
  BY <1>2, <1>4, <1>7, <1>8, <1>9, CodesWritten
<1>11. \A v \in Workers \ {w} : req[v] # Idle => v \in OthersOn(w, u) \/ Undisturbed(req[v])
  BY <1>2, <1>7, <1>9 DEF Undisturbed, OthersOn
<1>12. ASSUME NEW pc \in {"update", "verify", "password"},
              req[w].op = "confirm" <=> pc = "update", req[w].op = "verify_email" <=> pc = "verify",
              Move(w, [req[w] EXCEPT !.pc = pc], OthersOn(w, u))
       PROVE  AInv'
  <2> DEFINE s == [req[w] EXCEPT !.pc = pc]
  <2>1. s \in Request
    BY <1>1 DEF Request, Calls
  <2>2. /\ s.op = req[w].op /\ s.user = req[w].user /\ s.to = req[w].to /\ s.new = req[w].new /\ s.pc = pc
        /\ s.code = req[w].code /\ s.token = req[w].token /\ s.era = req[w].era /\ s.raced = req[w].raced
    BY <1>1 DEF Request
  <2>3. req'[w] = s
    BY <1>12 DEF Move
  <2>4. WellFormed(req[w])'
    BY <1>1, <1>9, <1>12, <2>2, <2>3 DEF WellFormed, At, Exists
  <2>5. StillTrue(req[w])'
    BY <1>1, <1>9, <1>12, <2>2, <2>3 DEF WellFormed, StillTrue, At
  <2>6. \A v \in Workers \ {w} : ~Rivals(req[w], req[v])'
    BY <2>2, <2>3 DEF Rivals
  <2> HIDE DEF s
  <2> QED BY <1>2, <1>10, <1>11, <1>12, <2>1, <2>4, <2>5, <2>6, Overtaken, StepPreserves DEF s
<1>13. req[w].op \in {"confirm", "verify_email", "reset"}
  BY <1>1 DEF WellFormed, At
<1>14. CASE req[w].op = "confirm"
  BY <1>12, <1>14 DEF MarkCodeUsed
<1>15. CASE req[w].op = "verify_email"
  BY <1>12, <1>15 DEF MarkCodeUsed
<1>16. CASE req[w].op = "reset"
  BY <1>12, <1>16 DEF MarkCodeUsed
<1> QED BY <1>13, <1>14, <1>15, <1>16

LEMMA CodeExpiresPreserves ==
  ASSUME AInv, CodeExpires
  PROVE  AInv'
<1>1. PICK c \in DOMAIN codes : codes[c].state = "live" /\ codes' = [codes EXCEPT ![c].state = "expired"]
  BY DEF CodeExpires
<1> DEFINE row == [codes[c] EXCEPT !.state = "expired"]
<1>2. codes \in Seq(CodeRow) /\ loose \subseteq Users /\ begun \in Nat /\ faults \in Nat
  BY Parts DEF TablesTyped
<1>3. codes[c] \in CodeRow
  BY Rows
<1>4. row \in CodeRow /\ row.user = codes[c].user /\ row.state = "expired" /\ row.uses = codes[c].uses
  BY <1>3 DEF CodeRow
<1>5. codes' \in Seq(CodeRow) /\ DOMAIN codes' = DOMAIN codes /\ codes'[c] = row
      /\ \A d \in DOMAIN codes : d # c => codes'[d] = codes[d]
  BY <1>1, <1>2, <1>4, ExceptSeq
<1>6. \A d \in DOMAIN codes : codes[d].state # "used" => codes[d].uses = 0
  BY DEF AInv
<1>7. UNCHANGED <<users, tokens, req, begun, faults, issued, era, loose>>
  BY DEF CodeExpires, history
<1>8. Grows /\ TablesTyped' /\ TablesFine'
  BY <1>1, <1>2, <1>4, <1>5, <1>6, <1>7, CodesWritten
<1>9. \A v \in Workers : Undisturbed(req[v])
  BY <1>4, <1>5, <1>7 DEF Undisturbed
<1>10. \A v \in Workers : req'[v] = req[v]
  BY <1>7
<1>11. \A v \in Workers : req'[v] # Idle => WellFormed(req[v])' /\ StillTrue(req[v])'
  BY <1>8, <1>9, <1>10, OthersKnow, OthersStillRight DEF TablesFine
<1>12. \A v, w \in Workers : v # w => ~Rivals(req[v], req[w])'
  BY <1>7 DEF AInv, Rivals
<1>13. req' \in [Workers -> Request \cup {Idle}]
  BY <1>7 DEF AInv, TypeOK
<1> QED BY <1>8, <1>11, <1>12, <1>13 DEF AInv, TypeOK, TablesTyped, TablesFine

-----------------------------------------------------------------------------
(* Calls on sessions.                                                      *)

LEMMA TokensDeleted ==
  ASSUME AInv, UNCHANGED <<users, codes, issued, loose>>, tokens' \subseteq tokens,
         era' \in [Users -> Nat], begun' \in Nat, faults' \in Nat, SessionsEndWithReset'
  PROVE  Grows /\ TablesTyped' /\ TablesFine'
<1>1. TablesTyped /\ TablesFine
  BY Parts
<1>2. Grows
  BY DEF Grows, Exists
<1>3. TablesTyped'
  BY <1>1 DEF TablesTyped
<1>4. TablesFine'
  BY <1>1 DEF TablesFine, IssuedInOrder, Exists, OneTokenPerSession
<1> QED BY <1>2, <1>3, <1>4

\* One token is deleted, and the requests on its user's account are overtaken if it was there.
LEMMA TokenDeleted ==
  ASSUME AInv, NEW w \in Workers, NEW t \in DOMAIN issued, tokens' = tokens \ {t},
         UNCHANGED <<users, codes, issued, era, loose>>, begun' \in Nat, faults' \in Nat,
         NEW ov, ov = IF t \in tokens THEN OthersOn(w, issued[t].user) ELSE {}
  PROVE  /\ Grows /\ TablesTyped' /\ TablesFine'
         /\ ov \subseteq Workers /\ \A v \in ov : req[v] # Idle
         /\ \A v \in Workers \ {w} : v \in ov \/ Undisturbed(req[v])
<1>1. Grows /\ TablesTyped' /\ TablesFine'
  <2>1. SessionsEndWithReset'
    BY Parts DEF TablesFine, SessionsEndWithReset
  <2> QED BY <2>1, Parts, TokensDeleted DEF TablesTyped
<1>2. ov \subseteq Workers /\ \A v \in ov : req[v] # Idle
  BY Overtaken, Rows DEF TokenRow
<1>3. \A v \in Workers \ {w} : v \in ov \/ Undisturbed(req[v])
  BY DEF Undisturbed, OthersOn
<1> QED BY <1>1, <1>2, <1>3

LEMMA LogoutPreserves ==
  ASSUME AInv, NEW w \in Workers, NEW u \in Users, NEW t \in DOMAIN issued, Logout(w, u, t)
  PROVE  AInv'
<1> DEFINE ov == IF t \in tokens THEN OthersOn(w, issued[t].user) ELSE {}
<1>1. tokens' = tokens \ {t} /\ UNCHANGED <<users, codes, issued, era, loose>> /\ Move(w, Idle, ov)
  BY DEF Logout, history
<1>2. begun' \in Nat /\ faults' \in Nat
  BY Parts DEF Logout, TablesTyped
<1>3. \A v \in Workers \ {w} : ~Rivals(req[w], req[v])'
  BY <1>1, IdleIsNoRequest DEF Move, Rivals
<1> HIDE DEF ov
<1>4. /\ Grows /\ TablesTyped' /\ TablesFine'
      /\ ov \subseteq Workers /\ \A v \in ov : req[v] # Idle
      /\ \A v \in Workers \ {w} : v \in ov \/ Undisturbed(req[v])
  BY <1>1, <1>2, TokenDeleted DEF ov
<1> QED BY <1>1, <1>3, <1>4, StepPreserves

LEMMA DeleteRefreshTokenPreserves ==
  ASSUME AInv, NEW w \in Workers, DeleteRefreshToken(w)
  PROVE  AInv'
<1> DEFINE t == req[w].token
           s == [req[w] EXCEPT !.pc = "issue"]
           ov == IF t \in tokens THEN OthersOn(w, issued[t].user) ELSE {}
<1>1. req[w] \in Request /\ WellFormed(req[w]) /\ StillTrue(req[w]) /\ At(w, "delete")
  BY AtCall DEF DeleteRefreshToken, At
<1>2. t \in DOMAIN issued /\ issued[t].user = req[w].user /\ t # 0 /\ req[w].user \in Users
  BY <1>1 DEF WellFormed, At
<1>3. tokens' = tokens \ {t} /\ UNCHANGED <<users, codes, issued, era, loose>> /\ Move(w, s, ov)
  BY <1>2 DEF DeleteRefreshToken, history
<1>4. begun' \in Nat /\ faults' \in Nat
  BY Parts DEF DeleteRefreshToken, TablesTyped
<1>5. s \in Request
  BY <1>1 DEF Request, Calls
<1>6. req'[w] = s /\ s.pc = "issue" /\ s.user = req[w].user /\ s.token = t /\ s.raced = req[w].raced
      /\ s.era = req[w].era
  BY <1>1, <1>3 DEF Move, Request
<1>7. WellFormed(req[w])'
  BY <1>1, <1>2, <1>3, <1>6 DEF WellFormed, Exists
<1>8. StillTrue(req[w])'
  <2>1. ASSUME ~req[w].raced, NEW x \in tokens, Successor(req[w], x) PROVE x = t
    BY <1>1, <2>1 DEF StillTrue, At, Successor, AInv, OneTokenPerSession
  <2>2. req[w].raced \/ \A x \in tokens' : ~Successor(req[w], x)
    BY <1>3, <2>1
  <2> QED BY <1>1, <1>2, <1>3, <1>6, <2>2 DEF StillTrue, Successor, At
<1>9. \A v \in Workers \ {w} : ~Rivals(req[w], req[v])'
  <2> SUFFICES ASSUME NEW v \in Workers \ {w}, Rivals(req[w], req[v])' PROVE FALSE
    OBVIOUS
  <2>1. t \in tokens
    BY <1>1, <1>6 DEF Rivals, StillTrue, At
  <2>2. req'[v] = req[v] \/ req'[v] = [req[v] EXCEPT !.raced = TRUE]
    BY <1>3 DEF Move
  <2>3. req[v] # Idle
    BY <1>3, IdleIsNoRequest, Overtaken, <1>2 DEF Rivals, Move
  <2>4. req[v] \in Request /\ WellFormed(req[v])
    BY <2>3, UnderWay
  <2>5. req'[v] = req[v] /\ v \notin OthersOn(w, req[w].user)
    BY <1>2, <1>3, <2>1, <2>2, <2>4 DEF Rivals, Move, Request
  <2>6. issued[t].session = issued[req[v].token].session /\ req[v].token \in DOMAIN issued
        /\ issued[req[v].token].user = req[v].user
    BY <1>3, <1>6, <2>4, <2>5 DEF Rivals, WellFormed
  <2>7. req[v].user = req[w].user
    BY <1>2, <2>6 DEF AInv, IssuedInOrder
  <2> QED BY <2>5, <2>7 DEF OthersOn
<1> HIDE DEF ov, s
<1>10. /\ Grows /\ TablesTyped' /\ TablesFine'
       /\ ov \subseteq Workers /\ \A v \in ov : req[v] # Idle
       /\ \A v \in Workers \ {w} : v \in ov \/ Undisturbed(req[v])
  BY <1>2, <1>3, <1>4, TokenDeleted DEF ov
<1> QED BY <1>3, <1>5, <1>7, <1>8, <1>9, <1>10, StepPreserves

LEMMA DeleteUserTokensPreserves ==
  ASSUME AInv, NEW w \in Workers, DeleteUserTokens(w)
  PROVE  AInv'
<1> DEFINE u == req[w].user
<1>1. u \in Users
  BY AtCall DEF DeleteUserTokens, At, WellFormed
<1>2. tokens' = tokens \ OwnTokens(u) /\ era' = [era EXCEPT ![u] = era[u] + 1]
      /\ UNCHANGED <<users, codes, issued, loose>> /\ Move(w, Idle, OthersOn(w, u))
  BY DEF DeleteUserTokens
<1>3. begun' \in Nat /\ faults' \in Nat /\ era \in [Users -> Nat]
  BY Parts DEF DeleteUserTokens, TablesTyped
<1>4. era' \in [Users -> Nat] /\ \A v \in Users \ {u} : era'[v] = era[v]
  BY <1>1, <1>2, <1>3
<1>5. SessionsEndWithReset'
  <2> SUFFICES ASSUME NEW t \in tokens', issued[t].clean PROVE issued[t].era = era'[issued[t].user]
    BY <1>2 DEF SessionsEndWithReset
  <2>1. t \in tokens /\ issued[t].user # u /\ issued[t].user \in Users
    BY <1>2, Rows, Parts DEF OwnTokens, TokenRow, TablesTyped
  <2> QED BY <1>4, <2>1 DEF AInv, SessionsEndWithReset
<1>6. Grows /\ TablesTyped' /\ TablesFine'
  BY <1>2, <1>3, <1>4, <1>5, TokensDeleted
<1>7. \A v \in Workers \ {w} :
        req[v] # Idle => v \in OthersOn(w, u) \/ req[v].pc = "create" \/ Undisturbed(req[v])
  <2> SUFFICES ASSUME NEW v \in Workers \ {w}, req[v] # Idle, req[v].user # u, req[v].pc # "create"
               PROVE  Undisturbed(req[v])
    BY DEF OthersOn
  <2>1. req[v].user \in Users
    BY UnderWay DEF WellFormed
  <2> QED BY <1>2, <1>4, <2>1 DEF Undisturbed, OwnTokens
<1>8. \A v \in Workers \ {w} : ~Rivals(req[w], req[v])'
  BY <1>2, IdleIsNoRequest DEF Move, Rivals
<1> QED BY <1>1, <1>2, <1>6, <1>7, <1>8, Overtaken, StepPreserves

\* The new token is of the chain of the old one, which had no other good token.
LEMMA issueTokenPairPreserves ==
  ASSUME AInv, NEW w \in Workers, issueTokenPair(w)
  PROVE  AInv'
<1> DEFINE t == req[w].token
           u == req[w].user
           n == Len(issued) + 1
           clean == ~req[w].raced /\ (t # 0 => issued[t].clean)
           session == IF t = 0 THEN n ELSE issued[t].session
           row == [user |-> u, era |-> req[w].era, session |-> session, clean |-> clean]
<1>1. req[w] \in Request /\ WellFormed(req[w]) /\ StillTrue(req[w]) /\ At(w, "issue")
  BY AtCall DEF issueTokenPair, At
<1>2. u \in Users /\ Exists(u) /\ req[w].era \in Nat
  BY <1>1 DEF WellFormed, At, Request
<1>3. t # 0 => t \in DOMAIN issued /\ issued[t].user = u /\ issued[t].session \in 1 .. t /\ t \in 1 .. Len(issued)
  BY <1>1, Rows, Parts DEF WellFormed, AInv, IssuedInOrder, TablesTyped
<1>4. issued \in Seq(TokenRow) /\ Len(issued) \in Nat /\ DOMAIN issued = 1 .. Len(issued)
      /\ tokens \subseteq DOMAIN issued /\ n \in Nat
  BY Parts DEF TablesTyped
<1>5. issued' = Append(issued, row) /\ tokens' = tokens \cup {n}
  BY DEF issueTokenPair, generateToken, SaveRefreshToken
<1>6. UNCHANGED <<users, codes, era, loose>> /\ begun' \in Nat /\ faults' \in Nat /\ Move(w, Idle, {})
  BY Parts DEF issueTokenPair, Return, TablesTyped
<1>7. clean \in BOOLEAN
  OBVIOUS
<1>8. session \in 1 .. n /\ session \in Nat
  BY <1>3, <1>4
<1>9. clean => req[w].era = era[u]
  BY <1>1 DEF StillTrue, At
<1>10. clean => \A s \in tokens : issued[s].clean => issued[s].session # session
  <2> SUFFICES ASSUME clean, NEW s \in tokens, issued[s].clean, issued[s].session = session PROVE FALSE
    OBVIOUS
  <2>1. CASE t = 0
    <3>1. issued[s].session \in 1 .. s /\ s \in 1 .. Len(issued)
      BY <1>4 DEF AInv, IssuedInOrder
    <3> QED BY <1>4, <2>1, <3>1
  <2>2. CASE t # 0
    BY <1>1, <2>2 DEF StillTrue, At, Successor
  <2> QED BY <2>1, <2>2
<1>11. \A s \in DOMAIN issued : issued[s].session = session => issued[s].user = u
  <2> SUFFICES ASSUME NEW s \in DOMAIN issued, issued[s].session = session PROVE issued[s].user = u
    OBVIOUS
  <2>1. CASE t = 0
    <3>1. issued[s].session \in 1 .. s /\ s \in 1 .. Len(issued)
      BY <1>4 DEF AInv, IssuedInOrder
    <3> QED BY <1>4, <2>1, <3>1
  <2>2. CASE t # 0
    BY <1>3, <2>2 DEF AInv, IssuedInOrder
  <2> QED BY <2>1, <2>2
<1>12. row.user = u /\ row.era = req[w].era /\ row.session = session /\ row.clean = clean
  OBVIOUS
<1>13. ASSUME NEW v \in Workers \ {w}, req[v] # Idle, req[v].pc = "issue", req[v].token # 0, ~req[v].raced
       PROVE  ~(clean /\ issued[req[v].token].clean /\ session = issued[req[v].token].session)
  <2>1. WellFormed(req[v])
    BY <1>13, UnderWay
  <2>2. req[v].token \in DOMAIN issued
    BY <1>13, <2>1 DEF WellFormed
  <2>3. CASE t = 0
    <3>1. issued[req[v].token].session \in 1 .. req[v].token /\ req[v].token \in 1 .. Len(issued)
      BY <1>4, <2>2 DEF AInv, IssuedInOrder
    <3> QED BY <1>4, <2>3, <3>1
  <2>4. CASE t # 0
    <3>1. ~Rivals(req[w], req[v])
      BY DEF AInv
    <3> QED BY <1>1, <1>13, <2>4, <3>1 DEF Rivals, At
  <2> QED BY <2>3, <2>4
<1> HIDE DEF clean, session
<1>14. row \in TokenRow
  BY <1>2, <1>7, <1>8 DEF TokenRow
<1> HIDE DEF row
<1>15. /\ issued' \in Seq(TokenRow) /\ DOMAIN issued' = 1 .. n /\ issued'[n] = row
       /\ \A s \in DOMAIN issued : issued'[s] = issued[s]
       /\ DOMAIN issued' = DOMAIN issued \cup {n} /\ n \notin DOMAIN issued
  <2>1. /\ issued' \in Seq(TokenRow) /\ Len(issued') = Len(issued) + 1 /\ issued'[Len(issued) + 1] = row
        /\ \A s \in 1 .. Len(issued) : issued'[s] = issued[s]
    BY <1>4, <1>5, <1>14
  <2> QED BY <1>4, <2>1
<1>16. Grows
  BY <1>6, <1>15 DEF Grows, Exists
<1>17. TablesTyped'
  BY <1>4, <1>5, <1>6, <1>15, Parts DEF TablesTyped
<1>18. IssuedInOrder'
  <2>1. ASSUME NEW x \in DOMAIN issued' PROVE Exists(issued[x].user)' /\ issued'[x].session \in 1 .. x
    <3>1. CASE x \in DOMAIN issued
      BY <1>6, <1>15, <3>1 DEF AInv, IssuedInOrder, Exists
    <3>2. CASE x = n
      BY <1>2, <1>6, <1>8, <1>12, <1>15, <3>2 DEF Exists
    <3> QED BY <1>15, <2>1, <3>1, <3>2
  <2>2. ASSUME NEW x \in DOMAIN issued', NEW s \in DOMAIN issued', issued'[s].session = issued'[x].session
        PROVE  issued'[s].user = issued'[x].user
    <3>1. CASE x \in DOMAIN issued /\ s \in DOMAIN issued
      BY <1>15, <2>2, <3>1 DEF AInv, IssuedInOrder
    <3>2. CASE x = n \/ s = n
      BY <1>11, <1>12, <1>15, <2>2, <3>2
    <3> QED BY <1>15, <3>1, <3>2
  <2> QED BY <2>1, <2>2 DEF IssuedInOrder
<1>19. SessionsEndWithReset'
  <2> SUFFICES ASSUME NEW x \in tokens', issued'[x].clean PROVE issued'[x].era = era[issued'[x].user]
    BY <1>6 DEF SessionsEndWithReset
  <2>1. CASE x \in tokens
    BY <1>4, <1>15, <2>1 DEF AInv, SessionsEndWithReset
  <2>2. CASE x = n
    BY <1>9, <1>12, <1>15, <2>2
  <2> QED BY <1>5, <2>1, <2>2
<1>20. OneTokenPerSession'
  <2> SUFFICES ASSUME NEW x \in tokens', NEW s \in tokens', issued'[x].clean, issued'[s].clean,
                      issued'[x].session = issued'[s].session
               PROVE  x = s
    BY DEF OneTokenPerSession
  <2>1. CASE x \in tokens /\ s \in tokens
    BY <1>4, <1>15, <2>1 DEF AInv, OneTokenPerSession
  <2>2. CASE x = n \/ s = n
    BY <1>4, <1>5, <1>10, <1>12, <1>15, <2>2
  <2> QED BY <1>5, <2>1, <2>2
<1>21. TablesFine'
  BY <1>6, <1>18, <1>19, <1>20, Parts DEF TablesFine
<1>22. ASSUME NEW v \in Workers \ {w}, req[v] # Idle PROVE req'[v].raced \/ Undisturbed(req[v])
  <2> SUFFICES ASSUME ~req[v].raced PROVE Undisturbed(req[v])
    BY <1>6 DEF Move
  <2>1. ASSUME NEW x \in tokens' \ tokens, req[v].pc = "issue", req[v].token # 0
        PROVE  ~(/\ issued'[x].clean /\ issued'[req[v].token].clean
                 /\ issued'[x].session = issued'[req[v].token].session)
    <3>1. x = n /\ req[v].token \in DOMAIN issued
      BY <1>5, <1>22, <2>1, UnderWay DEF WellFormed
    <3> QED BY <1>12, <1>13, <1>15, <1>22, <2>1, <3>1
  <2> QED BY <1>5, <1>6, <2>1 DEF Undisturbed
<1>23. \A v \in Workers \ {w} : ~Rivals(req[w], req[v])'
  BY <1>6, IdleIsNoRequest DEF Move, Rivals
<1> QED BY <1>6, <1>16, <1>17, <1>21, <1>22, <1>23, StepPreserves

-----------------------------------------------------------------------------
(* The theorems.                                                           *)

LEMMA InitEstablishes == Init => AInv
<1> SUFFICES ASSUME Init PROVE AInv
  OBVIOUS
<1>1. \A u \in Registered : FirstRow(u) \in UserRow /\ FirstToken(u) \in TokenRow
  BY AuthAssumption DEF FirstRow, FirstToken, UserRow, TokenRow
<1>2. users \in [Users -> UserRow \cup {NoUser}]
  BY <1>1 DEF Init
<1>3. codes \in Seq(CodeRow) /\ DOMAIN codes = {} /\ req \in [Workers -> Request \cup {Idle}]
      /\ begun \in Nat /\ faults \in Nat /\ era \in [Users -> Nat] /\ loose \subseteq Users
  BY DEF Init
<1>4. /\ issued \in Seq(TokenRow) /\ tokens \subseteq DOMAIN issued
      /\ IssuedInOrder /\ SessionsEndWithReset /\ OneTokenPerSession
  <2>1. CASE issued = <<>> /\ tokens = {}
    BY <2>1 DEF IssuedInOrder, SessionsEndWithReset, OneTokenPerSession
  <2>2. CASE \E u \in Registered : issued = <<FirstToken(u)>> /\ tokens = {1}
    <3>1. PICK u \in Registered : issued = <<FirstToken(u)>> /\ tokens = {1}
      BY <2>2
    <3>2. issued \in Seq(TokenRow) /\ DOMAIN issued = {1} /\ issued[1] = FirstToken(u)
      BY <1>1, <3>1
    <3>3. Exists(u) /\ u \in Users /\ era[u] = 0
      BY <1>1, AuthAssumption DEF Init, Exists, NoUser, UserRow
    <3> QED BY <3>1, <3>2, <3>3 DEF IssuedInOrder, SessionsEndWithReset, OneTokenPerSession, FirstToken
  <2> QED BY <2>1, <2>2 DEF Init
<1>5. \A w \in Workers : req[w] = Idle
  BY DEF Init
<1>6. \A v, w \in Workers : ~Rivals(req[v], req[w])
  BY <1>5, IdleIsNoRequest DEF Rivals
<1> QED BY <1>2, <1>3, <1>4, <1>5, <1>6 DEF AInv, TypeOK

LEMMA NextPreserves == AInv /\ [Next]_vars => AInv'
<1> SUFFICES ASSUME AInv, [Next]_vars PROVE AInv'
  OBVIOUS
<1>1. ASSUME NEW w \in Workers, Routes(w) PROVE AInv'
  BY <1>1, RegisterPreserves, LoginPreserves, RefreshPreserves, VerifyPreserves, ResendPreserves,
     ForgotPreserves, ResetPreserves, LogoutPreserves, UpdateProfilePreserves,
     RequestEmailChangePreserves, ConfirmEmailChangePreserves, CancelEmailChangePreserves,
     createAdminPreserves
  DEF Routes, register, login, refresh, verifyEmail, resendVerification, forgotPassword, resetPassword,
      logout, updateMe, requestEmailChange, confirmEmailChange, cancelEmailChange
<1>2. ASSUME NEW w \in Workers, CallsOf(w) PROVE AInv'
  BY <1>2, CreateUserPreserves, sendCodePreserves, DeleteRefreshTokenPreserves, issueTokenPairPreserves,
     CheckExistingPreserves, SetPendingEmailPreserves, GetLatestCodePreserves, MarkCodeUsedPreserves,
     WriteBackPreserves, ClearPendingEmailPreserves, SetVerifiedPreserves, UpdatePasswordPreserves,
     DeleteUserTokensPreserves
  DEF CallsOf
<1>3. CASE UNCHANGED vars
  <2>1. UNCHANGED <<tables, history, req>> /\ begun' \in Nat /\ faults' \in Nat
    BY <1>3, Parts DEF vars, tables, history, TablesTyped
  <2>2. TablesTyped' /\ TablesFine'
    BY <2>1, Quiet
  <2>3. \A w \in Workers : req[w] # Idle => WellFormed(req[w])' /\ StillTrue(req[w])'
    BY <2>1, UnderWay DEF WellFormed, StillTrue, Successor, Exists, tables, history
  <2>4. \A v, w \in Workers : v # w => ~Rivals(req[v], req[w])'
    BY <2>1 DEF AInv, Rivals, history
  <2>5. req' \in [Workers -> Request \cup {Idle}]
    BY <2>1 DEF AInv, TypeOK
  <2> QED BY <2>1, <2>2, <2>3, <2>4, <2>5 DEF AInv, TypeOK, TablesTyped, TablesFine
<1> QED BY <1>1, <1>2, <1>3, CallFailsPreserves, CodeExpiresPreserves, CrashPreserves DEF Next

THEOREM Invariance == Spec => []AInv
BY InitEstablishes, NextPreserves, PTL DEF Spec

\* Each row of the three tables, each request and each token has its type.
THEOREM AuthTyped == Spec => []TypeOK
<1>1. AInv => TypeOK
  BY DEF AInv
<1> QED BY <1>1, Invariance, PTL

\* DeleteUserTokens at the end of ResetPassword leaves no older session, but for what
\* a request that it overtook inserts after it.
THEOREM ResetEndsSessions == Spec => []SessionsEndWithReset
<1>1. AInv => SessionsEndWithReset
  BY DEF AInv
<1> QED BY <1>1, Invariance, PTL

\* Refresh replaces a token by one token, but for requests that race with the same one.
THEOREM SessionsHaveOneToken == Spec => []OneTokenPerSession
<1>1. AInv => OneTokenPerSession
  BY DEF AInv
<1> QED BY <1>1, Invariance, PTL

-----------------------------------------------------------------------------
(* Codes.                                                                  *)

\* The step relation of CodeUsedOnce.
CodeStep == \A c \in DOMAIN codes : codes[c].uses > 0 => Holders(c)' \subseteq Holders(c)

Held(r, c) ==
  r.code = c /\ r.pc \in {"mark", "verify", "password", "revoke", "update", "clear"}

\* A request that moves holds no code afterwards that it did not hold before.
LEMMA MoveKeepsHolders ==
  ASSUME AInv, NEW w \in Workers, NEW s, NEW overtaken, Move(w, s, overtaken),
         \A c \in DOMAIN codes : Held(s, c) => Held(req[w], c) \/ codes[c].uses = 0
  PROVE  CodeStep
<1> SUFFICES ASSUME NEW c \in DOMAIN codes, codes[c].uses > 0, NEW v \in Workers, Held(req'[v], c)
             PROVE  Held(req[v], c)
  BY DEF CodeStep, Holders, Held
<1>1. CASE v = w
  BY <1>1 DEF Move
<1>2. CASE v # w
  <2>1. req[v] \in Request \cup {Idle}
    BY DEF AInv, TypeOK
  <2>2. req'[v] = req[v] \/ req'[v] = [req[v] EXCEPT !.raced = TRUE]
    BY <1>2 DEF Move
  <2> QED BY <2>1, <2>2 DEF Held, Request, Idle
<1> QED BY <1>1, <1>2

\* A request begins without a code, or before it has looked one up, or issues a pair.
LEMMA BeginKeepsHolders ==
  ASSUME AInv, NEW w \in Workers, \E s : Begin(w, s),
         req'[w].code = 0 \/ req'[w].pc \in {"find", "issue"}
  PROVE  CodeStep
<1>1. PICK s : Begin(w, s)
  OBVIOUS
<1>2. Move(w, s, {}) /\ req'[w] = s
  BY <1>1 DEF Begin, Move
<1>3. 0 \notin DOMAIN codes
  BY DEF AInv, TypeOK
<1>4. \A c \in DOMAIN codes : ~Held(s, c)
  BY <1>2, <1>3 DEF Held
<1> QED BY <1>2, <1>4, MoveKeepsHolders

LEMMA ReturnKeepsHolders ==
  ASSUME AInv, NEW w \in Workers, NEW overtaken, Move(w, Idle, overtaken)
  PROVE  CodeStep
BY MoveKeepsHolders DEF Held, Idle

LEMMA RoutesKeepHolders ==
  ASSUME AInv, NEW w \in Workers, Routes(w)
  PROVE  CodeStep
<1>1. ASSUME NEW e \in Emails, NEW p \in Passwords, Register(w, e, p) PROVE CodeStep
  <2>1. \E s : Begin(w, s)
    BY <1>1 DEF Register
  <2>2. req'[w].code = 0 \/ req'[w].pc \in {"find", "issue"}
    BY <1>1 DEF Register, Begin, Move, Idle
  <2> QED BY <2>1, <2>2, BeginKeepsHolders
<1>2. ASSUME NEW e \in Emails, NEW p \in Passwords, createAdmin(w, e, p) PROVE CodeStep
  <2>1. \E s : Begin(w, s)
    BY <1>2 DEF createAdmin
  <2>2. req'[w].code = 0 \/ req'[w].pc \in {"find", "issue"}
    BY <1>2 DEF createAdmin, Begin, Move, Idle
  <2> QED BY <2>1, <2>2, BeginKeepsHolders
<1>3. ASSUME NEW e \in Emails, NEW p \in Passwords, Login(w, e, p) PROVE CodeStep
  <2>1. \E s : Begin(w, s)
    BY <1>3 DEF Login
  <2>2. req'[w].code = 0 \/ req'[w].pc \in {"find", "issue"}
    BY <1>3 DEF Login, Begin, Move, Idle
  <2> QED BY <2>1, <2>2, BeginKeepsHolders
<1>4. ASSUME NEW t \in DOMAIN issued, Refresh(w, t) PROVE CodeStep
  <2>1. \E s : Begin(w, s)
    BY <1>4 DEF Refresh
  <2>2. req'[w].code = 0 \/ req'[w].pc \in {"find", "issue"}
    BY <1>4 DEF Refresh, Begin, Move, Idle
  <2> QED BY <2>1, <2>2, BeginKeepsHolders
<1>5. ASSUME NEW e \in Emails, NEW c \in DOMAIN codes \cup {0}, VerifyEmail(w, e, c) PROVE CodeStep
  <2>1. \E s : Begin(w, s)
    BY <1>5 DEF VerifyEmail
  <2>2. PICK u \in Users, pc \in {"find", "issue"} :
          Begin(w, [Idle EXCEPT !.op = "verify_email", !.pc = pc, !.user = u, !.code = c, !.era = era[u]])
    BY <1>5 DEF VerifyEmail
  <2>3. req'[w].pc = pc
    BY <2>2 DEF Begin, Move, Idle
  <2> QED BY <2>1, <2>2, <2>3, BeginKeepsHolders
<1>6. ASSUME NEW e \in Emails, ResendVerification(w, e) PROVE CodeStep
  <2>1. \E s : Begin(w, s)
    BY <1>6 DEF ResendVerification
  <2>2. req'[w].code = 0 \/ req'[w].pc \in {"find", "issue"}
    BY <1>6 DEF ResendVerification, Begin, Move, Idle
  <2> QED BY <2>1, <2>2, BeginKeepsHolders
<1>7. ASSUME NEW e \in Emails, ForgotPassword(w, e) PROVE CodeStep
  <2>1. \E s : Begin(w, s)
    BY <1>7 DEF ForgotPassword
  <2>2. req'[w].code = 0 \/ req'[w].pc \in {"find", "issue"}
    BY <1>7 DEF ForgotPassword, Begin, Move, Idle
  <2> QED BY <2>1, <2>2, BeginKeepsHolders
<1>8. ASSUME NEW e \in Emails, NEW p \in Passwords, NEW c \in DOMAIN codes, ResetPassword(w, e, p, c) PROVE CodeStep
  <2>1. \E s : Begin(w, s)
    BY <1>8 DEF ResetPassword
  <2>2. req'[w].code = 0 \/ req'[w].pc \in {"find", "issue"}
    BY <1>8 DEF ResetPassword, Begin, Move, Idle
  <2> QED BY <2>1, <2>2, BeginKeepsHolders
<1>9. ASSUME NEW u \in Users, NEW q \in Passwords \cup {None}, NEW p \in Passwords \cup {None}, UpdateProfile(w, u, q, p) PROVE CodeStep
  <2>1. \E s : Begin(w, s)
    BY <1>9 DEF UpdateProfile
  <2>2. req'[w].code = 0 \/ req'[w].pc \in {"find", "issue"}
    BY <1>9 DEF UpdateProfile, Begin, Move, Idle
  <2> QED BY <2>1, <2>2, BeginKeepsHolders
<1>10. ASSUME NEW u \in Users, NEW e \in Emails, RequestEmailChange(w, u, e) PROVE CodeStep
  <2>1. \E s : Begin(w, s)
    BY <1>10 DEF RequestEmailChange
  <2>2. req'[w].code = 0 \/ req'[w].pc \in {"find", "issue"}
    BY <1>10 DEF RequestEmailChange, Begin, Move, Idle
  <2> QED BY <2>1, <2>2, BeginKeepsHolders
<1>11. ASSUME NEW u \in Users, NEW c \in DOMAIN codes, ConfirmEmailChange(w, u, c) PROVE CodeStep
  <2>1. \E s : Begin(w, s)
    BY <1>11 DEF ConfirmEmailChange
  <2>2. req'[w].code = 0 \/ req'[w].pc \in {"find", "issue"}
    BY <1>11 DEF ConfirmEmailChange, Begin, Move, Idle
  <2> QED BY <2>1, <2>2, BeginKeepsHolders
<1>12. CASE logout(w) \/ cancelEmailChange(w)
  BY <1>12, ReturnKeepsHolders DEF logout, Logout, cancelEmailChange, CancelEmailChange, ClearPending
<1> QED
  BY <1>1, <1>2, <1>3, <1>4, <1>5, <1>6, <1>7, <1>8, <1>9, <1>10, <1>11, <1>12
  DEF Routes, register, login, refresh, verifyEmail, resendVerification, forgotPassword, resetPassword,
      updateMe, requestEmailChange, confirmEmailChange

\* A call passes on the code it works with; GetLatestCode accepts one that nobody used.
LEMMA CallsKeepHolders ==
  ASSUME AInv, NEW w \in Workers, CallsOf(w)
  PROVE  CodeStep
<1>1. req[w] \in Request
  <2>1. PICK pc \in Calls : At(w, pc)
    BY DEF Calls, CallsOf, CreateUser, sendCode, DeleteRefreshToken, issueTokenPair, CheckExisting,
       SetPendingEmail, GetLatestCode, MarkCodeUsed, WriteBack, ClearPendingEmail, SetVerified,
       UpdatePassword, DeleteUserTokens
  <2> QED BY <2>1, IdleIsNoRequest DEF At, Calls, AInv, TypeOK
<1>2. ASSUME NEW overtaken, Move(w, Idle, overtaken) PROVE CodeStep
  BY <1>2, ReturnKeepsHolders
<1>3. ASSUME NEW overtaken, NEW pc, Move(w, [req[w] EXCEPT !.pc = pc], overtaken),
             \/ pc \notin {"mark", "verify", "password", "revoke", "update", "clear"}
             \/ req[w].pc \in {"mark", "verify", "password", "revoke", "update", "clear"}
      PROVE  CodeStep
  <2> DEFINE s == [req[w] EXCEPT !.pc = pc]
  <2>1. s.pc = pc /\ s.code = req[w].code
    BY <1>1 DEF Request
  <2>2. Move(w, s, overtaken)
    BY <1>3
  <2> HIDE DEF s
  <2> QED BY <1>3, <2>1, <2>2, MoveKeepsHolders DEF Held
<1>4. ASSUME NEW u \in Users, CreateUser(w, u) PROVE CodeStep
  <2>1. CASE Return(w)
    BY <1>2, <2>1 DEF Return
  <2>2. CASE Move(w, [req[w] EXCEPT !.pc = "code", !.user = u], {})
    <3> DEFINE s == [req[w] EXCEPT !.pc = "code", !.user = u]
    <3>1. s.pc = "code"
      BY <1>1 DEF Request
    <3>2. Move(w, s, {})
      BY <2>2
    <3> HIDE DEF s
    <3> QED BY <3>1, <3>2, MoveKeepsHolders DEF Held
  <2> QED BY <1>4, <2>1, <2>2 DEF CreateUser, Return
<1>5. CASE GetLatestCode(w)
  <2>1. CASE Return(w)
    BY <1>2, <2>1 DEF Return
  <2>2. CASE Goto(w, "mark") /\ IsLatest(req[w].code, req[w].user, PurposeOf(w))
    <3> DEFINE s == [req[w] EXCEPT !.pc = "mark"]
    <3>1. s.code = req[w].code
      BY <1>1 DEF Request
    <3>2. Move(w, s, {})
      BY <2>2 DEF Goto
    <3>3. req[w].code \in DOMAIN codes /\ codes[req[w].code].uses = 0
      BY <2>2 DEF IsLatest, AInv
    <3> HIDE DEF s
    <3> QED BY <3>1, <3>2, <3>3, MoveKeepsHolders DEF Held
  <2> QED BY <1>5, <2>1, <2>2 DEF GetLatestCode
<1>6. CASE MarkCodeUsed(w)
  <2>1. PICK pc : Move(w, [req[w] EXCEPT !.pc = pc], OthersOn(w, req[w].user))
    BY <1>6 DEF MarkCodeUsed
  <2> QED BY <1>3, <1>6, <2>1 DEF MarkCodeUsed, At
<1>7. CASE WriteBack(w)
  <2>1. \/ \E pc : Move(w, [req[w] EXCEPT !.pc = pc], OthersOn(w, req[w].user))
        \/ \E overtaken : Move(w, Idle, overtaken)
    BY <1>7 DEF WriteBack, Return
  <2> QED BY <1>2, <1>3, <1>7, <2>1 DEF WriteBack, At
<1>8. CASE sendCode(w) \/ issueTokenPair(w) \/ DeleteUserTokens(w) \/ ClearPendingEmail(w)
  BY <1>2, <1>8 DEF sendCode, issueTokenPair, DeleteUserTokens, ClearPendingEmail, ClearPending, Return
<1>9. CASE DeleteRefreshToken(w) \/ SetVerified(w)
  <2>1. \E overtaken : Move(w, [req[w] EXCEPT !.pc = "issue"], overtaken)
    BY <1>9 DEF DeleteRefreshToken, SetVerified
  <2> QED BY <1>3, <2>1
<1>10. CASE SetPendingEmail(w)
  BY <1>3, <1>10 DEF SetPendingEmail
<1>11. CASE CheckExisting(w)
  BY <1>2, <1>3, <1>11 DEF CheckExisting, Return, Goto
<1>12. CASE UpdatePassword(w)
  BY <1>3, <1>12 DEF UpdatePassword, At
<1> QED
  BY <1>4, <1>5, <1>6, <1>7, <1>8, <1>9, <1>10, <1>11, <1>12 DEF CallsOf

\* Once a request has marked a code, GetLatestCode lets no other one through with it,
\* whatever requests are under way and whatever fails.  (Not VerifyEmail of a verified
\* account, which does not look at its code and changes nothing.)
THEOREM CodesAreUsedOnce == Spec => CodeUsedOnce
<1>1. AInv /\ [Next]_vars => [CodeStep]_vars
  <2> SUFFICES ASSUME AInv, Next PROVE CodeStep
    OBVIOUS
  <2>1. CASE CodeExpires
    BY <2>1 DEF CodeExpires, CodeStep, Holders
  <2>2. CASE Crash
    BY <2>2 DEF Crash, CodeStep, Holders, Idle
  <2>3. ASSUME NEW w \in Workers, CallFails(w) PROVE CodeStep
    BY <2>3, ReturnKeepsHolders DEF CallFails, Return
  <2> QED BY <2>1, <2>2, <2>3, RoutesKeepHolders, CallsKeepHolders DEF Next
<1>2. [][CodeStep]_vars => CodeUsedOnce
  BY PTL DEF CodeStep, CodeUsedOnce
<1> QED BY <1>1, <1>2, Invariance, PTL DEF Spec

-----------------------------------------------------------------------------
(* Passwords.                                                              *)

\* The step relation of PasswordKept.
PasswordStep ==
  \A u \in Users :
    users[u].verified /\ users'[u].password # users[u].password =>
      \E w \in Workers :
        /\ req[w].user = u
        /\ \/ Steps(w, "password")
           \/ Steps(w, "update") /\ (req[w].op = "password" \/ req[w].raced)

\* Only the calls that write a row of users change one.
LEMMA RoutesKeepPasswords ==
  ASSUME AInv, NEW w \in Workers, Routes(w)
  PROVE  PasswordStep
<1>1. CASE cancelEmailChange(w)
  BY <1>1, Parts DEF cancelEmailChange, CancelEmailChange, ClearPending, Write, PasswordStep, TablesTyped, UserRow, NoUser
<1>2. CASE ~cancelEmailChange(w)
  <2>1. UNCHANGED users
    BY <1>2 DEF Routes, register, login, refresh, verifyEmail, resendVerification, forgotPassword,
      resetPassword, logout, updateMe, requestEmailChange, confirmEmailChange, tables,
      Register, Login, Refresh, VerifyEmail, ResendVerification, ForgotPassword, ResetPassword, Logout,
      UpdateProfile, RequestEmailChange, ConfirmEmailChange, createAdmin
  <2> QED BY <2>1 DEF PasswordStep
<1> QED BY <1>1, <1>2

LEMMA WriteBackKeepsPasswords ==
  ASSUME AInv, NEW w \in Workers, WriteBack(w)
  PROVE  PasswordStep
<1> DEFINE u == req[w].user
<1>1. req[w] \in Request /\ WellFormed(req[w]) /\ StillTrue(req[w]) /\ At(w, "update")
  BY AtCall DEF WriteBack, At
<1>2. u \in Users /\ Exists(u) /\ req[w].op \in {"register", "rename", "password", "confirm"}
  BY <1>1 DEF WellFormed, At
<1>3. CASE UNCHANGED users
  BY <1>3 DEF PasswordStep
<1>4. CASE UpdateUser(u, req[w].to, req[w].new) /\ req'[w].pc # "update"
  <2> SUFFICES ASSUME NEW v \in Users, users[v].verified, users'[v].password # users[v].password
               PROVE  v = u /\ Steps(w, "update") /\ (req[w].op = "password" \/ req[w].raced)
    BY DEF PasswordStep
  <2>1. v = u
    BY <1>2, <1>4, Parts DEF UpdateUser, Write, TablesTyped
  <2>2. users'[u].password = req[w].new
    BY <1>2, <1>4, Parts, RowOf DEF UpdateUser, Write, TablesTyped, UserRow
  <2>3. req[w].raced \/ req[w].op = "password"
    BY <1>1, <1>2, <2>1, <2>2 DEF StillTrue, At
  <2> QED BY <1>1, <1>4, <2>1, <2>3 DEF Steps
<1>5. ASSUME ~UNCHANGED users PROVE UpdateUser(u, req[w].to, req[w].new) /\ req'[w].pc # "update"
  <2>1. UpdateUser(u, req[w].to, req[w].new)
    BY <1>5 DEF WriteBack
  <2>2. \E pc \in {"code", "clear"} : req'[w] = [req[w] EXCEPT !.pc = pc] \/ req'[w] = Idle
    BY <1>5 DEF WriteBack, Move
  <2> QED BY <1>1, <2>1, <2>2, IdleIsNoRequest DEF Request
<1> QED BY <1>3, <1>4, <1>5

LEMMA CallsKeepPasswords ==
  ASSUME AInv, NEW w \in Workers, CallsOf(w)
  PROVE  PasswordStep
<1>1. ASSUME NEW u \in Users, CreateUser(w, u) PROVE PasswordStep
  <2>1. \A v \in Users : v # u \/ UNCHANGED users => users'[v] = users[v]
    BY <1>1, Parts DEF CreateUser, Write, TablesTyped
  <2>2. ~users[u].verified \/ UNCHANGED users
    BY <1>1 DEF CreateUser, Exists, NoUser
  <2> QED BY <2>1, <2>2 DEF PasswordStep
<1>2. CASE SetPendingEmail(w)
  <2>1. req[w].user \in Users /\ users[req[w].user] \in UserRow
    BY <1>2, AtCall, RowOf DEF SetPendingEmail, At, WellFormed
  <2> QED BY <1>2, <2>1, Parts DEF SetPendingEmail, Write, PasswordStep, TablesTyped, UserRow
<1>3. CASE ClearPendingEmail(w)
  <2>1. req[w].user \in Users /\ users[req[w].user] \in UserRow
    BY <1>3, AtCall, RowOf DEF ClearPendingEmail, At, WellFormed
  <2> QED BY <1>3, <2>1, Parts DEF ClearPendingEmail, ClearPending, Write, PasswordStep, TablesTyped, UserRow
<1>4. CASE SetVerified(w)
  <2>1. req[w].user \in Users /\ users[req[w].user] \in UserRow
    BY <1>4, AtCall, RowOf DEF SetVerified, At, WellFormed
  <2> QED BY <1>4, <2>1, Parts DEF SetVerified, Write, PasswordStep, TablesTyped, UserRow
<1>5. CASE UpdatePassword(w)
  <2>1. req[w] \in Request
    BY <1>5, AtCall DEF UpdatePassword, At
  <2>2. Steps(w, "password")
    BY <1>5, <2>1 DEF UpdatePassword, Steps, At, Move, Request
  <2>3. \A u \in Users \ {req[w].user} : users'[u] = users[u]
    BY <1>5, Parts DEF UpdatePassword, Write, TablesTyped
  <2> QED BY <2>2, <2>3 DEF PasswordStep
<1>6. CASE UNCHANGED users
  BY <1>6 DEF PasswordStep
<1>7. \/ \E u \in Users : CreateUser(w, u)
      \/ SetPendingEmail(w) \/ ClearPendingEmail(w) \/ SetVerified(w) \/ UpdatePassword(w) \/ WriteBack(w)
      \/ UNCHANGED users
  BY DEF CallsOf, tables, sendCode, DeleteRefreshToken, issueTokenPair, CheckExisting, GetLatestCode,
     MarkCodeUsed, DeleteUserTokens
<1> QED BY <1>1, <1>2, <1>3, <1>4, <1>5, <1>6, <1>7, WriteBackKeepsPasswords

\* Register, UpdateProfile and ConfirmEmailChange write a row back as they read it; only
\* a request that was overtaken in between changes a verified account's password by it.
THEOREM PasswordsAreKept == Spec => PasswordKept
<1>1. AInv /\ [Next]_vars => [PasswordStep]_vars
  <2> SUFFICES ASSUME AInv, Next PROVE PasswordStep
    OBVIOUS
  <2>1. CASE UNCHANGED users
    BY <2>1 DEF PasswordStep
  <2>2. \/ \E w \in Workers : Routes(w) \/ CallsOf(w)
        \/ UNCHANGED users
    BY DEF Next, CallFails, CodeExpires, Crash, tables
  <2> QED BY <2>1, <2>2, RoutesKeepPasswords, CallsKeepPasswords
<1>2. [][PasswordStep]_vars => PasswordKept
  BY PTL DEF PasswordStep, PasswordKept
<1> QED BY <1>1, <1>2, Invariance, PTL DEF Spec

-----------------------------------------------------------------------------
(* Addresses.                                                              *)

Verified(u) == users[u].verified
Email(u) == users[u].email
ChangeCode(c, u) == codes[c].user = u /\ codes[c].purpose = "change_email"
\* With the code n the user may confirm e; none was sent between it and the code last.
SentBy(n, u, e, last) ==
  /\ ChangeCode(n, u) /\ codes[n].to = e
  /\ \A c \in DOMAIN codes : n < c /\ c <= last => ~ChangeCode(c, u)

\* What is known of the address a request is about: a user who is not verified has no
\* session, and codes for the one address only; one that confirms has been sent a code
\* after which no other one can be the latest that it presents.
Addressed(r) ==
  /\ r.pc = "create" => r.op \in {"register", "admin"}
  /\ r.pc \in {"existing", "pending"} => r.op = "request"
  /\ r.pc = "code" => r.op \in {"register", "resend", "forgot", "request"}
  /\ r.pc \in {"issue", "delete"} \/ r.op \in {"rename", "password", "request", "confirm"} => Verified(r.user)
  /\ r.op \in {"register", "resend"} /\ r.pc \in {"update", "code"} => Verified(r.user) \/ r.to = Email(r.user)
  /\ r.op \in {"register", "rename", "password"} /\ r.pc = "update" /\ ~r.raced => r.to = Email(r.user)
  /\ r.op = "request" /\ r.pc = "code" /\ ~r.raced => users[r.user].pending = r.to
  /\ r.op = "confirm" /\ ~r.loose =>
       /\ r.pc = "find" => /\ r.code \in DOMAIN codes
                           /\ \E n \in DOMAIN codes : SentBy(n, r.user, r.to, r.code)
       /\ r.pc = "mark" => codes[r.code].to = r.to \/ Proven(r.user, r.to)
       /\ r.pc = "update" => Proven(r.user, r.to)
  /\ r.pc = "mark" /\ r.op = "confirm" => codes[r.code].purpose = "change_email"
  /\ r.pc = "mark" /\ r.op = "verify_email" => codes[r.code].purpose = "verify_email"
  /\ r.pc = "verify" => Verified(r.user) \/ Proven(r.user, Email(r.user))

\* A pending address that is not loose is the one the newest code was sent to.
PendingSent(u) ==
  users[u].pending # None => \E n \in DOMAIN codes : SentBy(n, u, users[u].pending, Len(codes))

TablesAddressed ==
  /\ \A t \in DOMAIN issued : Verified(issued[t].user)
  /\ \A c \in DOMAIN codes : codes[c].purpose = "verify_email" =>
       Verified(codes[c].user) \/ codes[c].to = Email(codes[c].user)
  /\ \A c, d \in DOMAIN codes : d < c /\ codes[c].state = "expired" => codes[d].state # "live"
  /\ \A u \in Users : u \in loose \/ PendingSent(u)

DInv == TablesAddressed /\ \A w \in Workers : req[w] # Idle => Addressed(req[w])

\* What no step takes back.
Lasting ==
  /\ \A u \in Users : Verified(u) => Verified(u)'
  /\ \A u \in Users : Exists(u) => Verified(u)' \/ Email(u)' = Email(u)
  /\ DOMAIN codes \subseteq DOMAIN codes'
  /\ \A c \in DOMAIN codes : /\ codes'[c].user = codes[c].user
                             /\ codes'[c].purpose = codes[c].purpose
                             /\ codes'[c].to = codes[c].to
                             /\ codes[c].state = "used" => codes'[c].state = "used"
  /\ \A c \in DOMAIN codes, d \in DOMAIN codes' \ DOMAIN codes : ~(d <= c)

LEMMA ProvenStays == ASSUME Lasting, NEW u, NEW e, Proven(u, e) PROVE Proven(u, e)'
<1>1. PICK c \in DOMAIN codes :
        /\ codes[c].user = u /\ codes[c].to = e /\ codes[c].state = "used"
        /\ codes[c].purpose \in {"verify_email", "change_email"}
  BY DEF Proven
<1>2. /\ c \in DOMAIN codes' /\ codes'[c].user = u /\ codes'[c].to = e /\ codes'[c].state = "used"
      /\ codes'[c].purpose \in {"verify_email", "change_email"}
  BY <1>1 DEF Lasting
<1> QED BY <1>2 DEF Proven

LEMMA SentByStays ==
  ASSUME AInv, Lasting, NEW u, NEW e, NEW last \in DOMAIN codes, NEW n \in DOMAIN codes, SentBy(n, u, e, last)
  PROVE  n \in DOMAIN codes' /\ SentBy(n, u, e, last)'
<1>1. n \in DOMAIN codes' /\ ChangeCode(n, u)' /\ codes'[n].to = e
  BY DEF Lasting, SentBy, ChangeCode
<1>2. ASSUME NEW c \in DOMAIN codes', n < c, c <= last PROVE ~ChangeCode(c, u)'
  <2>1. c \in DOMAIN codes
    BY <1>2 DEF Lasting
  <2>2. ~ChangeCode(c, u)
    BY <1>2, <2>1 DEF SentBy
  <2> QED BY <2>1, <2>2 DEF Lasting, ChangeCode
<1> QED BY <1>1, <1>2 DEF SentBy

\* A request that another one's step may have overtaken.
LEMMA OthersAddressed ==
  ASSUME AInv, Lasting, NEW v \in Workers, req[v] # Idle, Addressed(req[v]),
         req'[v] = req[v] \/ req'[v] = [req[v] EXCEPT !.raced = TRUE],
         \/ req'[v].raced \/ req[v].pc = "create"
         \/ /\ users'[req[v].user].email = users[req[v].user].email
            /\ users'[req[v].user].pending = users[req[v].user].pending
  PROVE  Addressed(req[v])'
<1>0. PICK r, q : r = req[v] /\ q = req'[v]
  OBVIOUS
<1>1. r \in Request /\ WellFormed(r) /\ Addressed(r)
  BY <1>0, UnderWay
<1>2. /\ q.pc = r.pc /\ q.user = r.user /\ q.to = r.to /\ q.op = r.op /\ q.code = r.code
      /\ q.loose = r.loose /\ (q.raced \/ q.raced = r.raced)
  BY <1>0, <1>1 DEF Request
<1>3. CASE r.pc = "create"
  BY <1>0, <1>1, <1>2, <1>3 DEF Addressed
<1>4. CASE r.pc # "create"
  <2>1. r.user \in Users /\ Exists(r.user)
    BY <1>1, <1>4 DEF WellFormed
  <2>2. Verified(r.user) => Verified(r.user)'
    BY <2>1 DEF Lasting
  <2>3. Verified(r.user)' \/ Email(r.user)' = Email(r.user)
    BY <2>1 DEF Lasting
  <2>4. ASSUME r.op = "confirm", ~r.loose, r.pc = "find"
        PROVE  /\ r.code \in DOMAIN codes'
               /\ \E n \in DOMAIN codes' : SentBy(n, r.user, r.to, r.code)'
    <3>1. PICK n \in DOMAIN codes : SentBy(n, r.user, r.to, r.code)
      BY <1>1, <2>4 DEF Addressed
    <3>2. r.code \in DOMAIN codes
      BY <1>1, <2>4 DEF Addressed
    <3>3. n \in DOMAIN codes' /\ SentBy(n, r.user, r.to, r.code)'
      BY <3>1, <3>2, SentByStays
    <3> QED BY <3>2, <3>3 DEF Lasting
  <2>5. ASSUME r.op = "confirm", ~r.loose, r.pc = "mark"
        PROVE  codes'[r.code].to = r.to \/ Proven(r.user, r.to)'
    <3>1. r.code \in DOMAIN codes
      BY <1>1, <2>5 DEF WellFormed
    <3> QED BY <1>1, <2>5, <3>1, ProvenStays DEF Addressed, Lasting
  <2>6. ASSUME r.op = "confirm", ~r.loose, r.pc = "update"
        PROVE  Proven(r.user, r.to)'
    BY <1>1, <2>6, ProvenStays DEF Addressed
  <2>7. ASSUME r.pc = "mark"
        PROVE  /\ r.op = "confirm" => codes'[r.code].purpose = "change_email"
               /\ r.op = "verify_email" => codes'[r.code].purpose = "verify_email"
    <3>1. r.code \in DOMAIN codes
      BY <1>1, <2>7 DEF WellFormed
    <3> QED BY <1>1, <2>7, <3>1 DEF Addressed, Lasting
  <2>8. ASSUME r.pc = "verify"
        PROVE  Verified(r.user)' \/ Proven(r.user, Email(r.user))'
    <3>1. Verified(r.user) \/ Proven(r.user, Email(r.user))
      BY <1>1, <2>8 DEF Addressed
    <3>2. CASE Proven(r.user, Email(r.user))
      <4>1. PICK e : e = Email(r.user)
        OBVIOUS
      <4>2. Proven(r.user, e)'
        BY <3>2, <4>1, ProvenStays
      <4> QED BY <2>3, <4>1, <4>2 DEF Proven
    <3> QED BY <2>2, <3>1, <3>2
  <2>9. /\ r.pc \in {"existing", "pending"} => r.op = "request"
        /\ r.pc = "code" => r.op \in {"register", "resend", "forgot", "request"}
        /\ r.pc \in {"issue", "delete"} \/ r.op \in {"rename", "password", "request", "confirm"} =>
             Verified(r.user)'
        /\ r.op \in {"register", "resend"} /\ r.pc \in {"update", "code"} =>
             Verified(r.user)' \/ r.to = Email(r.user)'
    BY <1>1, <2>2, <2>3 DEF Addressed
  <2>10. /\ r.op \in {"register", "rename", "password"} /\ r.pc = "update" /\ ~q.raced => r.to = Email(r.user)'
         /\ r.op = "request" /\ r.pc = "code" /\ ~q.raced => users'[r.user].pending = r.to
    BY <1>0, <1>1, <1>2, <1>4 DEF Addressed, Email
  <2> QED BY <1>0, <1>2, <1>4, <2>4, <2>5, <2>6, <2>7, <2>8, <2>9, <2>10 DEF Addressed, SentBy, ChangeCode, Proven, Verified, Email
<1> QED BY <1>3, <1>4

\* A step of w, as in StepPreserves.
LEMMA StepAddresses ==
  ASSUME AInv, DInv, NEW w \in Workers, NEW ov \in SUBSET Workers, NEW s, Move(w, s, ov),
         \A v \in ov : v = w \/ req[v] # Idle, Lasting, TablesAddressed',
         s # Idle => Addressed(req[w])',
         \A v \in Workers \ {w} : req[v] # Idle =>
           \/ v \in ov \/ req[v].pc = "create"
           \/ /\ users'[req[v].user].email = users[req[v].user].email
              /\ users'[req[v].user].pending = users[req[v].user].pending
  PROVE  DInv'
<1>1. req'[w] = s
  BY DEF Move
<1>2. ASSUME NEW v \in Workers \ {w}, req'[v] # Idle PROVE Addressed(req[v])'
  <2>1. /\ req'[v] = req[v] \/ req'[v] = [req[v] EXCEPT !.raced = TRUE]
        /\ v \in ov => req'[v] = [req[v] EXCEPT !.raced = TRUE]
        /\ v \notin ov => req'[v] = req[v]
    BY DEF Move
  <2>2. req[v] # Idle
    BY <1>2, <2>1
  <2>3. req[v] \in Request
    BY <2>2, UnderWay
  <2>4. v \in ov => req'[v].raced
    BY <2>1, <2>3 DEF Request
  <2> QED BY <2>1, <2>2, <2>4, OthersAddressed DEF DInv
<1> QED BY <1>1, <1>2 DEF DInv

\* A step that leaves accounts, codes and the history of tokens as they are.
LEMMA QuietAddresses ==
  ASSUME AInv, DInv, NEW w \in Workers, NEW ov \in SUBSET Workers, NEW s, Move(w, s, ov),
         \A v \in ov : v = w \/ req[v] # Idle, UNCHANGED <<users, codes, issued, loose>>,
         s # Idle => Addressed(s)
  PROVE  DInv'
<1>1. Lasting
  BY DEF Lasting, Verified, Email
<1>2. TablesAddressed'
  BY DEF DInv, TablesAddressed, Verified, Email, PendingSent, SentBy, ChangeCode
<1>3. s # Idle => Addressed(req[w])'
  <2>1. req'[w] = s
    BY DEF Move
  <2> QED BY <2>1 DEF Addressed, SentBy, ChangeCode, Proven, Verified, Email
<1> QED BY <1>1, <1>2, <1>3, StepAddresses

\* A step that changes a row of users, and overtakes the other requests on it if there
\* can be any.
LEMMA AccountAddresses ==
  ASSUME AInv, DInv, NEW w \in Workers, NEW u \in Users, NEW row \in UserRow, Write(u, row),
         NEW ov, ov = OthersOn(w, u) \/ (~Exists(u) /\ ov = {}), NEW s, Move(w, s, ov),
         UNCHANGED <<codes, issued>>,
         Verified(u) => row.verified, Exists(u) => row.verified \/ row.email = Email(u),
         loose \subseteq loose', u \in loose' \/ row.pending \in {None, users[u].pending},
         s # Idle => Addressed(req[w])'
  PROVE  DInv'
<1>1. users'[u] = row /\ \A v \in Users : v # u => users'[v] = users[v]
  BY Parts DEF Write, TablesTyped
<1>2. Lasting
  BY <1>1 DEF Lasting, Verified, Email
<1>3. TablesAddressed'
  <2>1. ASSUME NEW t \in DOMAIN issued PROVE Verified(issued[t].user)'
    <3>1. issued[t].user \in Users
      BY Rows DEF TokenRow
    <3> QED BY <1>2, <3>1 DEF DInv, TablesAddressed, Lasting
  <2>2. ASSUME NEW c \in DOMAIN codes, codes[c].purpose = "verify_email"
        PROVE  Verified(codes[c].user)' \/ codes[c].to = Email(codes[c].user)'
    <3>1. codes[c].user \in Users /\ codes[c].to \in Emails
      BY Rows DEF CodeRow
    <3>2. Verified(codes[c].user) \/ codes[c].to = Email(codes[c].user)
      BY <2>2 DEF DInv, TablesAddressed
    <3>3. codes[c].to = Email(codes[c].user) => Exists(codes[c].user)
      BY <3>1, AuthAssumption DEF Email, Exists, NoUser
    <3> QED BY <1>2, <3>1, <3>2, <3>3 DEF Lasting
  <2>3. ASSUME NEW v \in Users, v \notin loose' PROVE PendingSent(v)'
    <3>1. PendingSent(v)
      BY <2>3 DEF DInv, TablesAddressed
    <3>2. users'[v].pending \in {None, users[v].pending}
      BY <1>1, <2>3
    <3> QED BY <3>1, <3>2 DEF PendingSent, SentBy, ChangeCode
  <2>4. issued' = issued /\ codes' = codes
    OBVIOUS
  <2> QED BY <2>1, <2>2, <2>3, <2>4 DEF DInv, TablesAddressed, Verified, Email
<1>4. \A v \in Workers \ {w} : req[v] # Idle =>
        \/ v \in ov \/ req[v].pc = "create"
        \/ /\ users'[req[v].user].email = users[req[v].user].email
           /\ users'[req[v].user].pending = users[req[v].user].pending
  <2> SUFFICES ASSUME NEW v \in Workers \ {w}, req[v] # Idle, v \notin ov, req[v].pc # "create"
               PROVE  users'[req[v].user] = users[req[v].user]
    OBVIOUS
  <2>1. req[v].user \in Users /\ Exists(req[v].user)
    BY UnderWay DEF WellFormed
  <2>2. req[v].user # u
    BY <2>1 DEF OthersOn
  <2> QED BY <1>1, <2>1, <2>2
<1>5. ov \in SUBSET Workers /\ \A v \in ov : v = w \/ req[v] # Idle
  BY Overtaken
<1> QED BY <1>2, <1>3, <1>4, <1>5, StepAddresses

LEMMA BeginAddresses ==
  ASSUME AInv, DInv, NEW w \in Workers, NEW s, Begin(w, s), UNCHANGED <<tables, faults, history>>,
         Addressed(s)
  PROVE  DInv'
BY QuietAddresses DEF Begin, tables, history

LEMMA RegisterAddresses ==
  ASSUME AInv, DInv, NEW w \in Workers, NEW e \in Emails, NEW p \in Passwords, Register(w, e, p)
  PROVE  DInv'
<1>1. ASSUME NEW u \in Users, HasEmail(u, e),
             Begin(w, [Idle EXCEPT !.op = "register", !.pc = "update", !.user = u, !.to = e, !.new = p])
      PROVE  DInv'
  <2> DEFINE s == [Idle EXCEPT !.op = "register", !.pc = "update", !.user = u, !.to = e, !.new = p]
  <2>1. Addressed(s)
    BY <1>1 DEF Idle, Addressed, HasEmail, Email
  <2> QED BY <1>1, <2>1, BeginAddresses DEF Register
<1>2. ASSUME Begin(w, [Idle EXCEPT !.op = "register", !.pc = "create", !.to = e, !.new = p])
      PROVE  DInv'
  <2> DEFINE s == [Idle EXCEPT !.op = "register", !.pc = "create", !.to = e, !.new = p]
  <2>1. Addressed(s)
    BY DEF Idle, Addressed
  <2> QED BY <1>2, <2>1, BeginAddresses DEF Register
<1> QED BY <1>1, <1>2 DEF Register

LEMMA createAdminAddresses ==
  ASSUME AInv, DInv, NEW w \in Workers, NEW e \in Emails, NEW p \in Passwords, createAdmin(w, e, p)
  PROVE  DInv'
<1> DEFINE s == [Idle EXCEPT !.op = "admin", !.pc = "create", !.to = e, !.new = p]
<1>1. Addressed(s)
  BY DEF Idle, Addressed
<1> QED BY <1>1, BeginAddresses DEF createAdmin

LEMMA ResendAddresses ==
  ASSUME AInv, DInv, NEW w \in Workers, NEW e \in Emails, ResendVerification(w, e)
  PROVE  DInv'
<1>1. PICK u \in Users : HasEmail(u, e)
              /\ Begin(w, [Idle EXCEPT !.op = "resend", !.pc = "code", !.user = u, !.to = e])
  BY DEF ResendVerification
<1> DEFINE s == [Idle EXCEPT !.op = "resend", !.pc = "code", !.user = u, !.to = e]
<1>2. Addressed(s)
  BY <1>1 DEF Idle, Addressed, HasEmail, Email
<1> QED BY <1>1, <1>2, BeginAddresses DEF ResendVerification

LEMMA ForgotAddresses ==
  ASSUME AInv, DInv, NEW w \in Workers, NEW e \in Emails, ForgotPassword(w, e)
  PROVE  DInv'
<1>1. PICK u \in Users : HasEmail(u, e)
              /\ Begin(w, [Idle EXCEPT !.op = "forgot", !.pc = "code", !.user = u, !.to = e])
  BY DEF ForgotPassword
<1> DEFINE s == [Idle EXCEPT !.op = "forgot", !.pc = "code", !.user = u, !.to = e]
<1>2. Addressed(s)
  BY DEF Idle, Addressed
<1> QED BY <1>1, <1>2, BeginAddresses DEF ForgotPassword

LEMMA LoginAddresses ==
  ASSUME AInv, DInv, NEW w \in Workers, NEW e \in Emails, NEW p \in Passwords, Login(w, e, p)
  PROVE  DInv'
<1>1. PICK u \in Users : users[u].verified
              /\ Begin(w, [Idle EXCEPT !.op = "login", !.pc = "issue", !.user = u, !.era = era[u]])
  BY DEF Login
<1> DEFINE s == [Idle EXCEPT !.op = "login", !.pc = "issue", !.user = u, !.era = era[u]]
<1>2. Addressed(s)
  BY <1>1 DEF Idle, Addressed, Verified
<1> QED BY <1>1, <1>2, BeginAddresses DEF Login

LEMMA VerifyAddresses ==
  ASSUME AInv, DInv, NEW w \in Workers, NEW e \in Emails, NEW c \in DOMAIN codes \cup {0}, VerifyEmail(w, e, c)
  PROVE  DInv'
<1>1. PICK u \in Users :
        Begin(w, [Idle EXCEPT !.op = "verify_email", !.pc = IF users[u].verified THEN "issue" ELSE "find",
                              !.user = u, !.code = c, !.era = era[u]])
  BY DEF VerifyEmail
<1> DEFINE s == [Idle EXCEPT !.op = "verify_email", !.pc = IF users[u].verified THEN "issue" ELSE "find",
                             !.user = u, !.code = c, !.era = era[u]]
<1>2. Addressed(s)
  BY DEF Idle, Addressed, Verified
<1> QED BY <1>1, <1>2, BeginAddresses DEF VerifyEmail

LEMMA ResetAddresses ==
  ASSUME AInv, DInv, NEW w \in Workers, NEW e \in Emails, NEW p \in Passwords, NEW c \in DOMAIN codes,
         ResetPassword(w, e, p, c)
  PROVE  DInv'
<1>1. PICK u \in Users :
        Begin(w, [Idle EXCEPT !.op = "reset", !.pc = "find", !.user = u, !.new = p, !.code = c])
  BY DEF ResetPassword
<1> DEFINE s == [Idle EXCEPT !.op = "reset", !.pc = "find", !.user = u, !.new = p, !.code = c]
<1>2. Addressed(s)
  BY DEF Idle, Addressed
<1> QED BY <1>1, <1>2, BeginAddresses DEF ResetPassword

LEMMA RefreshAddresses ==
  ASSUME AInv, DInv, NEW w \in Workers, NEW t \in DOMAIN issued, Refresh(w, t)
  PROVE  DInv'
<1> DEFINE u == issued[t].user
           s == [Idle EXCEPT !.op = "refresh", !.pc = "delete", !.user = u, !.token = t, !.era = era[u]]
<1>1. Addressed(s)
  BY DEF Idle, Addressed, DInv, TablesAddressed
<1> QED BY <1>1, BeginAddresses DEF Refresh

LEMMA SignedInIsVerified ==
  ASSUME DInv, NEW u \in Users, Authenticate(u)
  PROVE  Verified(u)
BY DEF Authenticate, DInv, TablesAddressed

LEMMA UpdateProfileAddresses ==
  ASSUME AInv, DInv, NEW w \in Workers, NEW u \in Users, NEW q \in Passwords \cup {None},
         NEW p \in Passwords \cup {None}, UpdateProfile(w, u, q, p)
  PROVE  DInv'
<1> DEFINE s == [Idle EXCEPT !.op = IF p = None THEN "rename" ELSE "password", !.pc = "update", !.user = u,
                             !.to = users[u].email, !.new = IF p = None THEN users[u].password ELSE p]
<1>1. Verified(u)
  BY SignedInIsVerified DEF UpdateProfile
<1>2. Addressed(s)
  BY <1>1 DEF Idle, Addressed, Email
<1> QED BY <1>2, BeginAddresses DEF UpdateProfile

LEMMA RequestEmailChangeAddresses ==
  ASSUME AInv, DInv, NEW w \in Workers, NEW u \in Users, NEW e \in Emails, RequestEmailChange(w, u, e)
  PROVE  DInv'
<1> DEFINE s == [Idle EXCEPT !.op = "request", !.pc = "existing", !.user = u, !.to = e]
<1>1. Verified(u)
  BY SignedInIsVerified DEF RequestEmailChange
<1>2. Addressed(s)
  BY <1>1 DEF Idle, Addressed
<1> QED BY <1>2, BeginAddresses DEF RequestEmailChange

\* A pending address that is not loose comes with the code that was sent to it.
LEMMA ConfirmEmailChangeAddresses ==
  ASSUME AInv, DInv, NEW w \in Workers, NEW u \in Users, NEW c \in DOMAIN codes, ConfirmEmailChange(w, u, c)
  PROVE  DInv'
<1> DEFINE e == users[u].pending
           s == [Idle EXCEPT !.op = "confirm", !.pc = "find", !.user = u, !.code = c,
                             !.to = e, !.new = users[u].password, !.loose = u \in loose]
<1>1. Verified(u) /\ e # None
  BY SignedInIsVerified DEF ConfirmEmailChange
<1>2. u \notin loose => \E n \in DOMAIN codes : SentBy(n, u, e, c)
  <2> SUFFICES ASSUME u \notin loose PROVE \E n \in DOMAIN codes : SentBy(n, u, e, c)
    OBVIOUS
  <2>1. PICK n \in DOMAIN codes : SentBy(n, u, e, Len(codes))
    BY <1>1 DEF DInv, TablesAddressed, PendingSent
  <2>2. codes \in Seq(CodeRow)
    BY Parts DEF TablesTyped
  <2>3. \A d \in DOMAIN codes : d <= Len(codes)
    BY <2>2
  <2> QED BY <2>1, <2>3 DEF SentBy
<1>3. /\ s.pc = "find" /\ s.op = "confirm" /\ s.user = u /\ s.code = c /\ s.to = e
      /\ s.loose <=> u \in loose
  BY DEF Idle
<1> HIDE DEF s, e
<1>4. Addressed(s)
  BY <1>1, <1>2, <1>3 DEF Addressed
<1> QED BY <1>4, BeginAddresses DEF ConfirmEmailChange, s, e

LEMMA LogoutAddresses ==
  ASSUME AInv, DInv, NEW w \in Workers, NEW u \in Users, NEW t \in DOMAIN issued, Logout(w, u, t)
  PROVE  DInv'
<1> DEFINE ov == IF t \in tokens THEN OthersOn(w, issued[t].user) ELSE {}
<1>1. issued[t].user \in Users
  BY Rows DEF TokenRow
<1>2. ov \in SUBSET Workers /\ \A v \in ov : v = w \/ req[v] # Idle
  BY <1>1, Overtaken
<1> QED BY <1>2, QuietAddresses DEF Logout, history

-----------------------------------------------------------------------------
(* Addresses and calls.                                                    *)

LEMMA ClearPendingAddresses ==
  ASSUME AInv, DInv, NEW w \in Workers, NEW u \in Users, Exists(u), ClearPending(w, u),
         UNCHANGED <<codes, history>>
  PROVE  DInv'
<1> DEFINE row == [users[u] EXCEPT !.pending = None]
<1>1. row \in UserRow /\ row.verified = Verified(u) /\ row.email = Email(u) /\ row.pending = None
  BY RowOf DEF UserRow, Verified, Email
<1>2. Write(u, row) /\ Move(w, Idle, OthersOn(w, u)) /\ UNCHANGED <<codes, issued, loose>>
  BY DEF ClearPending, history
<1> HIDE DEF row
<1> QED BY <1>1, <1>2, AccountAddresses

LEMMA CancelAddresses ==
  ASSUME AInv, DInv, NEW w \in Workers, NEW u \in Users, CancelEmailChange(w, u)
  PROVE  DInv'
BY SignedIn, ClearPendingAddresses DEF CancelEmailChange

LEMMA ClearPendingEmailAddresses ==
  ASSUME AInv, DInv, NEW w \in Workers, ClearPendingEmail(w)
  PROVE  DInv'
<1>1. req[w].user \in Users /\ Exists(req[w].user)
  BY AtCall DEF ClearPendingEmail, At, WellFormed
<1> QED BY <1>1, ClearPendingAddresses DEF ClearPendingEmail

LEMMA CreateUserAddresses ==
  ASSUME AInv, DInv, NEW w \in Workers, NEW u \in Users, CreateUser(w, u)
  PROVE  DInv'
<1> DEFINE row == [email |-> req[w].to, password |-> req[w].new, verified |-> FALSE, pending |-> None]
           s == [req[w] EXCEPT !.pc = "code", !.user = u]
<1>1. req[w] \in Request /\ WellFormed(req[w]) /\ Addressed(req[w]) /\ At(w, "create")
  BY AtCall DEF CreateUser, At, DInv
<1>2. UNCHANGED <<codes, issued, loose>>
  BY DEF CreateUser, history
<1>3. CASE ~Exists(u) /\ Write(u, row) /\ Move(w, IF req[w].op = "admin" THEN Idle ELSE s, {})
  <2>1. row \in UserRow
    BY <1>1 DEF UserRow, WellFormed, At
  <2>2. users'[u] = row /\ row.email = req[w].to /\ row.pending = None
    BY <1>3, Parts DEF Write, TablesTyped
  <2>3. ~Verified(u)
    BY <1>3 DEF Exists, NoUser, Verified
  <2>4. req[w].op # "admin" => /\ s.pc = "code" /\ s.user = u /\ s.to = req[w].to /\ s.op = "register"
    BY <1>1 DEF Request, Addressed, At
  <2>5. PICK q : q = IF req[w].op = "admin" THEN Idle ELSE s
    OBVIOUS
  <2> HIDE DEF row, s
  <2>6. req'[w] = q
    BY <1>3, <2>5 DEF Move
  <2>7. q # Idle => Addressed(req[w])'
    BY <2>2, <2>4, <2>5, <2>6 DEF Addressed, Email
  <2> QED BY <1>2, <1>3, <2>1, <2>2, <2>3, <2>5, <2>7, AccountAddresses
<1>4. CASE Return(w) /\ UNCHANGED users
  BY <1>2, <1>4, QuietAddresses DEF Return
<1> QED BY <1>3, <1>4 DEF CreateUser

LEMMA SetPendingEmailAddresses ==
  ASSUME AInv, DInv, NEW w \in Workers, SetPendingEmail(w)
  PROVE  DInv'
<1>0. PICK u : u = req[w].user
  OBVIOUS
<1> DEFINE row == [users[u] EXCEPT !.pending = req[w].to]
           s == [req[w] EXCEPT !.pc = "code"]
<1>1. /\ req[w] \in Request /\ WellFormed(req[w]) /\ Addressed(req[w]) /\ At(w, "pending")
      /\ req[w] # Idle
  BY AtCall DEF SetPendingEmail, At, DInv
<1>2. u \in Users /\ Exists(u) /\ req[w].to \in Emails
  BY <1>0, <1>1 DEF WellFormed, At
<1>3. row \in UserRow /\ row.verified = Verified(u) /\ row.email = Email(u) /\ row.pending = req[w].to
  BY <1>2, RowOf DEF UserRow, Verified, Email
<1>4. Write(u, row) /\ Move(w, s, OthersOn(w, u)) /\ loose' = loose \cup {u} /\ UNCHANGED <<codes, issued>>
  BY <1>0 DEF SetPendingEmail
<1>5. s.pc = "code" /\ s.user = u /\ s.to = req[w].to /\ s.op = req[w].op /\ s.op = "request"
  BY <1>0, <1>1 DEF Request, At, Addressed
<1>6. users'[u] = row
  BY <1>2, <1>4, Parts DEF Write, TablesTyped
<1> HIDE DEF row, s
<1>7. req'[w] = s
  BY <1>4 DEF Move
<1>8. Addressed(req[w])'
  BY <1>0, <1>1, <1>3, <1>5, <1>6, <1>7 DEF Addressed, Verified, Email
<1> QED BY <1>2, <1>3, <1>4, <1>8, AccountAddresses

LEMMA SetVerifiedAddresses ==
  ASSUME AInv, DInv, NEW w \in Workers, SetVerified(w)
  PROVE  DInv'
<1>0. PICK u : u = req[w].user
  OBVIOUS
<1> DEFINE row == [users[u] EXCEPT !.verified = TRUE]
           s == [req[w] EXCEPT !.pc = "issue"]
<1>1. /\ req[w] \in Request /\ WellFormed(req[w]) /\ Addressed(req[w]) /\ At(w, "verify")
      /\ req[w] # Idle
  BY AtCall DEF SetVerified, At, DInv
<1>2. u \in Users /\ Exists(u)
  BY <1>0, <1>1 DEF WellFormed, At
<1>3. row \in UserRow /\ row.verified = TRUE /\ row.email = Email(u) /\ row.pending = users[u].pending
  BY <1>2, RowOf DEF UserRow, Email
<1>4. Write(u, row) /\ Move(w, s, OthersOn(w, u)) /\ UNCHANGED <<codes, issued, loose>>
  BY <1>0 DEF SetVerified, history
<1>5. s.pc = "issue" /\ s.user = u /\ s.op = req[w].op
  BY <1>0, <1>1 DEF Request
<1>6. users'[u] = row
  BY <1>2, <1>4, Parts DEF Write, TablesTyped
<1> HIDE DEF row, s
<1>7. req'[w] = s
  BY <1>4 DEF Move
<1>8. Addressed(req[w])'
  BY <1>3, <1>5, <1>6, <1>7 DEF Addressed, Verified
<1> QED BY <1>2, <1>3, <1>4, <1>8, AccountAddresses

LEMMA UpdatePasswordAddresses ==
  ASSUME AInv, DInv, NEW w \in Workers, UpdatePassword(w)
  PROVE  DInv'
<1>0. PICK u : u = req[w].user
  OBVIOUS
<1> DEFINE row == [users[u] EXCEPT !.password = req[w].new]
           s == [req[w] EXCEPT !.pc = "revoke"]
<1>1. /\ req[w] \in Request /\ WellFormed(req[w]) /\ Addressed(req[w]) /\ At(w, "password")
      /\ req[w] # Idle
  BY AtCall DEF UpdatePassword, At, DInv
<1>2. u \in Users /\ Exists(u) /\ req[w].new \in Passwords
  BY <1>0, <1>1 DEF WellFormed, At
<1>3. /\ row \in UserRow /\ row.verified = Verified(u) /\ row.email = Email(u)
      /\ row.pending = users[u].pending
  BY <1>2, RowOf DEF UserRow, Verified, Email
<1>4. Write(u, row) /\ Move(w, s, OthersOn(w, u)) /\ UNCHANGED <<codes, issued, loose>>
  BY <1>0 DEF UpdatePassword, history
<1>5. s.pc = "revoke" /\ s.user = u /\ s.op = req[w].op
  BY <1>0, <1>1 DEF Request
<1>6. users'[u] = row
  BY <1>2, <1>4, Parts DEF Write, TablesTyped
<1> HIDE DEF row, s
<1>7. req'[w] = s
  BY <1>4 DEF Move
<1>8. Addressed(req[w])'
  BY <1>0, <1>1, <1>3, <1>5, <1>6, <1>7 DEF Addressed, Verified
<1> QED BY <1>2, <1>3, <1>4, <1>8, AccountAddresses

\* A user who is not verified gets the address it has.
LEMMA WriteBackAddresses ==
  ASSUME AInv, DInv, NEW w \in Workers, WriteBack(w)
  PROVE  DInv'
<1>0. PICK u : u = req[w].user
  OBVIOUS
<1> DEFINE row == [users[u] EXCEPT !.email = req[w].to, !.password = req[w].new]
<1>1. /\ req[w] \in Request /\ WellFormed(req[w]) /\ Addressed(req[w]) /\ At(w, "update")
      /\ req[w] # Idle
  BY AtCall DEF WriteBack, At, DInv
<1>2. u \in Users /\ Exists(u) /\ req[w].to \in Emails /\ req[w].new \in Passwords
  BY <1>0, <1>1 DEF WellFormed, At
<1>3. /\ row \in UserRow /\ row.verified = Verified(u) /\ row.email = req[w].to
      /\ row.pending = users[u].pending
  BY <1>2, RowOf DEF UserRow, Verified
<1>4. UNCHANGED <<codes, issued, loose>>
  BY DEF WriteBack, history
<1>5. Verified(u) \/ req[w].to = Email(u)
  BY <1>0, <1>1 DEF Addressed, At, WellFormed
<1>6. ASSUME NEW s, Write(u, row), Move(w, s, OthersOn(w, u)),
             \/ s = Idle
             \/ s = [req[w] EXCEPT !.pc = "code"] /\ req[w].op = "register"
             \/ s = [req[w] EXCEPT !.pc = "clear"] /\ req[w].op = "confirm"
      PROVE  DInv'
  <2>1. s # Idle => /\ s.user = u /\ s.to = req[w].to /\ s.op = req[w].op
                    /\ \/ s.pc = "code" /\ s.op = "register"
                       \/ s.pc = "clear" /\ s.op = "confirm"
    BY <1>0, <1>1, <1>6 DEF Request
  <2>2. users'[u] = row
    BY <1>2, <1>6, Parts DEF Write, TablesTyped
  <2> HIDE DEF row
  <2>3. req'[w] = s
    BY <1>6 DEF Move
  <2>4. s # Idle => Addressed(req[w])'
    BY <1>0, <1>1, <1>3, <2>1, <2>2, <2>3 DEF Addressed, Verified, Email
  <2> QED BY <1>2, <1>3, <1>4, <1>5, <1>6, <2>4, AccountAddresses
<1>7. CASE UpdateUser(u, req[w].to, req[w].new)
           /\ Move(w, CASE req[w].op = "register" -> [req[w] EXCEPT !.pc = "code"]
                        [] req[w].op = "confirm" -> [req[w] EXCEPT !.pc = "clear"]
                        [] OTHER -> Idle, OthersOn(w, u))
  <2>1. Write(u, row)
    BY <1>7 DEF UpdateUser
  <2> HIDE DEF row
  <2>2. CASE req[w].op = "register"
    BY <1>6, <1>7, <2>1, <2>2
  <2>3. CASE req[w].op = "confirm"
    BY <1>6, <1>7, <2>1, <2>3
  <2>4. CASE req[w].op \notin {"register", "confirm"}
    BY <1>6, <1>7, <2>1, <2>4
  <2> QED BY <2>2, <2>3, <2>4
<1>8. CASE Return(w) /\ UNCHANGED users
  BY <1>4, <1>8, QuietAddresses DEF Return
<1> QED BY <1>0, <1>7, <1>8 DEF WriteBack

LEMMA CheckExistingAddresses ==
  ASSUME AInv, DInv, NEW w \in Workers, CheckExisting(w)
  PROVE  DInv'
<1> DEFINE s == [req[w] EXCEPT !.pc = "pending"]
<1>1. req[w] \in Request /\ Addressed(req[w]) /\ At(w, "existing")
  BY AtCall DEF CheckExisting, At, DInv
<1>2. s.pc = "pending" /\ s.user = req[w].user /\ s.op = req[w].op
  BY <1>1 DEF Request
<1> HIDE DEF s
<1>3. Addressed(s)
  BY <1>1, <1>2 DEF Addressed, At
<1>4. Move(w, s, {}) \/ Move(w, Idle, {})
  BY DEF CheckExisting, Goto, Return, s
<1> QED BY <1>3, <1>4, QuietAddresses DEF CheckExisting, tables, history

\* The latest code is the one that was sent last, or that one has been used: codes expire
\* in the order in which they were sent.
LEMMA GetLatestCodeAddresses ==
  ASSUME AInv, DInv, NEW w \in Workers, GetLatestCode(w)
  PROVE  DInv'
<1>0. PICK r, c : r = req[w] /\ c = r.code
  OBVIOUS
<1> DEFINE s == [r EXCEPT !.pc = "mark"]
<1>1. r \in Request /\ WellFormed(r) /\ Addressed(r) /\ r.pc = "find"
  BY <1>0, AtCall DEF GetLatestCode, At, DInv
<1>2. CASE Move(w, s, {}) /\ IsLatest(c, r.user, PurposeOf(w))
  <2>1. /\ s.pc = "mark" /\ s.user = r.user /\ s.op = r.op /\ s.to = r.to /\ s.code = c
        /\ s.loose = r.loose
    BY <1>0, <1>1 DEF Request
  <2>2. /\ c \in DOMAIN codes /\ codes[c].user = r.user /\ codes[c].purpose = PurposeOf(w)
        /\ codes[c].state = "live"
        /\ \A d \in DOMAIN codes :
             codes[d].user = r.user /\ codes[d].purpose = PurposeOf(w) /\ codes[d].state = "live" => d <= c
    BY <1>2 DEF IsLatest
  <2>3. /\ r.op = "confirm" => PurposeOf(w) = "change_email"
        /\ r.op = "verify_email" => PurposeOf(w) = "verify_email"
    BY <1>0 DEF PurposeOf
  <2>4. ASSUME r.op = "confirm", ~r.loose
        PROVE  codes[c].to = r.to \/ Proven(r.user, r.to)
    <3>1. PICK n \in DOMAIN codes : SentBy(n, r.user, r.to, c)
      BY <1>0, <1>1, <2>4 DEF Addressed
    <3>2. n \in Nat /\ c \in Nat /\ codes[n] \in CodeRow
      BY <2>2, Rows
    <3>3. c <= n
      BY <2>2, <2>3, <2>4, <3>1, <3>2 DEF SentBy, ChangeCode
    <3>4. CASE c = n
      BY <3>1, <3>4 DEF SentBy
    <3>5. CASE c # n
      <4>1. codes[n].state # "live"
        BY <2>2, <2>3, <2>4, <3>1, <3>2, <3>3, <3>5 DEF SentBy, ChangeCode
      <4>2. codes[n].state # "expired"
        BY <2>2, <3>2, <3>3, <3>5 DEF DInv, TablesAddressed
      <4>3. codes[n].state = "used"
        BY <3>2, <4>1, <4>2 DEF CodeRow
      <4> QED BY <3>1, <4>3 DEF Proven, SentBy, ChangeCode
    <3> QED BY <3>4, <3>5
  <2> HIDE DEF s
  <2>5. Addressed(s)
    BY <1>1, <2>1, <2>2, <2>3, <2>4 DEF Addressed
  <2> QED BY <1>2, <2>5, QuietAddresses DEF GetLatestCode, tables, history
<1>3. CASE Return(w)
  BY <1>3, QuietAddresses DEF Return, GetLatestCode, tables, history
<1> QED BY <1>0, <1>2, <1>3 DEF GetLatestCode, Goto

LEMMA sendCodeAddresses ==
  ASSUME AInv, DInv, NEW w \in Workers, sendCode(w)
  PROVE  DInv'
<1>0. PICK r, row, n : /\ r = req[w] /\ n = Len(codes) + 1
                       /\ row = [user |-> r.user, purpose |-> PurposeOf(w), to |-> r.to, state |-> "live", uses |-> 0]
  OBVIOUS
<1>1. r \in Request /\ WellFormed(r) /\ Addressed(r) /\ r.pc = "code"
  BY <1>0, AtCall DEF sendCode, At, DInv
<1>2. /\ codes' = Append(codes, row) /\ UNCHANGED <<users, issued>> /\ Move(w, Idle, {})
      /\ loose' = IF r.op # "request" THEN loose
                  ELSE IF r.raced THEN loose \cup {r.user} ELSE loose \ {r.user}
  BY <1>0 DEF sendCode, CreateVerificationCode, Return
<1>3. /\ DOMAIN codes' = DOMAIN codes \cup {n} /\ codes'[n] = row /\ n \notin DOMAIN codes
      /\ Len(codes') = n /\ n \in Nat
      /\ \A c \in DOMAIN codes : codes'[c] = codes[c] /\ c \in Nat /\ c <= Len(codes) /\ c < n
  <2>1. codes \in Seq(CodeRow)
    BY Parts DEF TablesTyped
  <2> QED BY <1>0, <1>2, <2>1
<1>4. /\ row.user = r.user /\ row.to = r.to /\ row.state = "live" /\ row.purpose = PurposeOf(w)
      /\ r.op \in {"register", "resend", "forgot", "request"}
      /\ r.op = "request" <=> row.purpose = "change_email"
      /\ row.purpose = "verify_email" => r.op \in {"register", "resend"}
      /\ r.user \in Users
  <2>1. r.op \in {"register", "resend", "forgot", "request"} /\ r.user \in Users
    BY <1>1 DEF Addressed, WellFormed
  <2>2. /\ r.op = "request" <=> PurposeOf(w) = "change_email"
        /\ PurposeOf(w) = "verify_email" => r.op \in {"register", "resend"}
    BY <1>0, <2>1 DEF PurposeOf
  <2> QED BY <1>0, <2>1, <2>2
<1>5. Lasting
  BY <1>2, <1>3 DEF Lasting, Verified, Email
<1>6. ASSUME NEW v \in Users, v \notin loose', users[v].pending # None
      PROVE  \E m \in DOMAIN codes' : SentBy(m, v, users[v].pending, Len(codes))'
  <2>1. CASE v = r.user /\ r.op = "request"
    <3>1. users[v].pending = r.to
      BY <1>1, <1>2, <1>6, <2>1 DEF Addressed
    <3>2. SentBy(n, v, users[v].pending, Len(codes))'
      BY <1>2, <1>3, <1>4, <2>1, <3>1 DEF SentBy, ChangeCode
    <3> QED BY <1>3, <3>2
  <2>2. CASE ~(v = r.user /\ r.op = "request")
    <3>1. ~(codes'[n].user = v /\ codes'[n].purpose = "change_email")
      BY <1>3, <1>4, <2>2
    <3>2. v \notin loose
      BY <1>2, <1>6, <2>2
    <3>3. PICK m \in DOMAIN codes : SentBy(m, v, users[v].pending, Len(codes))
      BY <1>6, <3>2 DEF DInv, TablesAddressed, PendingSent
    <3>4. SentBy(m, v, users[v].pending, Len(codes))'
      BY <1>2, <1>3, <3>1, <3>3 DEF SentBy, ChangeCode
    <3> QED BY <1>3, <3>4
  <2> QED BY <2>1, <2>2
<1>7. TablesAddressed'
  <2>1. \A t \in DOMAIN issued' : Verified(issued[t].user)'
    BY <1>2 DEF DInv, TablesAddressed, Verified
  <2>2. ASSUME NEW c \in DOMAIN codes', codes'[c].purpose = "verify_email"
        PROVE  Verified(codes[c].user)' \/ codes'[c].to = Email(codes[c].user)'
    <3>1. CASE c = n
      BY <1>1, <1>2, <1>3, <1>4, <2>2, <3>1 DEF Addressed, Verified, Email
    <3>2. CASE c \in DOMAIN codes
      BY <1>2, <1>3, <2>2, <3>2 DEF DInv, TablesAddressed, Verified, Email
    <3> QED BY <1>3, <3>1, <3>2
  <2>3. \A c, d \in DOMAIN codes' : d < c /\ codes'[c].state = "expired" => codes'[d].state # "live"
    <3> SUFFICES ASSUME NEW c \in DOMAIN codes', NEW d \in DOMAIN codes', d < c, codes'[c].state = "expired"
                 PROVE  codes'[d].state # "live"
      OBVIOUS
    <3>1. c \in DOMAIN codes
      BY <1>3, <1>4
    <3>2. d \in DOMAIN codes
      BY <1>3, <3>1
    <3> QED BY <1>3, <3>1, <3>2 DEF DInv, TablesAddressed
  <2>4. \A v \in Users : v \in loose' \/ PendingSent(v)'
    BY <1>2, <1>6 DEF PendingSent
  <2> QED BY <2>1, <2>2, <2>3, <2>4 DEF TablesAddressed
<1> QED BY <1>2, <1>5, <1>7, StepAddresses

\* A code that changes its state, but not from or to live, or the oldest that is live.
LEMMA CodeStateChanges ==
  ASSUME AInv, DInv, NEW c \in DOMAIN codes, UNCHANGED <<users, issued, loose>>,
         DOMAIN codes' = DOMAIN codes, Len(codes') = Len(codes),
         \A d \in DOMAIN codes : d # c => codes'[d] = codes[d],
         codes'[c].user = codes[c].user, codes'[c].purpose = codes[c].purpose, codes'[c].to = codes[c].to,
         \/ codes'[c].state = "used"
         \/ /\ codes[c].state = "live" /\ codes'[c].state = "expired"
            /\ \A d \in DOMAIN codes : d < c => codes[d].state # "live"
  PROVE  Lasting /\ TablesAddressed'
<1>1. Lasting
  BY DEF Lasting, Verified, Email
<1>2. \A d \in DOMAIN codes : /\ codes'[d].user = codes[d].user /\ codes'[d].purpose = codes[d].purpose
                              /\ codes'[d].to = codes[d].to
                              /\ codes'[d].state = "live" => codes[d].state = "live"
  OBVIOUS
<1>3. ASSUME NEW v \in Users PROVE v \in loose' \/ PendingSent(v)'
  <2> SUFFICES ASSUME v \notin loose, users[v].pending # None
               PROVE  \E m \in DOMAIN codes : SentBy(m, v, users[v].pending, Len(codes))'
    BY DEF PendingSent
  <2>1. PICK m \in DOMAIN codes : SentBy(m, v, users[v].pending, Len(codes))
    BY DEF DInv, TablesAddressed, PendingSent
  <2>2. SentBy(m, v, users[v].pending, Len(codes))'
    BY <1>2, <2>1 DEF SentBy, ChangeCode
  <2> QED BY <2>2
<1>4. ASSUME NEW d \in DOMAIN codes, codes'[d].purpose = "verify_email"
      PROVE  Verified(codes[d].user)' \/ codes'[d].to = Email(codes[d].user)'
  BY <1>2, <1>4 DEF DInv, TablesAddressed, Verified, Email
<1>5. ASSUME NEW a \in DOMAIN codes, NEW d \in DOMAIN codes, d < a, codes'[a].state = "expired"
      PROVE  codes'[d].state # "live"
  <2>1. CASE a = c
    BY <1>2, <1>5, <2>1
  <2>2. CASE a # c
    <3>1. codes[a].state = "expired"
      BY <1>5, <2>2
    <3>2. codes[d].state # "live"
      BY <1>5, <3>1 DEF DInv, TablesAddressed
    <3> QED BY <1>2, <3>2
  <2> QED BY <2>1, <2>2
<1>6. \A t \in DOMAIN issued' : Verified(issued[t].user)'
  BY DEF DInv, TablesAddressed, Verified
<1> QED BY <1>1, <1>3, <1>4, <1>5, <1>6 DEF TablesAddressed

LEMMA MarkCodeUsedAddresses ==
  ASSUME AInv, DInv, NEW w \in Workers, MarkCodeUsed(w)
  PROVE  DInv'
<1>0. PICK r, c, row : r = req[w] /\ c = r.code /\ row = UsedCode(c)
  OBVIOUS
<1>1. /\ r \in Request /\ WellFormed(r) /\ Addressed(r) /\ r.pc = "mark"
      /\ c \in DOMAIN codes /\ codes[c].user = r.user /\ r.user \in Users
      /\ r.op \in {"confirm", "verify_email", "reset"}
  BY <1>0, AtCall DEF MarkCodeUsed, At, DInv, WellFormed
<1>2. codes \in Seq(CodeRow) /\ codes[c] \in CodeRow
  BY <1>1, Rows, Parts DEF TablesTyped
<1>3. /\ row.user = codes[c].user /\ row.purpose = codes[c].purpose /\ row.to = codes[c].to
      /\ row.state = "used"
  BY <1>0, <1>2 DEF UsedCode, CodeRow
<1>4. codes' = [codes EXCEPT ![c] = row] /\ UNCHANGED <<users, issued, loose>>
  BY <1>0 DEF MarkCodeUsed, history
<1>5. /\ DOMAIN codes' = DOMAIN codes /\ Len(codes') = Len(codes) /\ codes'[c] = row
      /\ \A d \in DOMAIN codes : d # c => codes'[d] = codes[d]
  BY <1>1, <1>2, <1>4
<1>6. Lasting /\ TablesAddressed'
  BY <1>1, <1>3, <1>4, <1>5, CodeStateChanges
<1>7. PICK pc : /\ pc = CASE r.op = "confirm" -> "update"
                          [] r.op = "verify_email" -> "verify"
                          [] OTHER -> "password"
                /\ Move(w, [r EXCEPT !.pc = pc], OthersOn(w, r.user))
  BY <1>0 DEF MarkCodeUsed
<1>8. PICK s : s = [r EXCEPT !.pc = pc]
  OBVIOUS
<1>9. /\ s.pc = pc /\ s.user = r.user /\ s.op = r.op /\ s.to = r.to /\ s.code = c /\ s.loose = r.loose
      /\ req'[w] = s
  BY <1>0, <1>1, <1>7, <1>8 DEF Request, Move
<1>10. codes[c].purpose \in {"verify_email", "change_email"} => Proven(r.user, codes[c].to)'
  <2>1. /\ codes'[c].user = r.user /\ codes'[c].to = codes[c].to /\ codes'[c].state = "used"
        /\ codes'[c].purpose = codes[c].purpose /\ c \in DOMAIN codes'
    BY <1>1, <1>3, <1>5
  <2>2. ASSUME NEW e, e = codes[c].to, codes[c].purpose \in {"verify_email", "change_email"}
        PROVE  Proven(r.user, e)'
    BY <2>1, <2>2 DEF Proven
  <2> QED BY <2>1, <2>2 DEF Proven
<1>11. Addressed(req[w])'
  <2>1. CASE r.op = "confirm"
    <3>1. s.pc = "update" /\ Verified(r.user)
      BY <1>1, <1>7, <1>9, <2>1 DEF Addressed
    <3>2. ~r.loose => Proven(r.user, r.to)'
      <4> SUFFICES ASSUME ~r.loose PROVE Proven(r.user, r.to)'
        OBVIOUS
      <4>1. codes[c].purpose = "change_email" /\ (codes[c].to = r.to \/ Proven(r.user, r.to))
        BY <1>0, <1>1, <2>1 DEF Addressed
      <4>2. CASE codes[c].to = r.to
        <5>1. /\ codes'[c].user = r.user /\ codes'[c].to = r.to /\ codes'[c].state = "used"
              /\ codes'[c].purpose = "change_email" /\ c \in DOMAIN codes'
          BY <1>1, <1>3, <1>5, <4>1, <4>2
        <5> QED BY <5>1 DEF Proven
      <4>3. CASE Proven(r.user, r.to)
        BY <1>6, <4>3, ProvenStays
      <4> QED BY <4>1, <4>2, <4>3
    <3> QED BY <1>4, <1>9, <2>1, <3>1, <3>2 DEF Addressed, Proven, Verified
  <2>2. CASE r.op = "verify_email"
    <3>1. s.pc = "verify" /\ codes[c].purpose = "verify_email"
      BY <1>0, <1>1, <1>7, <1>9, <2>2 DEF Addressed
    <3>2. Verified(r.user) \/ codes[c].to = Email(r.user)
      BY <1>1, <3>1 DEF DInv, TablesAddressed
    <3>3. codes[c].to = Email(r.user) => Proven(r.user, Email(r.user))'
      <4>1. /\ codes'[c].user = r.user /\ codes'[c].to = codes[c].to /\ codes'[c].state = "used"
            /\ codes'[c].purpose = "verify_email" /\ c \in DOMAIN codes'
        BY <1>1, <1>3, <1>5, <3>1
      <4> QED BY <1>4, <4>1 DEF Proven, Email
    <3> QED BY <1>4, <1>9, <2>2, <3>1, <3>2, <3>3 DEF Addressed, Proven, Verified, Email
  <2>3. CASE r.op = "reset"
    <3>1. s.pc = "password"
      BY <1>7, <1>9, <2>3
    <3> QED BY <1>9, <2>3, <3>1 DEF Addressed
  <2> QED BY <1>1, <2>1, <2>2, <2>3
<1>12. /\ Move(w, s, OthersOn(w, r.user)) /\ (s # Idle => Addressed(req[w])')
       /\ OthersOn(w, r.user) \in SUBSET Workers /\ \A v \in OthersOn(w, r.user) : v = w \/ req[v] # Idle
  BY <1>1, <1>7, <1>8, <1>11, Overtaken
<1> QED BY <1>4, <1>6, <1>12, StepAddresses

LEMMA CodeExpiresAddresses ==
  ASSUME AInv, DInv, CodeExpires
  PROVE  DInv'
<1>1. PICK c \in DOMAIN codes :
        /\ codes[c].state = "live" /\ \A d \in 1 .. (c - 1) : codes[d].state # "live"
        /\ codes' = [codes EXCEPT ![c].state = "expired"]
  BY DEF CodeExpires
<1>2. codes \in Seq(CodeRow) /\ codes[c] \in CodeRow /\ UNCHANGED <<users, issued, loose, req>>
  BY Rows, Parts DEF TablesTyped, CodeExpires, history
<1>3. PICK row : row = [codes[c] EXCEPT !.state = "expired"]
  OBVIOUS
<1>4. /\ row.user = codes[c].user /\ row.purpose = codes[c].purpose /\ row.to = codes[c].to
      /\ row.state = "expired"
  BY <1>2, <1>3 DEF CodeRow
<1>5. codes' = [codes EXCEPT ![c] = row]
  BY <1>1, <1>3
<1>6. /\ DOMAIN codes' = DOMAIN codes /\ Len(codes') = Len(codes) /\ codes'[c] = row
      /\ \A d \in DOMAIN codes : d # c => codes'[d] = codes[d]
  BY <1>1, <1>2, <1>5
<1>7. \A d \in DOMAIN codes : d < c => codes[d].state # "live"
  <2>1. \A d \in DOMAIN codes : d < c => d \in 1 .. (c - 1)
    BY <1>1, <1>2
  <2> QED BY <1>1, <2>1
<1>8. Lasting /\ TablesAddressed'
  BY <1>1, <1>2, <1>4, <1>6, <1>7, CodeStateChanges
<1>9. ASSUME NEW w \in Workers, req'[w] # Idle PROVE Addressed(req[w])'
  BY <1>2, <1>8, <1>9, OthersAddressed DEF DInv
<1> QED BY <1>8, <1>9 DEF DInv

LEMMA DeleteRefreshTokenAddresses ==
  ASSUME AInv, DInv, NEW w \in Workers, DeleteRefreshToken(w)
  PROVE  DInv'
<1>0. PICK s, ov : /\ s = [req[w] EXCEPT !.pc = "issue"]
                   /\ ov = IF req[w].token \in tokens THEN OthersOn(w, req[w].user) ELSE {}
  OBVIOUS
<1>1. req[w] \in Request /\ WellFormed(req[w]) /\ Addressed(req[w]) /\ At(w, "delete")
  BY AtCall DEF DeleteRefreshToken, At, DInv
<1>2. /\ s.pc = "issue" /\ s.user = req[w].user /\ s.op = req[w].op
      /\ Move(w, s, ov) /\ UNCHANGED <<users, codes, issued, loose>>
  BY <1>0, <1>1 DEF Request, DeleteRefreshToken, history
<1>3. Addressed(s)
  BY <1>1, <1>2 DEF Addressed, At
<1>4. ov \in SUBSET Workers /\ \A v \in ov : v = w \/ req[v] # Idle
  BY <1>0, <1>1, Overtaken DEF WellFormed, At
<1> QED BY <1>2, <1>3, <1>4, QuietAddresses

LEMMA DeleteUserTokensAddresses ==
  ASSUME AInv, DInv, NEW w \in Workers, DeleteUserTokens(w)
  PROVE  DInv'
<1>1. req[w].user \in Users
  BY AtCall DEF DeleteUserTokens, At, WellFormed
<1> QED BY <1>1, Overtaken, QuietAddresses DEF DeleteUserTokens

\* What Append gives, whatever the type of the new element.
LEMMA AppendedAny ==
  ASSUME NEW S, NEW s \in Seq(S), NEW x
  PROVE  /\ DOMAIN Append(s, x) = DOMAIN s \cup {Len(s) + 1} /\ Append(s, x)[Len(s) + 1] = x
         /\ \A i \in DOMAIN s : Append(s, x)[i] = s[i]
<1>1. PICK T : T = S \cup {x}
  OBVIOUS
<1>2. s \in Seq(T)
  BY <1>1
<1>3. x \in T
  BY <1>1
<1> QED BY <1>2, <1>3

\* Only a verified user gets a session.
LEMMA issueTokenPairAddresses ==
  ASSUME AInv, DInv, NEW w \in Workers, issueTokenPair(w)
  PROVE  DInv'
<1>1. Verified(req[w].user)
  BY AtCall DEF issueTokenPair, At, DInv, Addressed
<1>2. UNCHANGED <<users, codes, loose>> /\ Move(w, Idle, {})
  BY DEF issueTokenPair, Return
<1>3. Lasting
  BY <1>2 DEF Lasting, Verified, Email
<1>4. \A t \in DOMAIN issued' : Verified(issued'[t].user)
  <2>1. PICK token : issued' = Append(issued, token) /\ token.user = req[w].user
    BY DEF issueTokenPair
  <2>2. issued \in Seq(TokenRow)
    BY Parts DEF TablesTyped
  <2>3. /\ DOMAIN issued' = DOMAIN issued \cup {Len(issued) + 1} /\ issued'[Len(issued) + 1] = token
        /\ \A t \in DOMAIN issued : issued'[t] = issued[t]
    BY <2>1, <2>2, AppendedAny
  <2> QED BY <1>1, <2>1, <2>3 DEF DInv, TablesAddressed
<1>5. TablesAddressed'
  BY <1>2, <1>4 DEF DInv, TablesAddressed, Verified, Email, PendingSent, SentBy, ChangeCode
<1> QED BY <1>2, <1>3, <1>5, StepAddresses

LEMMA CallFailsAddresses ==
  ASSUME AInv, DInv, NEW w \in Workers, CallFails(w)
  PROVE  DInv'
BY QuietAddresses DEF CallFails, Return, tables, history

LEMMA AddressesKept == ASSUME AInv, DInv, [Next]_vars PROVE DInv'
<1>1. ASSUME NEW w \in Workers, Routes(w) PROVE DInv'
  BY <1>1, RegisterAddresses, LoginAddresses, RefreshAddresses, VerifyAddresses, ResendAddresses,
     ForgotAddresses, ResetAddresses, LogoutAddresses, UpdateProfileAddresses,
     RequestEmailChangeAddresses, ConfirmEmailChangeAddresses, CancelAddresses, createAdminAddresses
  DEF Routes, register, login, refresh, verifyEmail, resendVerification, forgotPassword, resetPassword,
      logout, updateMe, requestEmailChange, confirmEmailChange, cancelEmailChange
<1>2. ASSUME NEW w \in Workers, CallsOf(w) PROVE DInv'
  BY <1>2, CreateUserAddresses, sendCodeAddresses, DeleteRefreshTokenAddresses, issueTokenPairAddresses,
     CheckExistingAddresses, SetPendingEmailAddresses, GetLatestCodeAddresses, MarkCodeUsedAddresses,
     WriteBackAddresses, ClearPendingEmailAddresses, SetVerifiedAddresses, UpdatePasswordAddresses,
     DeleteUserTokensAddresses
  DEF CallsOf
<1>3. ASSUME UNCHANGED <<users, codes, issued, loose>>, \A w \in Workers : req'[w] = Idle \/ req'[w] = req[w]
      PROVE  DInv'
  <2>1. TablesAddressed'
    BY <1>3 DEF DInv, TablesAddressed, Verified, Email, PendingSent, SentBy, ChangeCode
  <2>2. ASSUME NEW w \in Workers, req'[w] # Idle PROVE Addressed(req[w])'
    <3>1. req'[w] = req[w] /\ Addressed(req[w])
      BY <1>3, <2>2 DEF DInv
    <3> QED BY <1>3, <3>1 DEF Addressed, SentBy, ChangeCode, Proven, Verified, Email
  <2> QED BY <2>1, <2>2 DEF DInv
<1>4. CASE Crash
  BY <1>3, <1>4 DEF Crash, tables, history
<1>5. CASE UNCHANGED vars
  BY <1>3, <1>5 DEF vars
<1> QED BY <1>1, <1>2, <1>4, <1>5, CallFailsAddresses, CodeExpiresAddresses DEF Next

LEMMA InitAddresses == ASSUME Init PROVE DInv
<1>1. ASSUME NEW t \in DOMAIN issued PROVE Verified(issued[t].user)
  <2>1. PICK u \in Registered : issued = <<FirstToken(u)>>
    BY <1>1 DEF Init
  <2>2. issued[t].user = u /\ u \in Users
    BY <1>1, <2>1, AuthAssumption DEF FirstToken
  <2> QED BY <2>2 DEF Init, FirstRow, Verified
<1>2. DOMAIN codes = {} /\ \A w \in Workers : req[w] = Idle
  BY DEF Init
<1>3. \A u \in Users : users[u].pending = None
  BY DEF Init, FirstRow, NoUser
<1> QED BY <1>1, <1>2, <1>3 DEF DInv, TablesAddressed, PendingSent

\* Whoever is signed in, or confirms, is verified with an address that a code was sent to.
THEOREM AddressInvariance == Spec => []DInv
<1>1. Init => DInv
  BY InitAddresses
<1>2. AInv /\ DInv /\ [Next]_vars => DInv'
  BY AddressesKept
<1> QED BY <1>1, <1>2, Invariance, PTL DEF Spec

\* The step relation of AddressProven.
AddressStep ==
  \A u \in Users :
    /\ Exists(u) /\ users'[u] # users[u]
    /\ users'[u].email # users[u].email \/ users'[u].verified # users[u].verified
    => \/ Proven(u, users'[u].email)
       \/ \E w \in Workers :
            /\ req[w].user = u /\ Steps(w, "update")
            /\ IF req[w].op = "confirm" THEN req[w].loose ELSE req[w].raced

\* A row of users that changes but not in its address.
LEMMA AddressUntouched ==
  ASSUME AInv, NEW u, NEW row, Write(u, row), row.email = users[u].email, row.verified = users[u].verified
  PROVE  AddressStep
<1>1. \A v \in Users : users'[v] = IF v = u THEN row ELSE users[v]
  BY Parts DEF Write, TablesTyped
<1> QED BY <1>1 DEF AddressStep

LEMMA WriteBackProven ==
  ASSUME AInv, DInv, NEW w \in Workers, WriteBack(w)
  PROVE  AddressStep
<1>0. PICK u : u = req[w].user
  OBVIOUS
<1> DEFINE row == [users[u] EXCEPT !.email = req[w].to, !.password = req[w].new]
<1>1. /\ req[w] \in Request /\ WellFormed(req[w]) /\ Addressed(req[w]) /\ At(w, "update")
      /\ u \in Users /\ Exists(u) /\ req[w].op \in {"register", "rename", "password", "confirm"}
  BY <1>0, AtCall DEF WriteBack, At, DInv, WellFormed
<1>2. CASE UNCHANGED users
  BY <1>2 DEF AddressStep
<1>3. CASE ~UNCHANGED users
  <2>1. Write(u, row)
    BY <1>0, <1>3 DEF WriteBack, UpdateUser
  <2>2. row.email = req[w].to /\ row.verified = users[u].verified
    BY <1>1, RowOf DEF UserRow
  <2> HIDE DEF row
  <2>3. Steps(w, "update")
    <3>1. \E pc \in {"code", "clear"} : req'[w] = [req[w] EXCEPT !.pc = pc] \/ req'[w] = Idle
      BY <1>3 DEF WriteBack, Move
    <3> QED BY <1>1, <3>1, IdleIsNoRequest DEF Request, Steps
  <2>4. \A v \in Users : users'[v] = IF v = u THEN row ELSE users[v]
    BY <2>1, Parts DEF Write, TablesTyped
  <2>5. \/ row.email = users[u].email
        \/ Proven(u, row.email)
        \/ IF req[w].op = "confirm" THEN req[w].loose ELSE req[w].raced
    BY <1>0, <1>1, <2>2 DEF Addressed, At, Email
  <2> QED BY <1>0, <2>2, <2>3, <2>4, <2>5 DEF AddressStep
<1> QED BY <1>2, <1>3

LEMMA CallsProven ==
  ASSUME AInv, DInv, NEW w \in Workers, CallsOf(w)
  PROVE  AddressStep
<1>1. ASSUME NEW u \in Users, CreateUser(w, u) PROVE AddressStep
  <2>1. \A v \in Users : v # u \/ UNCHANGED users => users'[v] = users[v]
    BY <1>1, Parts DEF CreateUser, Write, TablesTyped
  <2>2. ~Exists(u) \/ UNCHANGED users
    BY <1>1 DEF CreateUser
  <2> QED BY <2>1, <2>2 DEF AddressStep
<1>2. CASE SetPendingEmail(w)
  <2>1. users[req[w].user] \in UserRow
    BY <1>2, AtCall, RowOf DEF SetPendingEmail, At, WellFormed
  <2> QED BY <1>2, <2>1, AddressUntouched DEF SetPendingEmail, UserRow
<1>3. CASE ClearPendingEmail(w)
  <2>1. users[req[w].user] \in UserRow
    BY <1>3, AtCall, RowOf DEF ClearPendingEmail, At, WellFormed
  <2> QED BY <1>3, <2>1, AddressUntouched DEF ClearPendingEmail, ClearPending, UserRow
<1>4. CASE UpdatePassword(w)
  <2>1. users[req[w].user] \in UserRow
    BY <1>4, AtCall, RowOf DEF UpdatePassword, At, WellFormed
  <2> QED BY <1>4, <2>1, AddressUntouched DEF UpdatePassword, UserRow
<1>5. CASE SetVerified(w)
  <2>0. PICK u : u = req[w].user
    OBVIOUS
  <2> DEFINE row == [users[u] EXCEPT !.verified = TRUE]
  <2>1. Addressed(req[w]) /\ At(w, "verify") /\ users[u] \in UserRow
    BY <1>5, <2>0, AtCall, RowOf DEF SetVerified, At, DInv, WellFormed
  <2>2. Verified(u) \/ Proven(u, Email(u))
    BY <2>0, <2>1 DEF Addressed, At
  <2>3. row.email = Email(u) /\ row.verified = TRUE /\ Write(u, row)
    BY <1>5, <2>0, <2>1 DEF UserRow, Email, SetVerified
  <2> HIDE DEF row
  <2>4. \A v \in Users : users'[v] = IF v = u THEN row ELSE users[v]
    BY <2>3, Parts DEF Write, TablesTyped
  <2>5. users[u].verified \in BOOLEAN
    BY <2>1 DEF UserRow
  <2> QED BY <2>2, <2>3, <2>4, <2>5 DEF AddressStep, Verified, Email
<1>6. CASE UNCHANGED users
  BY <1>6 DEF AddressStep
<1>7. \/ \E u \in Users : CreateUser(w, u)
      \/ SetPendingEmail(w) \/ ClearPendingEmail(w) \/ SetVerified(w) \/ UpdatePassword(w) \/ WriteBack(w)
      \/ UNCHANGED users
  BY DEF CallsOf, tables, sendCode, DeleteRefreshToken, issueTokenPair, CheckExisting, GetLatestCode,
     MarkCodeUsed, DeleteUserTokens
<1> QED BY <1>1, <1>2, <1>3, <1>4, <1>5, <1>6, <1>7, WriteBackProven

LEMMA RoutesProven ==
  ASSUME AInv, NEW w \in Workers, Routes(w)
  PROVE  AddressStep
<1>1. ASSUME NEW u \in Users, CancelEmailChange(w, u) PROVE AddressStep
  <2>1. users[u] \in UserRow
    BY <1>1, SignedIn DEF CancelEmailChange
  <2> QED BY <1>1, <2>1, AddressUntouched DEF CancelEmailChange, ClearPending, UserRow
<1>2. CASE ~cancelEmailChange(w)
  <2>1. UNCHANGED users
    BY <1>2 DEF Routes, register, login, refresh, verifyEmail, resendVerification, forgotPassword,
      resetPassword, logout, updateMe, requestEmailChange, confirmEmailChange, tables,
      Register, Login, Refresh, VerifyEmail, ResendVerification, ForgotPassword, ResetPassword, Logout,
      UpdateProfile, RequestEmailChange, ConfirmEmailChange, createAdmin
  <2> QED BY <2>1 DEF AddressStep
<1> QED BY <1>1, <1>2 DEF cancelEmailChange

\* An account is verified, or gets another address, with a code that was sent to this
\* address; but for a Register or UpdateProfile that was overtaken, which writes back an
\* older address, and a ConfirmEmailChange that came before the code of its address.
THEOREM AddressesAreProven == Spec => AddressProven
<1>1. AInv /\ DInv /\ [Next]_vars => [AddressStep]_vars
  <2> SUFFICES ASSUME AInv, DInv, Next PROVE AddressStep
    OBVIOUS
  <2>1. CASE UNCHANGED users
    BY <2>1 DEF AddressStep
  <2>2. \/ \E w \in Workers : Routes(w) \/ CallsOf(w)
        \/ UNCHANGED users
    BY DEF Next, CallFails, CodeExpires, Crash, tables
  <2> QED BY <2>1, <2>2, RoutesProven, CallsProven
<1>2. [][AddressStep]_vars => AddressProven
  BY PTL DEF AddressStep, AddressProven
<1> QED BY <1>1, <1>2, Invariance, AddressInvariance, PTL DEF Spec

=============================================================================
