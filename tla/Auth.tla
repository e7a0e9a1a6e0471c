-------------------------------- MODULE Auth --------------------------------
(***************************************************************************)
(* Accounts, mailed codes and sessions (internal/auth, with Authenticate   *)
(* of pkg/middleware/auth.go and createAdmin of internal/admin).           *)
(*                                                                         *)
(* No handler uses a transaction: each one is a row of calls on the        *)
(* PostgreSQL tables users, verification_codes and refresh_tokens, and     *)
(* what it read first it writes back several calls later.  A handler is a  *)
(* request; req[w].pc names the call it is about to make.  The first call  *)
(* belongs to the action that receives the request, since nothing is       *)
(* written before it.                                                      *)
(*                                                                         *)
(* Whether a mail arrives, or is sent at all, changes no row: a client may *)
(* use any code that exists.  That refresh and access tokens expire only   *)
(* takes behaviours away.  Nothing deletes users.                          *)
(***************************************************************************)
EXTENDS Integers, Sequences, FiniteSets

CONSTANTS
  Users,        \* the ids accounts may get
  Registered,   \* those whose account is verified at the start; one of them is signed in
  HomeOf,       \* the address such an account starts with
  Emails, Passwords,
  OldPassword,  \* the password such an account starts with
  None,         \* no user, no address, no password
  Workers,      \* request goroutines
  MaxRequests,  \* bound: requests
  MaxFaults     \* bound: failed calls

ASSUME AuthAssumption ==
  /\ Registered \subseteq Users
  /\ HomeOf \in [Users -> Emails]
  /\ \A u, v \in Users : HomeOf[u] = HomeOf[v] => u = v
  /\ OldPassword \in Passwords
  /\ None \notin Users \cup Emails \cup Passwords
  /\ MaxRequests \in Nat /\ MaxFaults \in Nat

VARIABLES
  users,    \* users rows
  codes,    \* verification_codes rows, by created_at
  tokens,   \* refresh_tokens rows: indices of issued
  req,      \* the requests under way
  begun,    \* requests so far
  faults,   \* failed calls so far
  issued,   \* history: all refresh tokens
  era,      \* history: password resets that came to their end
  loose     \* history: users whose pending address need not be the one the newest
            \* code was sent to, since a request has set it and not yet created its code,
            \* or another one came between

history == <<issued, era, loose>>
tables == <<users, codes, tokens>>
vars == <<users, codes, tokens, req, begun, faults, issued, era, loose>>

Purposes == {"verify_email", "reset_password", "change_email"}
NoUser == [email |-> None, password |-> None, verified |-> FALSE, pending |-> None]
UserRow == [email : Emails, password : Passwords, verified : BOOLEAN, pending : Emails \cup {None}]
\* to: the address the code is sent to; uses: requests that marked it as used.
CodeRow == [user : Users, purpose : Purposes, to : Emails, state : {"live", "used", "expired"}, uses : Nat]
\* session: the first token of a chain of refreshes; era: the owner's when the
\* password, code or token was accepted; clean: no request of the chain was
\* overtaken by another change of the account.
TokenRow == [user : Users, session : Nat, era : Nat, clean : BOOLEAN]

Calls == {"create", "update", "code", "existing", "pending", "find", "mark", "clear",
          "verify", "password", "revoke", "delete", "issue"}
Ops == {"register", "admin", "login", "refresh", "rename", "password", "request", "confirm",
        "verify_email", "resend", "forgot", "reset"}
Idle == [op |-> "none", pc |-> "idle", user |-> None, to |-> None, new |-> None,
         code |-> 0, token |-> 0, era |-> 0, raced |-> FALSE, loose |-> FALSE]
\* to, new: the address and the password to write or to send to; code, token: what
\* the client sent; raced: another request has changed the account meanwhile;
\* loose: the pending address was loose when it was read.
Request == [op : Ops, pc : Calls, user : Users \cup {None}, to : Emails \cup {None},
            new : Passwords \cup {None}, code : Nat, token : Nat, era : Nat, raced : BOOLEAN,
            loose : BOOLEAN]

TypeOK ==
  /\ users \in [Users -> UserRow \cup {NoUser}]
  /\ codes \in Seq(CodeRow) /\ issued \in Seq(TokenRow)
  /\ tokens \subseteq DOMAIN issued
  /\ req \in [Workers -> Request \cup {Idle}]
  /\ begun \in Nat /\ faults \in Nat
  /\ era \in [Users -> Nat] /\ loose \subseteq Users

\* A verified account, as Register and VerifyEmail left it, with the session of
\* VerifyEmail.
FirstRow(u) == [email |-> HomeOf[u], password |-> OldPassword, verified |-> TRUE, pending |-> None]
FirstToken(u) == [user |-> u, session |-> 1, era |-> 0, clean |-> TRUE]
Init ==
  /\ users = [u \in Users |-> IF u \in Registered THEN FirstRow(u) ELSE NoUser]
  /\ codes = <<>>
  /\ \/ Registered = {} /\ issued = <<>> /\ tokens = {}
     \/ \E u \in Registered : issued = <<FirstToken(u)>> /\ tokens = {1}
  /\ req = [w \in Workers |-> Idle]
  /\ begun = 0 /\ faults = 0
  /\ era = [u \in Users |-> 0] /\ loose = {}

-----------------------------------------------------------------------------
(* Requests.                                                               *)

At(w, pc) == req[w].pc = pc

\* w goes on, and what v read is no longer the account as it is.
Move(w, state, overtaken) ==
  req' = [v \in Workers |-> IF v = w THEN state
                            ELSE IF v \in overtaken THEN [req[v] EXCEPT !.raced = TRUE]
                            ELSE req[v]]
OthersOn(w, u) == {v \in Workers \ {w} : req[v].user = u}
Goto(w, pc) == Move(w, [req[w] EXCEPT !.pc = pc], {})
Return(w) == Move(w, Idle, {})

Begin(w, request) ==
  /\ At(w, "idle") /\ begun < MaxRequests
  /\ begun' = begun + 1
  /\ Move(w, request, {})

Exists(u) == users[u] # NoUser
\* GetUserByEmail: the user with this address, if any.
HasEmail(u, e) == users[u].email = e
Taken(e) == \E u \in Users : HasEmail(u, e)
\* Authenticate: the access token of a pair names its user.
Authenticate(u) == \E t \in DOMAIN issued : issued[t].user = u

-----------------------------------------------------------------------------
(* The store (internal/auth/store.go).                                     *)

\* The hash in the row is the password's.
verifyPassword(u, p) == users[u].password = p

\* Users.email is UNIQUE.
UpdatableTo(u, e) == \A v \in Users \ {u} : ~HasEmail(v, e)
Write(u, row) == users' = [users EXCEPT ![u] = row]
UpdateUser(u, e, p) == Write(u, [users[u] EXCEPT !.email = e, !.password = p])

\* Mutant: a code of any purpose will do.
IsLatest_AnyPurpose(c, u, purpose) ==
  LET live == {d \in DOMAIN codes : codes[d].user = u /\ codes[d].state = "live"}
  IN c \in live /\ \A d \in live : d <= c
\* GetLatestCode returns this code: the newest that is neither used nor expired, so
\* that an older one counts again when the newer one has been used.
IsLatest(c, u, purpose) ==
  LET live == {d \in DOMAIN codes :
                 codes[d].user = u /\ codes[d].purpose = purpose /\ codes[d].state = "live"}
  IN c \in live /\ \A d \in live : d <= c

CreateVerificationCode(u, purpose, e) ==
  codes' = Append(codes, [user |-> u, purpose |-> purpose, to |-> e, state |-> "live", uses |-> 0])

\* Mutant: the row stays as it is.
UsedCode_Again(c) == [codes[c] EXCEPT !.uses = @ + 1]
\* MarkCodeUsed; it does not look whether the code was used before.
UsedCode(c) == [codes[c] EXCEPT !.state = "used", !.uses = @ + 1]

\* A token nobody has had.
generateToken == Len(issued) + 1
SaveRefreshToken(t) == tokens' = tokens \cup {t}
GetRefreshToken(t) == t \in tokens
OwnTokens(u) == {t \in tokens : issued[t].user = u}
-----------------------------------------------------------------------------
(* Registration and the sending of codes.                                  *)

\* Mutant: whoever asks for an address may set the password of its account.
Register_AnyAccount(w, e, p) ==
  /\ \/ \E u \in Users : HasEmail(u, e)
        /\ Begin(w, [Idle EXCEPT !.op = "register", !.pc = "update", !.user = u, !.to = e, !.new = p])
     \/ ~Taken(e) /\ Begin(w, [Idle EXCEPT !.op = "register", !.pc = "create", !.to = e, !.new = p])
  /\ UNCHANGED <<tables, faults, history>>

Register(w, e, p) ==
  /\ \/ \E u \in Users :
          /\ HasEmail(u, e) /\ ~users[u].verified
          /\ Begin(w, [Idle EXCEPT !.op = "register", !.pc = "update", !.user = u, !.to = e, !.new = p])
     \/ ~Taken(e) /\ Begin(w, [Idle EXCEPT !.op = "register", !.pc = "create", !.to = e, !.new = p])
  /\ UNCHANGED <<tables, faults, history>>

\* A super admin creates an account, which nobody has verified and no code is sent for.
\* If this look-up fails the INSERT still refuses a second account.
createAdmin(w, e, p) ==
  /\ ~Taken(e) /\ Begin(w, [Idle EXCEPT !.op = "admin", !.pc = "create", !.to = e, !.new = p])
  /\ UNCHANGED <<tables, faults, history>>

\* CreateUser, and the INSERT of createAdmin: a second account with the address is refused.
CreateUser(w, u) ==
  /\ At(w, "create")
  /\ \/ /\ ~Exists(u) /\ ~Taken(req[w].to)
        /\ Write(u, [email |-> req[w].to, password |-> req[w].new, verified |-> FALSE, pending |-> None])
        /\ Move(w, IF req[w].op = "admin" THEN Idle ELSE [req[w] EXCEPT !.pc = "code", !.user = u], {})
     \/ Taken(req[w].to) /\ Return(w) /\ UNCHANGED users
  /\ UNCHANGED <<codes, tokens, begun, faults, history>>

PurposeOf(w) ==
  CASE req[w].op \in {"register", "resend", "verify_email"} -> "verify_email"
    [] req[w].op \in {"request", "confirm"} -> "change_email"
    [] OTHER -> "reset_password"

\* The end of Register, RequestEmailChange, ResendVerification and ForgotPassword.
sendCode(w) ==
  LET u == req[w].user IN
  /\ At(w, "code")
  /\ CreateVerificationCode(u, PurposeOf(w), req[w].to)
  /\ loose' = IF req[w].op # "request" THEN loose
              ELSE IF req[w].raced THEN loose \cup {u} ELSE loose \ {u}
  /\ Return(w)
  /\ UNCHANGED <<users, tokens, begun, faults, issued, era>>

ResendVerification(w, e) ==
  /\ \E u \in Users :
       /\ HasEmail(u, e) /\ ~users[u].verified
       /\ Begin(w, [Idle EXCEPT !.op = "resend", !.pc = "code", !.user = u, !.to = e])
  /\ UNCHANGED <<tables, faults, history>>

ForgotPassword(w, e) ==
  /\ \E u \in Users :
       /\ HasEmail(u, e)
       /\ Begin(w, [Idle EXCEPT !.op = "forgot", !.pc = "code", !.user = u, !.to = e])
  /\ UNCHANGED <<tables, faults, history>>

-----------------------------------------------------------------------------
(* Sessions.                                                               *)

Login(w, e, p) ==
  /\ \E u \in Users :
       /\ HasEmail(u, e) /\ verifyPassword(u, p) /\ users[u].verified
       /\ Begin(w, [Idle EXCEPT !.op = "login", !.pc = "issue", !.user = u, !.era = era[u]])
  /\ UNCHANGED <<tables, faults, history>>

Refresh(w, t) ==
  /\ GetRefreshToken(t)
  /\ LET u == issued[t].user IN
     Begin(w, [Idle EXCEPT !.op = "refresh", !.pc = "delete", !.user = u, !.token = t, !.era = era[u]])
  /\ UNCHANGED <<tables, faults, history>>

\* Mutant: the old token is left to expire.
DeleteRefreshToken_Keeps(w) ==
  /\ At(w, "delete")
  /\ Goto(w, "issue")
  /\ UNCHANGED <<tables, begun, faults, history>>

\* It is not looked at whether a row was deleted.  GetUserByID, which follows, finds
\* the user, and only its id is used.
DeleteRefreshToken(w) ==
  LET t == req[w].token IN
  /\ At(w, "delete")
  /\ tokens' = tokens \ {t}
  /\ Move(w, [req[w] EXCEPT !.pc = "issue"], IF t \in tokens THEN OthersOn(w, req[w].user) ELSE {})
  /\ UNCHANGED <<users, codes, begun, faults, history>>

\* The end of Login, Refresh and VerifyEmail.
issueTokenPair(w) ==
  LET t == req[w].token
      n == generateToken
  IN
  /\ At(w, "issue")
  /\ issued' = Append(issued,
       [user |-> req[w].user, era |-> req[w].era,
        session |-> IF t = 0 THEN n ELSE issued[t].session,
        clean |-> ~req[w].raced /\ (t # 0 => issued[t].clean)])
  /\ SaveRefreshToken(n)
  /\ Return(w)
  /\ UNCHANGED <<users, codes, begun, faults, era, loose>>

\* One call; the session's user need not be the one who is signed in.
Logout(w, u, t) ==
  /\ Authenticate(u) /\ t \in DOMAIN issued
  /\ At(w, "idle") /\ begun < MaxRequests
  /\ begun' = begun + 1
  /\ tokens' = tokens \ {t}
  /\ Move(w, Idle, IF t \in tokens THEN OthersOn(w, issued[t].user) ELSE {})
  /\ UNCHANGED <<users, codes, faults, history>>

-----------------------------------------------------------------------------
(* Changes of an account: its password, its address.                       *)

\* p: the new password, None if only the name changes; the current one is checked
\* against the row.
UpdateProfile(w, u, current, p) ==
  /\ Authenticate(u)
  /\ \/ p = None /\ current = None
     \/ p # None /\ verifyPassword(u, current)
  /\ Begin(w, [Idle EXCEPT !.op = IF p = None THEN "rename" ELSE "password", !.pc = "update", !.user = u,
                           !.to = users[u].email, !.new = IF p = None THEN users[u].password ELSE p])
  /\ UNCHANGED <<tables, faults, history>>

RequestEmailChange(w, u, e) ==
  /\ Authenticate(u) /\ e # users[u].email
  /\ Begin(w, [Idle EXCEPT !.op = "request", !.pc = "existing", !.user = u, !.to = e])
  /\ UNCHANGED <<tables, faults, history>>

CheckExisting(w) ==
  /\ At(w, "existing")
  /\ IF Taken(req[w].to) THEN Return(w) ELSE Goto(w, "pending")
  /\ UNCHANGED <<tables, begun, faults, history>>

SetPendingEmail(w) ==
  LET u == req[w].user IN
  /\ At(w, "pending")
  /\ Write(u, [users[u] EXCEPT !.pending = req[w].to])
  /\ loose' = loose \cup {u}
  /\ Move(w, [req[w] EXCEPT !.pc = "code"], OthersOn(w, u))
  /\ UNCHANGED <<codes, tokens, begun, faults, issued, era>>

\* Mutant: that a change is pending is not looked at.
ConfirmEmailChange_Any(w, u, c) ==
  /\ Authenticate(u)
  /\ Begin(w, [Idle EXCEPT !.op = "confirm", !.pc = "find", !.user = u, !.code = c,
                           !.to = users[u].pending, !.new = users[u].password, !.loose = u \in loose])
  /\ UNCHANGED <<tables, faults, history>>

\* What it writes later is the row it reads now.
ConfirmEmailChange(w, u, c) ==
  /\ Authenticate(u) /\ users[u].pending # None
  /\ Begin(w, [Idle EXCEPT !.op = "confirm", !.pc = "find", !.user = u, !.code = c,
                           !.to = users[u].pending, !.new = users[u].password, !.loose = u \in loose])
  /\ UNCHANGED <<tables, faults, history>>

\* An account that is verified already gets its pair whatever the code.
VerifyEmail(w, e, c) ==
  /\ \E u \in Users :
       /\ HasEmail(u, e)
       /\ Begin(w, [Idle EXCEPT !.op = "verify_email", !.pc = IF users[u].verified THEN "issue" ELSE "find",
                                !.user = u, !.code = c, !.era = era[u]])
  /\ UNCHANGED <<tables, faults, history>>

ResetPassword(w, e, p, c) ==
  /\ \E u \in Users :
       /\ HasEmail(u, e)
       /\ Begin(w, [Idle EXCEPT !.op = "reset", !.pc = "find", !.user = u, !.new = p, !.code = c])
  /\ UNCHANGED <<tables, faults, history>>

GetLatestCode(w) ==
  /\ At(w, "find")
  /\ IF IsLatest(req[w].code, req[w].user, PurposeOf(w)) THEN Goto(w, "mark") ELSE Return(w)
  /\ UNCHANGED <<tables, begun, faults, history>>

MarkCodeUsed(w) ==
  LET c == req[w].code IN
  /\ At(w, "mark")
  /\ codes' = [codes EXCEPT ![c] = UsedCode(c)]
  /\ Move(w, [req[w] EXCEPT !.pc = CASE req[w].op = "confirm" -> "update"
                                     [] req[w].op = "verify_email" -> "verify"
                                     [] OTHER -> "password"], OthersOn(w, req[w].user))
  /\ UNCHANGED <<users, tokens, begun, faults, history>>

\* UpdateUser of Register, UpdateProfile and ConfirmEmailChange; a second account
\* with the address is refused.
WriteBack(w) ==
  LET u == req[w].user IN
  /\ At(w, "update")
  /\ \/ /\ UpdatableTo(u, req[w].to)
        /\ UpdateUser(u, req[w].to, req[w].new)
        /\ Move(w, CASE req[w].op = "register" -> [req[w] EXCEPT !.pc = "code"]
                     [] req[w].op = "confirm" -> [req[w] EXCEPT !.pc = "clear"]
                     [] OTHER -> Idle, OthersOn(w, u))
     \/ ~UpdatableTo(u, req[w].to) /\ Return(w) /\ UNCHANGED users
  /\ UNCHANGED <<codes, tokens, begun, faults, history>>

ClearPending(w, u) ==
  /\ Write(u, [users[u] EXCEPT !.pending = None])
  /\ Move(w, Idle, OthersOn(w, u))
ClearPendingEmail(w) ==
  /\ At(w, "clear") /\ ClearPending(w, req[w].user)
  /\ UNCHANGED <<codes, tokens, begun, faults, history>>

CancelEmailChange(w, u) ==
  /\ Authenticate(u)
  /\ At(w, "idle") /\ begun < MaxRequests
  /\ begun' = begun + 1
  /\ ClearPending(w, u)
  /\ UNCHANGED <<codes, tokens, faults, history>>

SetVerified(w) ==
  LET u == req[w].user IN
  /\ At(w, "verify")
  /\ Write(u, [users[u] EXCEPT !.verified = TRUE])
  /\ Move(w, [req[w] EXCEPT !.pc = "issue"], OthersOn(w, u))
  /\ UNCHANGED <<codes, tokens, begun, faults, history>>

UpdatePassword(w) ==
  LET u == req[w].user IN
  /\ At(w, "password")
  /\ Write(u, [users[u] EXCEPT !.password = req[w].new])
  /\ Move(w, [req[w] EXCEPT !.pc = "revoke"], OthersOn(w, u))
  /\ UNCHANGED <<codes, tokens, begun, faults, history>>

\* Mutant: the newest session is kept.
DeleteUserTokens_KeepsNewest(w) ==
  LET u == req[w].user IN
  /\ At(w, "revoke")
  /\ tokens' = {t \in tokens : issued[t].user = u => \A s \in OwnTokens(u) : s <= t}
  /\ era' = [era EXCEPT ![u] = @ + 1]
  /\ Move(w, Idle, OthersOn(w, u))
  /\ UNCHANGED <<users, codes, begun, faults, issued, loose>>

DeleteUserTokens(w) ==
  LET u == req[w].user IN
  /\ At(w, "revoke")
  /\ tokens' = tokens \ OwnTokens(u)
  /\ era' = [era EXCEPT ![u] = @ + 1]
  /\ Move(w, Idle, OthersOn(w, u))
  /\ UNCHANGED <<users, codes, begun, faults, issued, loose>>

-----------------------------------------------------------------------------
(* Time and faults.                                                        *)

\* All codes live for codeTTL, so that the oldest expires first.
CodeExpires ==
  /\ \E c \in DOMAIN codes :
       /\ codes[c].state = "live" /\ \A d \in 1 .. (c - 1) : codes[d].state # "live"
       /\ codes' = [codes EXCEPT ![c].state = "expired"]
  /\ UNCHANGED <<users, tokens, req, begun, faults, history>>

\* A call fails, or the client has gone and the request's context is cancelled: the
\* handler returns.  An answer lost after its write is a failure of the next call.
CallFails(w) ==
  /\ faults < MaxFaults /\ faults' = faults + 1
  /\ ~At(w, "idle")
  /\ Return(w)
  /\ UNCHANGED <<tables, begun, history>>

Crash ==
  /\ faults < MaxFaults /\ faults' = faults + 1
  /\ \E w \in Workers : ~At(w, "idle")
  /\ req' = [w \in Workers |-> Idle]
  /\ UNCHANGED <<tables, begun, history>>

-----------------------------------------------------------------------------
(* The routes of Handler.                                                  *)

register(w) == \E e \in Emails, p \in Passwords : Register(w, e, p)
login(w) == \E e \in Emails, p \in Passwords : Login(w, e, p)
refresh(w) == \E t \in DOMAIN issued : Refresh(w, t)
verifyEmail(w) == \E e \in Emails, c \in DOMAIN codes \cup {0} : VerifyEmail(w, e, c)
resendVerification(w) == \E e \in Emails : ResendVerification(w, e)
forgotPassword(w) == \E e \in Emails : ForgotPassword(w, e)
resetPassword(w) == \E e \in Emails, p \in Passwords, c \in DOMAIN codes : ResetPassword(w, e, p, c)
logout(w) == \E u \in Users, t \in DOMAIN issued : Logout(w, u, t)
updateMe(w) == \E u \in Users, q, p \in Passwords \cup {None} : UpdateProfile(w, u, q, p)
requestEmailChange(w) == \E u \in Users, e \in Emails : RequestEmailChange(w, u, e)
confirmEmailChange(w) == \E u \in Users, c \in DOMAIN codes : ConfirmEmailChange(w, u, c)
cancelEmailChange(w) == \E u \in Users : CancelEmailChange(w, u)

Routes(w) ==
  \/ register(w) \/ login(w) \/ refresh(w) \/ verifyEmail(w) \/ resendVerification(w)
  \/ forgotPassword(w) \/ resetPassword(w) \/ logout(w) \/ updateMe(w)
  \/ requestEmailChange(w) \/ confirmEmailChange(w) \/ cancelEmailChange(w)
  \/ \E e \in Emails, p \in Passwords : createAdmin(w, e, p)

CallsOf(w) ==
  \/ (\E u \in Users : CreateUser(w, u)) \/ sendCode(w)
  \/ DeleteRefreshToken(w) \/ issueTokenPair(w)
  \/ CheckExisting(w) \/ SetPendingEmail(w)
  \/ GetLatestCode(w) \/ MarkCodeUsed(w) \/ WriteBack(w) \/ ClearPendingEmail(w)
  \/ SetVerified(w) \/ UpdatePassword(w) \/ DeleteUserTokens(w)

Next ==
  \/ \E w \in Workers : Routes(w) \/ CallsOf(w) \/ CallFails(w)
  \/ CodeExpires \/ Crash

Spec == Init /\ [][Next]_vars

-----------------------------------------------------------------------------
(* Properties.                                                             *)

\* A password reset ends the sessions opened before it: a token that outlives one
\* comes from a request that DeleteUserTokens overtook between the acceptance of a
\* password, code or token and the INSERT of the new one, or from its successors.
SessionsEndWithReset ==
  \A t \in tokens : issued[t].clean => issued[t].era = era[issued[t].user]

\* Refresh replaces a token, and does not multiply it: in a chain of refreshes at
\* most one token is good, but for those of requests that read the same token
\* before either had deleted it.
OneTokenPerSession ==
  \A s, t \in tokens :
    issued[s].clean /\ issued[t].clean /\ issued[s].session = issued[t].session => s = t

\* The requests that GetLatestCode let through with this code to change an account.
Holders(c) ==
  {w \in Workers : /\ req[w].code = c
                   /\ req[w].pc \in {"mark", "verify", "password", "revoke", "update", "clear"}}

\* A code is good for one request: once one has marked it, no other is let through
\* to verify an account, to set a password or to change an address, save those that
\* looked it up before.  (GetLatestCode, MarkCodeUsed.  VerifyEmail looks at no code
\* when the account is verified already; it changes nothing then and only issues a
\* pair.)
CodeUsedOnce ==
  [][\A c \in DOMAIN codes : codes[c].uses > 0 => Holders(c)' \subseteq Holders(c)]_vars

\* The request that takes a step at the call pc.
Steps(w, pc) == At(w, pc) /\ req'[w].pc # pc

\* The rows of an account are written back as read several calls before: only a
\* request that another has overtaken can undo its change.  All others change the
\* password of a verified account with a code or with the current password.
PasswordKept ==
  [][\A u \in Users :
       users[u].verified /\ users'[u].password # users[u].password =>
         \E w \in Workers :
           /\ req[w].user = u
           /\ \/ Steps(w, "password")
              \/ Steps(w, "update") /\ (req[w].op = "password" \/ req[w].raced)]_vars

\* Whether the user has presented a code that was sent to this address.
Proven(u, e) == \E c \in DOMAIN codes :
  /\ codes[c].user = u /\ codes[c].to = e /\ codes[c].state = "used"
  /\ codes[c].purpose \in {"verify_email", "change_email"}

\* An account is verified, or gets another address, only if its user presented a code
\* that was sent to just this address, as the "verified email-change flow" of
\* migration 019 has it.  It does not hold for a Register or UpdateProfile that another
\* request overtook, which writes back an address of before, or for a ConfirmEmailChange
\* that read a pending address when an undisturbed RequestEmailChange had not yet
\* created its code, or failed to.
AddressProven ==
  [][\A u \in Users :
       /\ Exists(u) /\ users'[u] # users[u]
       /\ users'[u].email # users[u].email \/ users'[u].verified # users[u].verified
       => \/ Proven(u, users'[u].email)
          \/ \E w \in Workers :
               /\ req[w].user = u /\ Steps(w, "update")
               /\ IF req[w].op = "confirm" THEN req[w].loose ELSE req[w].raced]_vars

-----------------------------------------------------------------------------
(* The inductive invariant of AuthProofs.                                  *)

\* What a request that is under way has been given for its next calls.
WellFormed(r) ==
  /\ r.pc # "create" => r.user \in Users /\ Exists(r.user)
  /\ r.pc \in {"create", "update", "code", "existing", "pending"} => r.to \in Emails
  /\ r.pc \in {"create", "update", "password"} => r.new \in Passwords
  /\ r.pc = "update" => r.op \in {"register", "rename", "password", "confirm"}
  /\ r.pc \in {"find", "mark"} =>
       /\ r.op \in {"confirm", "verify_email", "reset"}
       /\ r.op = "confirm" => r.to \in Emails
       /\ r.op # "verify_email" => r.new \in Passwords
  /\ r.pc = "mark" => r.code \in DOMAIN codes /\ codes[r.code].user = r.user
  /\ r.pc = "delete" => r.token # 0
  /\ r.pc \in {"create", "find", "mark", "verify"} => r.token = 0
  /\ r.token # 0 => r.token \in DOMAIN issued /\ issued[r.token].user = r.user

\* A token of the chain of refreshes that the request goes on with.
Successor(r, s) ==
  /\ s \in tokens /\ issued[s].clean /\ issued[r.token].clean
  /\ issued[s].session = issued[r.token].session

\* What it has read still holds as long as no other request has changed the account.
StillTrue(r) ==
  ~r.raced =>
    /\ \/ r.pc \in {"delete", "issue", "verify"}
       \/ r.op = "verify_email" /\ r.pc \in {"find", "mark"}
       => r.era = era[r.user]
    /\ \/ r.op = "confirm" /\ r.pc \in {"find", "mark", "update"}
       \/ r.op = "rename" /\ r.pc = "update"
       => r.new = users[r.user].password
    /\ r.op = "register" /\ r.pc = "update" => ~users[r.user].verified
    /\ r.pc = "delete" => r.token \in tokens
    /\ r.pc = "issue" /\ r.token # 0 => \A s \in tokens : ~Successor(r, s)

\* Two requests that are about to prolong the same chain.
Rivals(r, q) ==
  /\ r.pc = "issue" /\ q.pc = "issue" /\ ~r.raced /\ ~q.raced /\ r.token # 0 /\ q.token # 0
  /\ issued[r.token].clean /\ issued[q.token].clean
  /\ issued[r.token].session = issued[q.token].session

IssuedInOrder ==
  \A t \in DOMAIN issued :
    /\ Exists(issued[t].user) /\ issued[t].session \in 1 .. t
    /\ \A s \in DOMAIN issued : issued[s].session = issued[t].session => issued[s].user = issued[t].user

AInv ==
  /\ TypeOK /\ IssuedInOrder
  /\ \A w \in Workers : req[w] # Idle => WellFormed(req[w]) /\ StillTrue(req[w])
  /\ \A v, w \in Workers : v # w => ~Rivals(req[v], req[w])
  /\ \A c \in DOMAIN codes : codes[c].state # "used" => codes[c].uses = 0
  /\ SessionsEndWithReset /\ OneTokenPerSession

=============================================================================
