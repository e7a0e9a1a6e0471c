--------------------------- MODULE RetentionProofs ---------------------------
(***************************************************************************)
(* Proofs about Retention: its types, that payers keep their files, and    *)
(* that nobody loses files without the mails that announce it, nor gets a  *)
(* reminder twice; for any users, lengths, milestones and interleavings.   *)
(*                                                                         *)
(* RInv is about the job's selection: whoever has a running period got it  *)
(* after being selected.  MInv is about its mails and speaks of runs       *)
(* without faults: a pass that is through, today, leaves nobody behind who *)
(* was due, and the next day finds nobody more than a day late.            *)
(***************************************************************************)
EXTENDS Retention, TLAPS

Rows == [status: {"none", "active", "expired"}, until: Nat, grace: Nat \cup {Never},
         reminded: SUBSET RemindAt, graceReminded: SUBSET GraceAt]
Days == RemindAt \cup GraceAt
Mails == [period: [RemindAt -> Nat], grace: [GraceAt -> Nat], warning: Nat \cup {Never}]
JobStates == [pass: Passes \cup {"idle"}, days: SUBSET Days, day: Days \cup {Never},
              pc: JobCalls, todo: SUBSET Users, u: Users \cup {Never}]

LEMMA DayTypes ==
  /\ DaysOf("remind") = RemindAt /\ DaysOf("graceRemind") = GraceAt
  /\ \A pass \in (Passes \cup {"idle"}) \ {"remind", "graceRemind"} : DaysOf(pass) = {}
  /\ \A pass \in Passes \cup {"idle"} : DaysOf(pass) \subseteq Days
BY DEF DaysOf, Passes, Days

LEMMA TypeJob == ASSUME TypeOK PROVE job \in JobStates /\ sub \in [Users -> Rows]
BY DEF TypeOK, Mails, JobStates, Rows, Days

LEMMA IdleJob ==
  /\ Idle \in JobStates
  /\ Idle.pass = "idle" /\ Idle.pc = "query" /\ Idle.todo = {} /\ Idle.days = {}
BY DEF Idle, JobStates, JobCalls, Passes

LEMMA BeginJob ==
  ASSUME NEW pass \in Passes \cup {"idle"}
  PROVE  /\ Begin(pass) \in JobStates
         /\ Begin(pass).pass = pass /\ Begin(pass).days = DaysOf(pass)
         /\ Begin(pass).pc = "query" /\ Begin(pass).todo = {}
BY IdleJob, DayTypes DEF Begin, Idle, JobStates

-----------------------------------------------------------------------------
(* Requests leave the job alone. *)

LEMMA PlaceKept == ASSUME JobInPlace, UNCHANGED job PROVE JobInPlace'
BY DEF JobInPlace, DaysOf, Deleting

\* What a change of one user's row or activity has to respect.
LEMMA RaceSeen ==
  ASSUME RInv, UNCHANGED <<job, now>>, NEW u \in Users, Races(u),
         \A v \in Users \ {u} : sub'[v] = sub[v]
  PROVE  OnlyRacersPay'
<1>1. Selected \subseteq Users BY DEF RInv, TypeOK, JobInPlace, Selected
<1>2. Selected' = Selected /\ raced \subseteq raced' /\ (u \in Selected => u \in raced')
  BY DEF Selected, Races
<1> QED BY <1>1, <1>2 DEF RInv, OnlyRacersPay, Paying

LEMMA ActStep == ASSUME RInv, NEW u \in Users, Act(u) PROVE RInv'
<1> USE DEF Act
<1>1. TypeOK'
  <2>1. mailed' \in [Users -> Mails]
    BY DEF RInv, TypeOK, Mails
  <2> QED BY <2>1 DEF RInv, TypeOK, Mails, Races
<1>2. JobInPlace' BY PlaceKept DEF RInv
<1>3. PayersAreActive' BY RetentionAssumption DEF RInv, TypeOK, PayersAreActive
<1>4. OnlyRacersPay' BY RaceSeen
<1> QED BY <1>1, <1>2, <1>3, <1>4 DEF RInv

LEMMA RenewStep == ASSUME RInv, NEW u \in Users, Renew(u) PROVE RInv'
<1> USE DEF Renew
<1> DEFINE row == [sub[u] EXCEPT !.status = "active", !.until = now + PeriodLen,
                                 !.grace = Never, !.graceReminded = {}]
<1>0. now + PeriodLen \in Nat BY RetentionAssumption DEF RInv, TypeOK
<1>1. row \in Rows /\ row.status = "active" /\ row.until = now + PeriodLen
  BY <1>0, TypeJob DEF RInv, Rows
<1>2. sub' = [sub EXCEPT ![u] = row] OBVIOUS
<1> HIDE DEF row
<1>3. /\ sub' \in [Users -> Rows] /\ sub'[u] = row
      /\ \A v \in Users \ {u} : sub'[v] = sub[v]
  BY <1>1, <1>2, TypeJob DEF RInv
<1>4. TypeOK'
  <2>1. NoMails.period \in [RemindAt -> Nat] /\ NoMails.grace \in [GraceAt -> Nat]
    BY DEF NoMails
  <2>2. mailed' \in [Users -> Mails]
    BY <2>1 DEF RInv, TypeOK, Mails
  <2> QED BY <1>3, <2>2 DEF RInv, TypeOK, Mails, Races, Rows
<1>5. JobInPlace' BY PlaceKept DEF RInv
<1>6. PayersAreActive'
  BY <1>1, <1>3, RetentionAssumption DEF RInv, TypeOK, PayersAreActive
<1>7. OnlyRacersPay' BY <1>3, RaceSeen
<1> QED BY <1>4, <1>5, <1>6, <1>7 DEF RInv

LEMMA ExpiredRow ==
  ASSUME TypeOK, NEW u \in Users, Expired(u)
  PROVE  /\ sub' \in [Users -> Rows]
         /\ \A v \in Users : /\ sub'[v].until = sub[v].until
                             /\ sub'[v].status = "active" => sub[v].status = "active"
<1> DEFINE row == IF sub[u].status = "active"
                  THEN [sub[u] EXCEPT !.status = "expired", !.grace = now + GraceLen]
                  ELSE sub[u]
<1>0. now + GraceLen \in Nat BY RetentionAssumption DEF TypeOK
<1>1. /\ row \in Rows /\ row.until = sub[u].until
      /\ row.status = "active" => sub[u].status = "active"
  BY <1>0, TypeJob DEF Rows
<1>2. sub' = [sub EXCEPT ![u] = row] BY DEF Expired
<1> HIDE DEF row
<1> QED BY <1>1, <1>2, TypeJob

LEMMA LazyExpireStep == ASSUME RInv, NEW u \in Users, LazyExpire(u) PROVE RInv'
<1> USE DEF LazyExpire, history
<1>1. /\ sub' \in [Users -> Rows]
      /\ \A v \in Users : /\ sub'[v].until = sub[v].until
                          /\ sub'[v].status = "active" => sub[v].status = "active"
  BY ExpiredRow DEF RInv
<1>2. TypeOK' BY <1>1 DEF RInv, TypeOK, Mails, Rows
<1>3. JobInPlace' BY PlaceKept DEF RInv
<1>4. PayersAreActive' BY <1>1 DEF RInv, PayersAreActive
<1>5. OnlyRacersPay'
  <2>1. \A v \in Users : Paying(v)' => Paying(v) BY <1>1 DEF Paying
  <2>2. Selected \subseteq Users
    BY DEF RInv, TypeOK, JobInPlace, Selected
  <2> QED BY <2>1, <2>2 DEF RInv, OnlyRacersPay, Selected
<1> QED BY <1>2, <1>3, <1>4, <1>5 DEF RInv

LEMMA UploadStep == ASSUME RInv, NEW u \in Users, Upload(u) PROVE RInv'
<1> USE DEF Upload, history
<1>1. TypeOK' BY DEF RInv, TypeOK, Mails
<1>2. JobInPlace' BY PlaceKept DEF RInv
<1>3. PayersAreActive' /\ OnlyRacersPay'
  BY DEF RInv, PayersAreActive, OnlyRacersPay, Paying, Selected
<1> QED BY <1>1, <1>2, <1>3 DEF RInv

-----------------------------------------------------------------------------
(* The run and its passes. *)

\* A step after which the job has nobody selected.
LEMMA NobodySelected ==
  ASSUME RInv, job' \in JobStates, job'.todo = {}, job'.pc = "query",
         job'.days \subseteq DaysOf(job'.pass),
         UNCHANGED <<requests, now, mailed, raced, late>>,
         ran' \in BOOLEAN, faults' \in Nat
  PROVE  RInv'
<1> USE DEF requests
<1>1. TypeOK' BY DEF RInv, TypeOK, Mails, JobStates, Days
<1>2. JobInPlace' BY DEF JobInPlace, DaysOf
<1>3. PayersAreActive' BY DEF RInv, PayersAreActive
<1>4. OnlyRacersPay' BY DEF OnlyRacersPay, Selected
<1> QED BY <1>1, <1>2, <1>3, <1>4 DEF RInv

LEMMA JobStartsStep == ASSUME RInv, JobStarts PROVE RInv'
<1>1. "expire" \in Passes BY DEF Passes
<1>2. ran' \in BOOLEAN /\ faults' \in Nat BY DEF RInv, TypeOK, JobStarts
<1> QED BY <1>1, <1>2, BeginJob, NobodySelected DEF JobStarts, history

LEMMA CrashStep == ASSUME RInv, Crash PROVE RInv'
<1>1. ran' \in BOOLEAN /\ faults' \in Nat BY DEF RInv, TypeOK, Crash
<1> QED BY <1>1, IdleJob, NobodySelected DEF Crash, history

LEMMA PassEndsStep == ASSUME RInv, PassEnds PROVE RInv'
<1> DEFINE rest == job.days \ {job.day}
           next == [Begin(job.pass) EXCEPT !.days = rest]
<1>1. job \in JobStates /\ job.pass \in Passes
  BY TypeJob DEF RInv, JobInPlace, PassEnds, JobStates
<1>2. ran' \in BOOLEAN /\ faults' \in Nat BY DEF RInv, TypeOK, PassEnds
<1>3. CASE rest # {}
  <2>1. job' = next BY <1>3 DEF PassEnds
  <2>2. /\ next \in JobStates /\ next.todo = {} /\ next.pc = "query"
        /\ next.pass = job.pass /\ next.days = rest
    BY <1>1, BeginJob DEF JobStates
  <2>3. rest \subseteq DaysOf(job.pass) BY DEF RInv, JobInPlace
  <2> HIDE DEF rest, next
  <2> QED BY <1>2, <2>1, <2>2, <2>3, NobodySelected DEF PassEnds, history
<1>4. CASE rest = {}
  <2>1. NextPass[job.pass] \in Passes \cup {"idle"} BY <1>1 DEF NextPass, Passes
  <2>2. job' = Begin(NextPass[job.pass]) BY <1>4 DEF PassEnds
  <2>3. UNCHANGED <<requests, now, mailed, raced, late>> BY DEF PassEnds, history
  <2> HIDE DEF rest, next
  <2> QED BY <1>2, <2>3, <2>1, <2>2, BeginJob, NobodySelected
<1> QED BY <1>3, <1>4

LEMMA NextDayDue ==
  ASSUME RInv, NEW d \in NextDay
  PROVE  d \in Days \cup {Never} /\ (DaysOf(job.pass) # {} => d \in DaysOf(job.pass))
BY TypeJob DEF RInv, NextDay, JobInPlace, JobStates

\* Whoever the deletion queries select has no running period: it expired, or
\* would have ended before that long an absence.
LEMMA DueArePast ==
  ASSUME RInv, NEW u \in Users, NEW d, Due(u, d), job.pass \in Deleting
  PROVE  ~Paying(u)
<1>1. CASE job.pass = "graceDelete" BY <1>1 DEF Due, GraceOver, InGrace, Paying
<1>2. CASE job.pass = "purge"
  <2>1. lastActive[u] < now - PurgeAfter BY <1>2 DEF Due, PurgeDue, Inactive
  <2>2. lastActive[u] \in Nat /\ sub[u].until \in Nat /\ now \in Nat
    BY TypeJob DEF RInv, TypeOK, Mails, Rows
  <2>3. sub[u].status = "active" => sub[u].until <= lastActive[u] + PayDelay + PeriodLen
    BY DEF RInv, PayersAreActive
  <2> QED BY <2>1, <2>2, <2>3, RetentionAssumption DEF Paying
<1> QED BY <1>1, <1>2 DEF Deleting

LEMMA QueryStep == ASSUME RInv, Query PROVE RInv'
<1>1. PICK d \in NextDay :
        job' = [job EXCEPT !.pc = "loop", !.day = d, !.todo = {u \in Users : Due(u, d)}]
  BY DEF Query
<1>2. d \in Days \cup {Never} /\ (DaysOf(job.pass) # {} => d \in DaysOf(job.pass))
  BY NextDayDue
<1>3. /\ job' \in JobStates /\ job'.pass = job.pass /\ job'.days = job.days
      /\ job'.pc = "loop" /\ job'.day = d /\ job'.todo = {u \in Users : Due(u, d)}
  BY <1>1, <1>2, TypeJob DEF RInv, JobStates, JobCalls
<1>4. UNCHANGED <<requests, ran, now, faults, mailed, late>> /\ raced' = {}
  BY DEF Query
<1>5. TypeOK' BY <1>3, <1>4 DEF RInv, TypeOK, Mails, requests, JobStates, Days
<1>6. JobInPlace' BY <1>2, <1>3 DEF Query, RInv, JobInPlace, DaysOf
<1>7. PayersAreActive' BY <1>4 DEF RInv, PayersAreActive, requests
<1>8. OnlyRacersPay'
  <2> SUFFICES ASSUME job.pass \in Deleting, NEW u \in Users, Due(u, d)
               PROVE  ~Paying(u)'
    BY <1>3 DEF OnlyRacersPay, Selected
  <2>1. ~Paying(u) BY DueArePast
  <2> QED BY <2>1, <1>4 DEF Paying, requests
<1> QED BY <1>5, <1>6, <1>7, <1>8 DEF RInv

-----------------------------------------------------------------------------
(* The loops. *)

\* What the job's own position becomes in a loop.
Moves ==
  /\ job' \in JobStates /\ job'.pass = job.pass /\ job'.days = job.days
  /\ job'.day = job.day /\ job'.pc # "query"
  /\ job'.pc \in {"mark", "delete", "touch", "clear"} => job'.u \in Users
  /\ job'.pc = "delete" => job'.pass \in Deleting
  /\ Selected' \subseteq Selected

LEMMA PlaceMoves ==
  ASSUME RInv, Moves, job.pass # "idle", job.pc # "query"
  PROVE  JobInPlace'
BY DEF RInv, Moves, JobInPlace, DaysOf

LEMMA ThenMoves ==
  ASSUME RInv, NEW u \in job.todo, NEW pc \in JobCalls \ {"query"}, Then(pc, u),
         pc = "delete" => job.pass \in Deleting
  PROVE  Moves
<1>1. u \in Users /\ job \in JobStates BY TypeJob DEF RInv, JobStates
<1>2. /\ job' \in JobStates /\ job'.pass = job.pass /\ job'.days = job.days
      /\ job'.day = job.day /\ job'.pc = pc /\ job'.u = u /\ job'.todo = job.todo \ {u}
  BY <1>1 DEF Then, JobStates
<1> QED BY <1>1, <1>2 DEF Moves, Selected

LEMMA DoneMoves == ASSUME RInv, Done PROVE Moves
<1>1. job \in JobStates BY TypeJob DEF RInv
<1>2. /\ job' \in JobStates /\ job'.pass = job.pass /\ job'.days = job.days
      /\ job'.day = job.day /\ job'.pc = "loop" /\ job'.todo = job.todo
  BY <1>1 DEF Done, JobStates, JobCalls
<1> QED BY <1>1, <1>2 DEF Moves, Selected

\* A later call for the same user.
LEMMA OnwardMoves ==
  ASSUME RInv, job.pc \in {"delete", "touch"}, NEW pc \in {"touch", "clear", "loop"},
         job' = [job EXCEPT !.pc = pc]
  PROVE  Moves
<1>1. job \in JobStates /\ job.u \in Users BY TypeJob DEF RInv, JobInPlace
<1>2. /\ job' \in JobStates /\ job'.pass = job.pass /\ job'.days = job.days
      /\ job'.day = job.day /\ job'.pc = pc /\ job'.todo = job.todo /\ job'.u = job.u
  BY <1>1 DEF JobStates, JobCalls
<1> QED BY <1>1, <1>2 DEF Moves, Selected

\* A loop's step that opens no period keeps the job's claim on its selection.
LEMMA SelectionKept ==
  ASSUME RInv, Moves, UNCHANGED <<now, raced>>,
         \A v \in Users : Paying(v)' => Paying(v)
  PROVE  OnlyRacersPay'
<1>1. Selected \subseteq Users BY DEF RInv, TypeOK, JobInPlace, Selected
<1> QED BY <1>1 DEF RInv, Moves, OnlyRacersPay

\* A loop's step that touches nothing but the job and, perhaps, files, mails and marks.
LEMMA LoopStep ==
  ASSUME RInv, Moves, UNCHANGED <<lastActive, ran, now, raced>>, faults' \in Nat,
         job.pass # "idle", job.pc # "query",
         sub' \in [Users -> Rows], warned' \subseteq Users, files' \subseteq Users,
         late' \subseteq Users,
         mailed' \in [Users -> Mails],
         \A v \in Users : /\ sub'[v].until = sub[v].until
                          /\ sub'[v].status = "active" => sub[v].status = "active"
  PROVE  RInv'
<1>1. TypeOK' BY DEF RInv, TypeOK, Mails, Moves, JobStates, Rows, Days
<1>2. JobInPlace' BY PlaceMoves
<1>3. PayersAreActive' BY DEF RInv, PayersAreActive
<1>4. \A v \in Users : Paying(v)' => Paying(v) BY DEF Paying
<1>5. OnlyRacersPay' BY <1>4, SelectionKept
<1> QED BY <1>1, <1>2, <1>3, <1>5 DEF RInv

LEMMA ExpireUserStep == ASSUME RInv, NEW u \in Users, ExpireUser(u) PROVE RInv'
<1>1. Moves BY ThenMoves DEF ExpireUser, Taken, JobCalls
<1>2. /\ sub' \in [Users -> Rows]
      /\ \A v \in Users : /\ sub'[v].until = sub[v].until
                          /\ sub'[v].status = "active" => sub[v].status = "active"
  BY ExpiredRow DEF RInv, ExpireUser
<1> QED BY <1>1, <1>2, LoopStep DEF ExpireUser, Taken, history, RInv, TypeOK, Mails

LEMMA MailUserStep == ASSUME RInv, NEW u \in Users, MailUser(u) PROVE RInv'
<1>1. Moves BY ThenMoves DEF MailUser, Taken, JobCalls
<1>2. mailed' \in [Users -> Mails]
  <2>1. /\ job.pass = "remind" => job.day \in RemindAt
        /\ job.pass = "graceRemind" => job.day \in GraceAt
    BY DayTypes, RetentionAssumption DEF RInv, JobInPlace, MailUser, Taken
  <2>2. mailed \in [Users -> Mails] BY DEF RInv, TypeOK, Mails
  <2>3. CASE job.pass = "remind"
    <3> DEFINE counts == [mailed[u].period EXCEPT ![job.day] = @ + 1]
    <3>1. counts \in [RemindAt -> Nat] BY <2>1, <2>2, <2>3 DEF Mails
    <3>2. mailed' = [mailed EXCEPT ![u].period = counts] BY <2>3 DEF MailUser
    <3> HIDE DEF counts
    <3> QED BY <2>2, <3>1, <3>2 DEF Mails
  <2>4. CASE job.pass = "graceRemind"
    <3> DEFINE counts == [mailed[u].grace EXCEPT ![job.day] = @ + 1]
    <3>1. counts \in [GraceAt -> Nat] BY <2>1, <2>2, <2>4 DEF Mails
    <3>2. mailed' = [mailed EXCEPT ![u].grace = counts] BY <2>4 DEF MailUser
    <3> HIDE DEF counts
    <3> QED BY <2>2, <3>1, <3>2 DEF Mails
  <2>5. CASE job.pass = "warn"
    <3>1. mailed' = [mailed EXCEPT ![u].warning = now] /\ now \in Nat
      BY <2>5 DEF MailUser, RInv, TypeOK, Mails
    <3> QED BY <2>2, <3>1 DEF Mails
  <2> QED BY <2>3, <2>4, <2>5 DEF MailUser
<1>3. sub \in [Users -> Rows] BY TypeJob DEF RInv
<1> QED BY <1>1, <1>2, <1>3, LoopStep DEF MailUser, Taken, requests, RInv, TypeOK, Mails

LEMMA MarkUserStep == ASSUME RInv, MarkUser PROVE RInv'
<1> DEFINE u == job.u
<1>1. Moves BY DoneMoves DEF MarkUser
<1>2. u \in Users /\ sub \in [Users -> Rows] BY TypeJob DEF RInv, JobInPlace, MarkUser
<1>3. /\ job.pass = "remind" => job.day \in RemindAt
      /\ job.pass = "graceRemind" => job.day \in GraceAt
  BY DayTypes, RetentionAssumption DEF RInv, JobInPlace, MarkUser
<1>4. /\ sub' \in [Users -> Rows]
      /\ \A v \in Users : sub'[v].until = sub[v].until /\ sub'[v].status = sub[v].status
  <2>1. CASE job.pass = "remind" BY <1>2, <1>3, <2>1 DEF MarkUser, Rows
  <2>2. CASE job.pass = "graceRemind" BY <1>2, <1>3, <2>2 DEF MarkUser, Rows
  <2>3. CASE job.pass = "warn" BY <1>2, <2>3 DEF MarkUser
  <2> QED BY <2>1, <2>2, <2>3 DEF MarkUser
<1>5. warned' \subseteq Users /\ late' \subseteq Users
  BY <1>2 DEF MarkUser, RInv, TypeOK, Mails
<1> QED BY <1>1, <1>4, <1>5, LoopStep DEF MarkUser, RInv, TypeOK, Mails

LEMMA SelectFilesStep == ASSUME RInv, NEW u \in Users, SelectFiles(u) PROVE RInv'
<1>1. Moves BY ThenMoves DEF SelectFiles, Taken, JobCalls, AfterFiles, Deleting
<1>2. sub \in [Users -> Rows] BY TypeJob DEF RInv
<1> QED BY <1>1, <1>2, LoopStep DEF SelectFiles, Taken, requests, history, RInv, TypeOK, Mails

LEMMA DeleteFilesStep == ASSUME RInv, DeleteFiles PROVE RInv'
<1>1. Moves BY OnwardMoves DEF DeleteFiles
<1>2. sub \in [Users -> Rows] /\ job.pass # "idle"
  BY TypeJob DEF RInv, JobInPlace, DeleteFiles
<1> QED BY <1>1, <1>2, LoopStep DEF DeleteFiles, history, RInv, TypeOK, Mails

LEMMA TouchUserStep == ASSUME RInv, TouchUser PROVE RInv'
<1>1. Moves BY OnwardMoves DEF TouchUser, AfterFiles
<1>2. job.u \in Users /\ job.pass # "idle" BY DEF RInv, JobInPlace, TouchUser
<1>3. mailed' \in [Users -> Mails]
  BY <1>2 DEF RInv, TypeOK, Mails, TouchUser
<1>4. TypeOK' BY <1>1, <1>2, <1>3 DEF RInv, TypeOK, Mails, TouchUser, Moves, JobStates, Days
<1>5. JobInPlace' BY <1>1, <1>2, PlaceMoves DEF TouchUser
<1>6. PayersAreActive'
  BY <1>2, RetentionAssumption DEF RInv, TypeOK, PayersAreActive, TouchUser
<1>7. OnlyRacersPay' BY <1>1, SelectionKept DEF TouchUser, Paying
<1> QED BY <1>4, <1>5, <1>6, <1>7 DEF RInv

LEMMA ClearGraceStep == ASSUME RInv, ClearGrace PROVE RInv'
<1>1. Moves BY DoneMoves DEF ClearGrace
<1>2. sub \in [Users -> Rows] /\ job.u \in Users /\ job.pass # "idle"
  BY TypeJob DEF RInv, JobInPlace, ClearGrace
<1>3. /\ sub' \in [Users -> Rows]
      /\ \A v \in Users : sub'[v].until = sub[v].until /\ sub'[v].status = sub[v].status
  BY <1>2 DEF ClearGrace, Rows
<1> QED BY <1>1, <1>2, <1>3, LoopStep DEF ClearGrace, history, RInv, TypeOK, Mails

-----------------------------------------------------------------------------
(* Faults and time. *)

LEMMA CallFailsStep == ASSUME RInv, CallFails PROVE RInv'
<1>1. /\ faults' \in Nat /\ job.pass # "idle"
      /\ UNCHANGED <<requests, ran, now, history>>
  <2>1. faults \in Nat /\ faults' = faults + 1 BY DEF CallFails, RInv, TypeOK
  <2>2. faults' \in Nat BY <2>1
  <2> QED BY <2>2 DEF CallFails
<1>2. sub \in [Users -> Rows] /\ job \in JobStates BY TypeJob DEF RInv
<1>3. CASE job.pc = "query"
  <2>1. PICK d \in NextDay : job' = [job EXCEPT !.pc = "loop", !.day = d]
    BY <1>3 DEF CallFails
  <2>2. d \in Days \cup {Never} /\ (DaysOf(job.pass) # {} => d \in DaysOf(job.pass))
    BY NextDayDue
  <2>3. /\ job' \in JobStates /\ job'.pass = job.pass /\ job'.days = job.days
        /\ job'.pc = "loop" /\ job'.day = d /\ job'.todo = {}
    BY <1>2, <1>3, <2>1, <2>2 DEF JobStates, JobCalls, RInv, JobInPlace
  <2>4. TypeOK' BY <1>1, <2>3 DEF RInv, TypeOK, Mails, requests, history, JobStates, Days
  <2>5. JobInPlace' BY <1>1, <2>2, <2>3 DEF RInv, JobInPlace, DaysOf
  <2>6. PayersAreActive' BY <1>1 DEF RInv, PayersAreActive, requests
  <2>7. OnlyRacersPay' BY <2>3 DEF OnlyRacersPay, Selected
  <2> QED BY <2>4, <2>5, <2>6, <2>7 DEF RInv
<1>4. CASE job.pc # "query"
  <2>1. Moves
    <3>1. CASE job.pc = "loop"
      <4>1. PICK u \in job.todo : Then("loop", u) BY <3>1 DEF CallFails
      <4> QED BY <4>1, ThenMoves DEF JobCalls
    <3>2. CASE job.pc = "touch" BY <3>2, OnwardMoves DEF CallFails, AfterFiles
    <3>3. CASE job.pc \in {"mark", "delete", "clear"} BY <3>3, DoneMoves DEF CallFails
    <3> QED BY <1>2, <1>4, <3>1, <3>2, <3>3 DEF JobStates, JobCalls
  <2> QED BY <1>1, <1>2, <1>4, <2>1, LoopStep DEF requests, history, RInv, TypeOK, Mails
<1> QED BY <1>3, <1>4

LEMMA TickStep == ASSUME RInv, Tick PROVE RInv'
<1>1. TypeOK'
  <2>1. now \in Nat /\ now' = now + 1 BY DEF RInv, TypeOK, Tick
  <2>2. now' \in Nat BY <2>1
  <2>3. ran' \in BOOLEAN BY DEF Tick
  <2> QED BY <2>2, <2>3 DEF RInv, TypeOK, Tick, requests, history
<1>2. JobInPlace' BY PlaceKept DEF RInv, Tick
<1>3. PayersAreActive'
  BY DEF RInv, TypeOK, PayersAreActive, Tick, requests
<1>4. OnlyRacersPay' BY DEF Tick, OnlyRacersPay, Deleting
<1> QED BY <1>1, <1>2, <1>3, <1>4 DEF RInv

-----------------------------------------------------------------------------
LEMMA RetentionInit == Init => RInv
<1> SUFFICES ASSUME Init PROVE RInv OBVIOUS
<1> USE DEF Init
<1>1. NoMails \in Mails
  BY DEF NoMails, Mails
<1>2. job \in JobStates BY IdleJob
<1>3. sub \in [Users -> Rows] BY DEF Rows
<1>4. TypeOK BY <1>1, <1>2, <1>3 DEF TypeOK, Mails, JobStates, Rows, Days
<1>5. JobInPlace BY IdleJob DEF JobInPlace
<1>6. PayersAreActive /\ OnlyRacersPay
  BY IdleJob DEF PayersAreActive, OnlyRacersPay, Deleting
<1> QED BY <1>4, <1>5, <1>6 DEF RInv

LEMMA RetentionNext == RInv /\ [Next]_vars => RInv'
<1> SUFFICES ASSUME RInv, [Next]_vars PROVE RInv' OBVIOUS
<1>1. ASSUME NEW u \in Users, Request(u) PROVE RInv'
  BY <1>1, ActStep, RenewStep, LazyExpireStep, UploadStep DEF Request
<1>2. CASE JobStep
  BY <1>2, JobStartsStep, QueryStep, PassEndsStep, ExpireUserStep, MailUserStep,
     SelectFilesStep, MarkUserStep, DeleteFilesStep, TouchUserStep, ClearGraceStep
  DEF JobStep
<1>3. CASE UNCHANGED vars
  BY <1>3 DEF vars, RInv, TypeOK, JobInPlace, DaysOf, PayersAreActive, OnlyRacersPay,
              Selected, Paying
<1> QED BY <1>1, <1>2, <1>3, CallFailsStep, CrashStep, TickStep DEF Next

\* The inductive invariant holds throughout.
THEOREM RetentionInductive == Spec => []RInv
BY RetentionInit, RetentionNext, PTL DEF Spec

\* The job's state and the columns it works on keep their types.
THEOREM RetentionTyped == Spec => []TypeOK
<1>1. RInv => TypeOK BY DEF RInv
<1> QED BY <1>1, RetentionInductive, PTL

\* For any number of users, any lengths of period, grace and inactivity with
\* PeriodLen + PayDelay <= PurgeAfter, and any number of faults: the job deletes
\* no files of someone whose paid period is running, unless the payment or
\* a request of that user overtook it.  (deleteUserFiles.)
THEOREM PayersKeepTheirFiles == Spec => PayerKeepsFiles
<1>1. ASSUME RInv, [Next]_vars, NEW u \in Users, LosesFiles(u), Paying(u)
      PROVE  u \in raced
  <2>1. DeleteFiles
    BY <1>1 DEF LosesFiles, vars, requests, history, Next, Request, JobStep, Act, Renew,
                LazyExpire, Upload, JobStarts, Query, PassEnds, ExpireUser, MailUser,
                MarkUser, SelectFiles, TouchUser, ClearGrace, CallFails, Crash, Tick
  <2>2. job.pc = "delete" /\ u = job.u BY <1>1, <2>1 DEF LosesFiles, DeleteFiles
  <2>3. u \in Selected BY <2>2 DEF Selected
  <2> QED BY <1>1, <2>2, <2>3 DEF RInv, JobInPlace, OnlyRacersPay
<1>2. RInv /\ [Next]_vars =>
        [\A u \in Users : LosesFiles(u) /\ Paying(u) => u \in raced]_vars
  BY <1>1
<1> QED BY <1>2, RetentionInductive, PTL DEF Spec, PayerKeepsFiles

-----------------------------------------------------------------------------
(* The mails.  While no call fails, what a mail's column says and what was  *)
(* sent differ only between the two calls.                                  *)

Working == {"mark", "delete", "touch", "clear"}
Marking(u, pass) == job.pass = pass /\ job.pc = "mark" /\ job.u = u
\* Whose files the pass has yet to delete.
OnHand(u) == u \in job.todo \/ (job.pc = "delete" /\ u = job.u)

\* The loop takes everybody once, and each kind of call belongs to its passes.
TakenOnce ==
  /\ job.pc \in Working => job.u \notin job.todo
  /\ job.pc = "mark" => job.pass \in {"remind", "graceRemind", "warn"}
  /\ job.pc = "clear" => job.pass = "graceDelete"
  /\ job.pc = "touch" => job.pass \in Deleting

\* A mail that was sent is marked, or about to be; whoever is still to get one has none.
PeriodOnce(u, d) ==
  /\ mailed[u].period[d] <= 1
  /\ mailed[u].period[d] = 1 => d \in sub[u].reminded \/ (Marking(u, "remind") /\ job.day = d)
  /\ job.pass = "remind" /\ u \in job.todo /\ job.day = d => mailed[u].period[d] = 0
GraceOnce(u, d) ==
  /\ mailed[u].grace[d] <= 1
  /\ mailed[u].grace[d] = 1 => d \in sub[u].graceReminded \/ (Marking(u, "graceRemind") /\ job.day = d)
  /\ job.pass = "graceRemind" /\ u \in job.todo /\ job.day = d => mailed[u].grace[d] = 0

WarnedInTime(u) == mailed[u].warning # Never /\ mailed[u].warning <= lastActive[u] + WarnAfter + 1
\* Today's warning of u was given, if one was due.
WarnPassDone(u) ==
  \/ ran \/ job.pass = "purge"
  \/ (job.pass = "warn" /\ job.pc # "query" /\ u \notin Selected)
\* Nobody is inactive for more than a day too long without having been warned.
Warnings(u) ==
  /\ u \in warned => WarnedInTime(u)
  /\ u \notin warned => now <= lastActive[u] + WarnAfter + 1
  /\ WarnPassDone(u) /\ u \notin warned => now <= lastActive[u] + WarnAfter
  /\ job.pass = "warn" /\ u \in job.todo => u \notin warned
  /\ Marking(u, "warn") /\ u \notin raced => WarnedInTime(u)
  /\ job.pass = "purge" /\ OnHand(u) /\ u \notin raced => PurgeDue(u)

\* Today's reminder for milestone d was given, if one was due.
GracePassDone(u, d) ==
  \/ ran \/ job.pass \in {"graceDelete", "warn", "purge"}
  \/ (job.pass = "graceRemind" /\ d \notin job.days)
  \/ (job.pass = "graceRemind" /\ job.pc # "query" /\ job.day = d /\ u \notin Selected)
LastDay(u, d) == sub[u].grace - d + 1
\* Nobody's grace period passes the last day of a milestone without the reminder.
Reminders(u, d) ==
  /\ d \in sub[u].graceReminded => mailed[u].grace[d] > 0
  /\ InGrace(u) /\ now > LastDay(u, d) => d \in sub[u].graceReminded
  /\ InGrace(u) /\ now = LastDay(u, d) /\ GracePassDone(u, d) => d \in sub[u].graceReminded
  /\ Marking(u, "graceRemind") /\ u \notin raced /\ job.day = d => mailed[u].grace[d] > 0
GraceHand(u) == job.pass = "graceDelete" /\ OnHand(u) /\ u \notin raced => GraceOver(u)

Once(u) == (\A d \in RemindAt : PeriodOnce(u, d)) /\ (\A d \in GraceAt : GraceOnce(u, d))
Announced(u) == Warnings(u) /\ GraceHand(u) /\ \A d \in GraceAt : Reminders(u, d)

\* The inductive invariant of the mails.
MInv == faults = 0 => TakenOnce /\ \A u \in Users : Once(u) /\ (u \notin late => Announced(u))

\* Types of one user's values.
LEMMA UserTypes ==
  ASSUME RInv, NEW u \in Users
  PROVE  /\ sub[u] \in Rows /\ lastActive[u] \in Nat /\ now \in Nat
         /\ mailed[u].period \in [RemindAt -> Nat] /\ mailed[u].grace \in [GraceAt -> Nat]
         /\ mailed[u].warning \in Nat \cup {Never}
         /\ WarnAfter \in Nat /\ PurgeAfter \in Nat /\ GraceLen \in Nat /\ Never \notin Nat
         /\ RemindAt \subseteq Nat /\ GraceAt \subseteq Nat /\ \A d \in GraceAt : d <= GraceLen
         /\ job \in JobStates
<1>1. mailed[u] \in Mails
  BY DEF RInv, TypeOK, Mails
<1>2. sub[u] \in Rows /\ job \in JobStates
  BY TypeJob DEF RInv
<1> QED BY <1>1, <1>2, RetentionAssumption DEF RInv, TypeOK, Mails

LEMMA ActMails ==
  ASSUME RInv, RInv', MInv, faults = 0, NEW u \in Users, Act(u)
  PROVE  MInv'
<1>1. /\ UNCHANGED <<sub, files, job, ran, now, faults, late>>
      /\ \A v \in Users : /\ lastActive'[v] = IF v = u THEN now ELSE lastActive[v]
                          /\ v \in warned' <=> v \in warned /\ v # u
                          /\ mailed'[v].period = mailed[v].period
                          /\ mailed'[v].grace = mailed[v].grace
                          /\ mailed'[v].warning = IF v = u THEN Never ELSE mailed[v].warning
                          /\ v \in raced' <=> v \in raced \/ (v = u /\ u \in Selected)
  BY DEF Act, Races, RInv, TypeOK
<1>2. TakenOnce'
  BY <1>1 DEF MInv, TakenOnce
<1>3. ASSUME NEW v \in Users PROVE Once(v)'
  BY <1>1 DEF MInv, Once, PeriodOnce, GraceOnce, Marking
<1>4. ASSUME NEW v \in Users, v \notin late' PROVE Announced(v)'
  <2>1. Announced(v)
    BY <1>1, <1>4 DEF MInv
  <2>2. Warnings(v)'
    BY <1>1, <2>1, UserTypes DEF Announced, Warnings, WarnedInTime, WarnPassDone, Marking, OnHand,
                                PurgeDue, Inactive, Selected
  <2>3. GraceHand(v)'
    BY <1>1, <2>1 DEF Announced, GraceHand, OnHand, GraceOver, InGrace
  <2>4. ASSUME NEW d \in GraceAt PROVE Reminders(v, d)'
    BY <1>1, <2>1 DEF Announced, Reminders, InGrace, LastDay, GracePassDone, Marking, Selected
  <2> QED BY <2>2, <2>3, <2>4 DEF Announced
<1> QED BY <1>2, <1>3, <1>4 DEF MInv

LEMMA RenewMails ==
  ASSUME RInv, RInv', MInv, faults = 0, NEW u \in Users, Renew(u)
  PROVE  MInv'
<1>1. /\ UNCHANGED <<lastActive, warned, files, job, ran, now, faults, late>>
      /\ \A v \in Users : v # u => sub'[v] = sub[v] /\ mailed'[v] = mailed[v]
      /\ mailed'[u].warning = mailed[u].warning
      /\ \A d \in RemindAt : mailed'[u].period[d] = 0
      /\ \A d \in GraceAt : mailed'[u].grace[d] = 0
      /\ sub'[u].status = "active" /\ sub'[u].graceReminded = {}
      /\ \A v \in Users : v \in raced' <=> v \in raced \/ (v = u /\ u \in Selected)
  BY DEF Renew, Races, RInv, TypeOK, NoMails
<1>2. TakenOnce'
  BY <1>1 DEF MInv, TakenOnce
<1>3. ASSUME NEW v \in Users PROVE Once(v)'
  BY <1>1 DEF MInv, Once, PeriodOnce, GraceOnce, Marking
<1>4. ASSUME NEW v \in Users, v \notin late' PROVE Announced(v)'
  <2>1. Announced(v)
    BY <1>1, <1>4 DEF MInv
  <2>2. Warnings(v)'
    BY <1>1, <2>1, UserTypes DEF Announced, Warnings, WarnedInTime, WarnPassDone, Marking, OnHand,
                                PurgeDue, Inactive, Selected
  <2>3. GraceHand(v)'
    BY <1>1, <2>1 DEF Announced, GraceHand, OnHand, GraceOver, InGrace, Selected
  <2>4. ASSUME NEW d \in GraceAt PROVE Reminders(v, d)'
    BY <1>1, <2>1 DEF Announced, Reminders, InGrace, LastDay, GracePassDone, Marking, Selected
  <2> QED BY <2>2, <2>3, <2>4 DEF Announced
<1> QED BY <1>2, <1>3, <1>4 DEF MInv

\* What an expiry does to the row of a subscription.
LEMMA ExpiryFacts ==
  ASSUME RInv, NEW u \in Users, Expired(u)
  PROVE  /\ \A v \in Users : v # u => sub'[v] = sub[v]
         /\ sub'[u].reminded = sub[u].reminded /\ sub'[u].graceReminded = sub[u].graceReminded
         /\ \/ sub'[u] = sub[u]
            \/ sub[u].status = "active" /\ sub'[u].status = "expired" /\ sub'[u].grace = now + GraceLen
BY DEF Expired, RInv, TypeOK

\* An expiry begins a grace period, of which no milestone's last day has come.
LEMMA ExpiryReminders ==
  ASSUME RInv, MInv, faults = 0, NEW u \in Users, Expired(u), NEW v \in Users, Announced(v),
         UNCHANGED <<now, mailed, raced, ran>>, NEW d \in GraceAt,
         GracePassDone(v, d)' => GracePassDone(v, d),
         Marking(v, "graceRemind")' => Marking(v, "graceRemind") /\ job'.day = job.day
  PROVE  Reminders(v, d)'
<1>1. Reminders(v, d)
  BY DEF Announced
<1> QED BY <1>1, ExpiryFacts, UserTypes DEF Reminders, InGrace, LastDay, Marking, Rows

LEMMA LazyExpireMails ==
  ASSUME RInv, MInv, faults = 0, NEW u \in Users, LazyExpire(u)
  PROVE  MInv'
<1>1. UNCHANGED <<lastActive, warned, files, job, ran, now, faults, late, mailed, raced>> /\ Expired(u)
  BY DEF LazyExpire, history
<1>2. TakenOnce'
  BY <1>1 DEF MInv, TakenOnce
<1>3. ASSUME NEW v \in Users PROVE Once(v)'
  BY <1>1, ExpiryFacts DEF MInv, Once, PeriodOnce, GraceOnce, Marking
<1>4. ASSUME NEW v \in Users, v \notin late' PROVE Announced(v)'
  <2>1. Announced(v)
    BY <1>1, <1>4 DEF MInv
  <2>2. Warnings(v)'
    BY <1>1, <2>1 DEF Announced, Warnings, WarnedInTime, WarnPassDone, Marking, OnHand,
                      PurgeDue, Inactive, Selected
  <2>3. GraceHand(v)'
    BY <1>1, <2>1, ExpiryFacts DEF Announced, GraceHand, OnHand, GraceOver, InGrace
  <2>4. ASSUME NEW d \in GraceAt PROVE Reminders(v, d)'
    BY <1>1, <2>1, ExpiryReminders DEF GracePassDone, Marking, Selected
  <2> QED BY <2>2, <2>3, <2>4 DEF Announced
<1> QED BY <1>2, <1>3, <1>4 DEF MInv

LEMMA ExpireUserMails ==
  ASSUME RInv, MInv, faults = 0, NEW u \in Users, ExpireUser(u)
  PROVE  MInv'
<1>1. /\ UNCHANGED <<lastActive, warned, files, ran, now, faults, late, mailed, raced>> /\ Expired(u)
      /\ job.pass = "expire" /\ job.pc = "loop"
      /\ job'.pass = "expire" /\ job'.pc = "loop" /\ job'.day = job.day
  BY TypeJob DEF RInv, ExpireUser, Taken, history, Then, JobStates
<1>2. TakenOnce'
  BY <1>1 DEF MInv, TakenOnce, Working
<1>3. ASSUME NEW v \in Users PROVE Once(v)'
  BY <1>1, ExpiryFacts DEF MInv, Once, PeriodOnce, GraceOnce, Marking
<1>4. ASSUME NEW v \in Users, v \notin late' PROVE Announced(v)'
  <2>1. Announced(v)
    BY <1>1, <1>4 DEF MInv
  <2>2. Warnings(v)'
    BY <1>1, <2>1 DEF Announced, Warnings, WarnedInTime, WarnPassDone, Marking
  <2>3. GraceHand(v)'
    BY <1>1 DEF GraceHand
  <2>4. ASSUME NEW d \in GraceAt PROVE Reminders(v, d)'
    BY <1>1, <2>1, ExpiryReminders DEF GracePassDone, Marking
  <2> QED BY <2>2, <2>3, <2>4 DEF Announced
<1> QED BY <1>2, <1>3, <1>4 DEF MInv

\* A step of the files alone.
LEMMA SameMails ==
  ASSUME MInv, faults = 0,
         UNCHANGED <<sub, lastActive, warned, job, ran, now, faults, mailed, raced, late>>
  PROVE  MInv'
<1>1. TakenOnce'
  BY DEF MInv, TakenOnce
<1>2. ASSUME NEW v \in Users PROVE Once(v)'
  BY DEF MInv, Once, PeriodOnce, GraceOnce, Marking
<1>3. ASSUME NEW v \in Users, v \notin late' PROVE Announced(v)'
  <2>1. Announced(v)
    BY <1>3 DEF MInv
  <2>2. Warnings(v)'
    BY <2>1 DEF Announced, Warnings, WarnedInTime, WarnPassDone, Marking, OnHand,
                PurgeDue, Inactive, Selected
  <2>3. GraceHand(v)'
    BY <2>1 DEF Announced, GraceHand, OnHand, GraceOver, InGrace
  <2>4. ASSUME NEW d \in GraceAt PROVE Reminders(v, d)'
    BY <2>1 DEF Announced, Reminders, InGrace, LastDay, GracePassDone, Marking, Selected
  <2> QED BY <2>2, <2>3, <2>4 DEF Announced
<1> QED BY <1>1, <1>2, <1>3 DEF MInv

-----------------------------------------------------------------------------
(* The run and its passes, and the mails.                                   *)

\* A run begins with nothing done that was not done today.
LEMMA JobStartsMails ==
  ASSUME RInv, MInv, faults = 0, JobStarts
  PROVE  MInv'
<1>0. "expire" \in Passes
  BY DEF Passes
<1>1. /\ UNCHANGED <<sub, lastActive, warned, files, ran, now, faults, mailed, raced, late>>
      /\ job'.pass = "expire" /\ job'.pc = "query" /\ job'.todo = {}
  BY <1>0, BeginJob DEF JobStarts, requests, history
<1>2. TakenOnce'
  BY <1>1 DEF TakenOnce, Working
<1>3. ASSUME NEW v \in Users PROVE Once(v)'
  BY <1>1 DEF JobStarts, MInv, Once, PeriodOnce, GraceOnce, Marking
<1>4. ASSUME NEW v \in Users, v \notin late' PROVE Announced(v)'
  <2>1. Announced(v)
    BY <1>1, <1>4 DEF MInv
  <2>2. Warnings(v)'
    BY <1>1, <2>1 DEF Announced, Warnings, WarnedInTime, WarnPassDone, Marking
  <2>3. GraceHand(v)'
    BY <1>1 DEF GraceHand
  <2>4. ASSUME NEW d \in GraceAt PROVE Reminders(v, d)'
    BY <1>1, <2>1 DEF Announced, Reminders, InGrace, LastDay, GracePassDone, Marking
  <2> QED BY <2>2, <2>3, <2>4 DEF Announced
<1> QED BY <1>2, <1>3, <1>4 DEF MInv

LEMMA PassEndsMails ==
  ASSUME RInv, MInv, faults = 0, PassEnds
  PROVE  MInv'
<1> DEFINE rest == job.days \ {job.day}
<1>1. job \in JobStates /\ job.pass \in Passes /\ job.pc = "loop" /\ job.todo = {}
  BY TypeJob DEF RInv, JobInPlace, PassEnds, JobStates
<1>2. /\ UNCHANGED <<sub, lastActive, warned, files, now, faults, mailed, raced, late>>
      /\ ran' => ran \/ job.pass = "purge"
  BY DEF PassEnds, requests, history
<1>3. /\ job'.pc = "query" /\ job'.todo = {}
      /\ \/ rest # {} /\ job'.pass = job.pass /\ job'.days = rest
         \/ rest = {} /\ job'.pass = NextPass[job.pass] /\ job'.days = DaysOf(NextPass[job.pass])
  <2>1. CASE rest # {}
    <3>1. job' = [Begin(job.pass) EXCEPT !.days = rest]
      BY <2>1 DEF PassEnds
    <3> QED BY <1>1, <2>1, <3>1, BeginJob DEF JobStates
  <2>2. CASE rest = {}
    <3>1. job' = Begin(NextPass[job.pass])
      BY <2>2 DEF PassEnds
    <3>2. NextPass[job.pass] \in Passes \cup {"idle"}
      BY <1>1 DEF NextPass, Passes
    <3> QED BY <2>2, <3>1, <3>2, BeginJob
  <2> QED BY <2>1, <2>2
<1>4. job.pass \notin {"remind", "graceRemind"} => job.days = {}
  BY <1>1, DayTypes DEF RInv, JobInPlace
<1>5. TakenOnce'
  BY <1>3 DEF TakenOnce, Working
<1>6. ASSUME NEW v \in Users PROVE Once(v)'
  BY <1>1, <1>2, <1>3 DEF MInv, Once, PeriodOnce, GraceOnce, Marking
<1>7. ASSUME NEW v \in Users, v \notin late' PROVE Announced(v)'
  <2>1. Announced(v)
    BY <1>2, <1>7 DEF MInv
  <2>2. v \notin Selected
    BY <1>1 DEF Selected
  <2>3. WarnPassDone(v)' => WarnPassDone(v)
    <3>1. job'.pass = "purge" => job.pass \in {"warn", "purge"}
      BY <1>1, <1>3 DEF NextPass, Passes
    <3> QED BY <1>1, <1>2, <1>3, <2>2, <3>1 DEF WarnPassDone
  <2>4. Warnings(v)'
    BY <1>1, <1>2, <1>3, <2>1, <2>3 DEF Announced, Warnings, WarnedInTime, Marking, OnHand
  <2>5. GraceHand(v)'
    BY <1>3 DEF GraceHand, OnHand
  <2>6. ASSUME NEW d \in GraceAt PROVE Reminders(v, d)'
    <3>1. GracePassDone(v, d)' => GracePassDone(v, d)
      <4>1. CASE rest # {}
        BY <1>1, <1>2, <1>3, <1>4, <2>2, <4>1 DEF GracePassDone
      <4>2. CASE rest = {}
        <5>1. DaysOf("graceRemind") = GraceAt
          BY DayTypes
        <5>2. job.days \subseteq {job.day}
          BY <4>2
        <5>3. /\ job'.pass \in {"graceDelete", "warn", "purge"} =>
                   job.pass \in {"graceRemind", "graceDelete", "warn"}
              /\ job'.pass = "graceRemind" => job'.days = GraceAt
          BY <1>1, <1>3, <4>2, <5>1 DEF NextPass, Passes
        <5> QED BY <1>1, <1>2, <1>3, <2>2, <5>2, <5>3 DEF GracePassDone
      <4> QED BY <4>1, <4>2
    <3> QED BY <1>2, <1>3, <2>1, <3>1 DEF Announced, Reminders, InGrace, LastDay, Marking
  <2> QED BY <2>4, <2>5, <2>6 DEF Announced
<1> QED BY <1>5, <1>6, <1>7 DEF MInv

\* Whoever a query leaves out is not due.
LEMMA QueryMails ==
  ASSUME RInv, MInv, faults = 0, Query
  PROVE  MInv'
<1>1. PICK d \in NextDay :
        job' = [job EXCEPT !.pc = "loop", !.day = d, !.todo = {u \in Users : Due(u, d)}]
  BY DEF Query
<1>2. /\ job' \in JobStates /\ job'.pass = job.pass /\ job'.days = job.days
      /\ job'.pc = "loop" /\ job'.day = d /\ job'.todo = {u \in Users : Due(u, d)}
  <2>1. d \in Days \cup {Never}
    BY NextDayDue
  <2> QED BY <1>1, <2>1, TypeJob DEF RInv, JobStates, JobCalls
<1>3. /\ UNCHANGED <<sub, lastActive, warned, files, ran, now, faults, mailed, late>>
      /\ raced' = {} /\ job.pc = "query" /\ job.pass # "idle" /\ job.todo = {}
  BY DEF Query, requests, RInv, JobInPlace
<1>4. /\ job.pass = "remind" => d \in RemindAt
      /\ job.pass = "graceRemind" => d \in GraceAt /\ d \in job.days
  BY DayTypes, RetentionAssumption DEF RInv, NextDay, JobInPlace
<1>5. TakenOnce'
  BY <1>2 DEF TakenOnce, Working
<1>6. ASSUME NEW v \in Users PROVE Once(v)'
  <2>1. ASSUME NEW e \in RemindAt PROVE PeriodOnce(v, e)'
    <3>1. PeriodOnce(v, e) /\ mailed[v].period[e] \in Nat
      BY UserTypes DEF MInv, Once
    <3>2. job.pass = "remind" /\ v \in job'.todo => d \notin sub[v].reminded
      BY <1>2 DEF Due, ReminderDue
    <3> QED BY <1>2, <1>3, <3>1, <3>2 DEF PeriodOnce, Marking
  <2>2. ASSUME NEW e \in GraceAt PROVE GraceOnce(v, e)'
    <3>1. GraceOnce(v, e) /\ mailed[v].grace[e] \in Nat
      BY UserTypes DEF MInv, Once
    <3>2. job.pass = "graceRemind" /\ v \in job'.todo => d \notin sub[v].graceReminded
      BY <1>2 DEF Due, GraceReminderDue
    <3> QED BY <1>2, <1>3, <3>1, <3>2 DEF GraceOnce, Marking
  <2> QED BY <2>1, <2>2 DEF Once
<1>7. ASSUME NEW v \in Users, v \notin late' PROVE Announced(v)'
  <2>1. Announced(v)
    BY <1>3, <1>7 DEF MInv
  <2>2. v \in Selected' <=> Due(v, d)
    BY <1>2 DEF Selected
  <2>3. Warnings(v)'
    <3>1. job.pass = "warn" => (Due(v, d) <=> WarningDue(v))
      BY DEF Due
    <3>2. job.pass = "purge" => (Due(v, d) <=> PurgeDue(v))
      BY DEF Due
    <3> QED BY <1>2, <1>3, <2>1, <2>2, <3>1, <3>2, UserTypes
         DEF Announced, Warnings, WarnedInTime, WarnPassDone, Marking, OnHand, PurgeDue,
             WarningDue, Inactive
  <2>4. GraceHand(v)'
    <3>1. job.pass = "graceDelete" => (Due(v, d) <=> GraceOver(v))
      BY DEF Due
    <3> QED BY <1>2, <1>3, <3>1 DEF GraceHand, OnHand, GraceOver, InGrace
  <2>5. ASSUME NEW e \in GraceAt PROVE Reminders(v, e)'
    <3>1. Reminders(v, e)
      BY <2>1 DEF Announced
    <3>2. job.pass = "graceRemind" => (Due(v, d) <=> GraceReminderDue(v, d))
      BY DEF Due
    <3>3. sub[v] \in Rows /\ now \in Nat /\ e \in Nat
      BY UserTypes
    <3>4. CASE job.pass = "graceRemind" /\ e = d
      <4>1. ASSUME InGrace(v), now = LastDay(v, e), ~GraceReminderDue(v, d)
            PROVE  e \in sub[v].graceReminded
        <5>1. sub[v].grace \in Nat
          BY <3>3, <4>1 DEF InGrace, Rows
        <5>2. Within(d, sub[v].grace)
          BY <3>3, <3>4, <4>1, <5>1 DEF Within, LastDay
        <5> QED BY <3>4, <4>1, <5>2 DEF GraceReminderDue
      <4> QED BY <1>2, <1>3, <2>2, <3>1, <3>2, <3>4, <4>1 DEF Reminders, InGrace, LastDay, GracePassDone, Marking
    <3>5. CASE ~(job.pass = "graceRemind" /\ e = d)
      BY <1>2, <1>3, <3>1, <3>5 DEF Reminders, InGrace, LastDay, GracePassDone, Marking
    <3> QED BY <3>4, <3>5
  <2> QED BY <2>3, <2>4, <2>5 DEF Announced
<1> QED BY <1>5, <1>6, <1>7 DEF MInv

LEMMA TickMails ==
  ASSUME RInv, MInv, faults = 0, Tick
  PROVE  MInv'
<1>1. /\ UNCHANGED <<sub, lastActive, warned, files, job, faults, mailed, raced, late>>
      /\ ran /\ ran' = FALSE /\ now' = now + 1 /\ job.pass = "idle" /\ job.pc = "query" /\ job.todo = {}
  BY DEF Tick, requests, history, RInv, JobInPlace
<1>2. TakenOnce'
  BY <1>1 DEF MInv, TakenOnce
<1>3. ASSUME NEW v \in Users PROVE Once(v)'
  BY <1>1 DEF MInv, Once, PeriodOnce, GraceOnce, Marking
<1>4. ASSUME NEW v \in Users, v \notin late' PROVE Announced(v)'
  <2>1. Announced(v)
    BY <1>1, <1>4 DEF MInv
  <2>2. Warnings(v)'
    BY <1>1, <2>1, UserTypes DEF Announced, Warnings, WarnedInTime, WarnPassDone, Marking
  <2>3. GraceHand(v)'
    BY <1>1 DEF GraceHand
  <2>4. ASSUME NEW d \in GraceAt PROVE Reminders(v, d)'
    <3>1. Reminders(v, d)
      BY <2>1 DEF Announced
    <3>2. sub[v] \in Rows /\ now \in Nat /\ d \in Nat
      BY UserTypes
    <3>3. InGrace(v) => LastDay(v, d) \in Int
      BY <3>2 DEF InGrace, LastDay, Rows
    <3>4. GracePassDone(v, d) /\ ~GracePassDone(v, d)' /\ ~Marking(v, "graceRemind")'
      BY <1>1 DEF GracePassDone, Marking
    <3>5. InGrace(v)' <=> InGrace(v)
      BY <1>1 DEF InGrace
    <3>6. LastDay(v, d)' = LastDay(v, d)
      BY <1>1 DEF LastDay
    <3> QED BY <1>1, <3>1, <3>2, <3>3, <3>4, <3>5, <3>6 DEF Reminders
  <2> QED BY <2>2, <2>3, <2>4 DEF Announced
<1> QED BY <1>2, <1>3, <1>4 DEF MInv

-----------------------------------------------------------------------------
(* The loops, and the mails.                                                *)

LEMMA MailFacts ==
  ASSUME RInv, NEW u \in Users, MailUser(u)
  PROVE  /\ UNCHANGED <<sub, lastActive, warned, files, ran, now, faults, raced, late>>
         /\ u \in job.todo /\ job.pc = "loop"
         /\ job'.pass = job.pass /\ job'.days = job.days /\ job'.day = job.day
         /\ job'.pc = "mark" /\ job'.u = u /\ job'.todo = job.todo \ {u}
         /\ \A v \in Users : v # u => mailed'[v] = mailed[v]
         /\ \/ /\ job.pass = "remind" /\ job.day \in RemindAt
               /\ \A d \in RemindAt :
                    mailed'[u].period[d] = mailed[u].period[d] + (IF d = job.day THEN 1 ELSE 0)
               /\ mailed'[u].grace = mailed[u].grace /\ mailed'[u].warning = mailed[u].warning
            \/ /\ job.pass = "graceRemind" /\ job.day \in GraceAt
               /\ \A d \in GraceAt :
                    mailed'[u].grace[d] = mailed[u].grace[d] + (IF d = job.day THEN 1 ELSE 0)
               /\ mailed'[u].period = mailed[u].period /\ mailed'[u].warning = mailed[u].warning
            \/ /\ job.pass = "warn" /\ mailed'[u].warning = now
               /\ mailed'[u].period = mailed[u].period /\ mailed'[u].grace = mailed[u].grace
<1>1. /\ UNCHANGED <<sub, lastActive, warned, files, ran, now, faults, raced, late>>
      /\ u \in job.todo /\ job.pc = "loop"
  BY DEF MailUser, Taken, requests
<1>2. /\ job'.pass = job.pass /\ job'.days = job.days /\ job'.day = job.day
      /\ job'.pc = "mark" /\ job'.u = u /\ job'.todo = job.todo \ {u}
  BY TypeJob DEF RInv, MailUser, Then, JobStates
<1>3. mailed \in [Users -> Mails] /\ mailed[u] \in Mails
  BY DEF RInv, TypeOK, Mails
<1>4. \A v \in Users : v # u => mailed'[v] = mailed[v]
  BY <1>3 DEF MailUser
<1>5. CASE job.pass = "remind"
  <2>1. job.day \in RemindAt
    BY <1>1, <1>5, DayTypes, RetentionAssumption DEF RInv, JobInPlace
  <2>2. mailed' = [mailed EXCEPT ![u].period[job.day] = @ + 1]
    BY <1>5 DEF MailUser
  <2>3. mailed'[u] = [mailed[u] EXCEPT !.period = [mailed[u].period EXCEPT ![job.day] = @ + 1]]
    BY <1>3, <2>2
  <2>4. \A d \in RemindAt :
          mailed'[u].period[d] = mailed[u].period[d] + (IF d = job.day THEN 1 ELSE 0)
    BY <1>3, <2>1, <2>3 DEF Mails
  <2>5. mailed'[u].grace = mailed[u].grace /\ mailed'[u].warning = mailed[u].warning
    BY <1>3, <2>3 DEF Mails
  <2> QED BY <1>1, <1>2, <1>4, <1>5, <2>1, <2>4, <2>5
<1>6. CASE job.pass = "graceRemind"
  <2>1. job.day \in GraceAt
    BY <1>1, <1>6, DayTypes, RetentionAssumption DEF RInv, JobInPlace
  <2>2. mailed' = [mailed EXCEPT ![u].grace[job.day] = @ + 1]
    BY <1>6 DEF MailUser
  <2>3. mailed'[u] = [mailed[u] EXCEPT !.grace = [mailed[u].grace EXCEPT ![job.day] = @ + 1]]
    BY <1>3, <2>2
  <2>4. \A d \in GraceAt :
          mailed'[u].grace[d] = mailed[u].grace[d] + (IF d = job.day THEN 1 ELSE 0)
    BY <1>3, <2>1, <2>3 DEF Mails
  <2>5. mailed'[u].period = mailed[u].period /\ mailed'[u].warning = mailed[u].warning
    BY <1>3, <2>3 DEF Mails
  <2> QED BY <1>1, <1>2, <1>4, <1>6, <2>1, <2>4, <2>5
<1>7. CASE job.pass = "warn"
  <2>1. mailed' = [mailed EXCEPT ![u].warning = now]
    BY <1>7 DEF MailUser
  <2>2. /\ mailed'[u].warning = now
        /\ mailed'[u].period = mailed[u].period /\ mailed'[u].grace = mailed[u].grace
    BY <1>3, <2>1 DEF Mails
  <2> QED BY <1>1, <1>2, <1>4, <1>7, <2>2
<1> QED BY <1>5, <1>6, <1>7 DEF MailUser

\* Only whoever has not had it gets a mail.
LEMMA MailUserMails ==
  ASSUME RInv, MInv, faults = 0, NEW u \in Users, MailUser(u)
  PROVE  MInv'
<1>1. /\ UNCHANGED <<sub, lastActive, warned, files, ran, now, faults, raced, late>>
      /\ u \in job.todo /\ job.pc = "loop"
      /\ job'.pass = job.pass /\ job'.days = job.days /\ job'.day = job.day
      /\ job'.pc = "mark" /\ job'.u = u /\ job'.todo = job.todo \ {u}
      /\ \A v \in Users : v # u => mailed'[v] = mailed[v]
      /\ job.pass \in {"remind", "graceRemind", "warn"}
  BY MailFacts
<1>2. TakenOnce'
  BY <1>1 DEF TakenOnce, Working
<1>3. ASSUME NEW v \in Users PROVE Once(v)'
  <2>1. ASSUME NEW d \in RemindAt PROVE PeriodOnce(v, d)'
    <3>1. PeriodOnce(v, d) /\ mailed[v].period[d] \in Nat
      BY UserTypes DEF MInv, Once
    <3>2. mailed'[v].period[d] =
            mailed[v].period[d] + (IF v = u /\ job.pass = "remind" /\ d = job.day THEN 1 ELSE 0)
      BY <1>1, <3>1, MailFacts
    <3> QED BY <1>1, <3>1, <3>2 DEF PeriodOnce, Marking
  <2>2. ASSUME NEW d \in GraceAt PROVE GraceOnce(v, d)'
    <3>1. GraceOnce(v, d) /\ mailed[v].grace[d] \in Nat
      BY UserTypes DEF MInv, Once
    <3>2. mailed'[v].grace[d] =
            mailed[v].grace[d] + (IF v = u /\ job.pass = "graceRemind" /\ d = job.day THEN 1 ELSE 0)
      BY <1>1, <3>1, MailFacts
    <3> QED BY <1>1, <3>1, <3>2 DEF GraceOnce, Marking
  <2> QED BY <2>1, <2>2 DEF Once
<1>4. ASSUME NEW v \in Users, v \notin late' PROVE Announced(v)'
  <2>1. Announced(v)
    BY <1>1, <1>4 DEF MInv
  <2>2. v \in Selected' <=> v \in Selected
    BY <1>1 DEF Selected
  <2>3. Warnings(v)'
    <3>1. mailed'[v].warning = IF v = u /\ job.pass = "warn" THEN now ELSE mailed[v].warning
      BY <1>1, MailFacts
    <3> QED BY <1>1, <2>1, <2>2, <3>1, UserTypes
         DEF Announced, Warnings, WarnedInTime, WarnPassDone, Marking, OnHand
  <2>4. GraceHand(v)'
    BY <1>1 DEF GraceHand
  <2>5. ASSUME NEW d \in GraceAt PROVE Reminders(v, d)'
    <3>1. Reminders(v, d) /\ mailed[v].grace[d] \in Nat
      BY <2>1, UserTypes DEF Announced
    <3>2. mailed'[v].grace[d] =
            mailed[v].grace[d] + (IF v = u /\ job.pass = "graceRemind" /\ d = job.day THEN 1 ELSE 0)
      BY <1>1, <3>1, MailFacts
    <3> QED BY <1>1, <2>2, <3>1, <3>2 DEF Reminders, InGrace, LastDay, GracePassDone, Marking
  <2> QED BY <2>3, <2>4, <2>5 DEF Announced
<1> QED BY <1>2, <1>3, <1>4 DEF MInv

\* The mark follows the mail; one that follows a renewal is late.
LEMMA MarkUserMails ==
  ASSUME RInv, MInv, faults = 0, MarkUser
  PROVE  MInv'
<1> DEFINE u == job.u
<1>1. /\ UNCHANGED <<lastActive, files, ran, now, faults, mailed, raced>>
      /\ late \subseteq late' /\ (u \in raced => u \in late') /\ job.pc = "mark" /\ u \in Users
  BY DEF MarkUser, RInv, JobInPlace
<1>2. /\ job'.pass = job.pass /\ job'.days = job.days /\ job'.day = job.day
      /\ job'.pc = "loop" /\ job'.todo = job.todo
  BY TypeJob DEF RInv, MarkUser, Done, JobStates
<1>3. u \notin job.todo
  BY <1>1 DEF MInv, TakenOnce, Working
<1>4. /\ \A v \in Users : v # u => sub'[v] = sub[v] /\ (v \in warned' <=> v \in warned)
      /\ \/ /\ job.pass = "remind" /\ warned' = warned
            /\ sub'[u].reminded = sub[u].reminded \cup {job.day}
            /\ sub'[u].graceReminded = sub[u].graceReminded
         \/ /\ job.pass = "graceRemind" /\ warned' = warned
            /\ sub'[u].graceReminded = sub[u].graceReminded \cup {job.day}
            /\ sub'[u].reminded = sub[u].reminded
         \/ job.pass = "warn" /\ sub' = sub /\ warned' = warned \cup {u}
      /\ sub'[u].status = sub[u].status /\ sub'[u].grace = sub[u].grace
  BY <1>1, TypeJob DEF MarkUser, RInv, Rows
<1> HIDE DEF u
<1>5. TakenOnce'
  BY <1>2 DEF TakenOnce, Working
<1>6. ASSUME NEW v \in Users PROVE Once(v)'
  <2>1. Once(v)
    BY DEF MInv
  <2> QED BY <1>1, <1>2, <1>3, <1>4, <2>1 DEF Once, PeriodOnce, GraceOnce, Marking, u
<1>7. ASSUME NEW v \in Users, v \notin late' PROVE Announced(v)'
  <2>1. Announced(v)
    BY <1>1, <1>7 DEF MInv
  <2>2. v \in Selected' <=> v \in Selected /\ v # u
    BY <1>1, <1>2, <1>3 DEF Selected, u
  <2>3. Warnings(v)'
    BY <1>1, <1>2, <1>3, <1>4, <1>7, <2>1, <2>2
    DEF Announced, Warnings, WarnedInTime, WarnPassDone, Marking, OnHand, PurgeDue, Inactive, u
  <2>4. GraceHand(v)'
    BY <1>2, <1>4 DEF GraceHand
  <2>5. ASSUME NEW d \in GraceAt PROVE Reminders(v, d)'
    BY <1>1, <1>2, <1>3, <1>4, <1>7, <2>1, <2>2
    DEF Announced, Reminders, InGrace, LastDay, GracePassDone, Marking, u
  <2> QED BY <2>3, <2>4, <2>5 DEF Announced
<1> QED BY <1>5, <1>6, <1>7 DEF MInv

\* A step of a deletion that leaves the rows alone.
LEMMA DeletionMails ==
  ASSUME RInv, MInv, faults = 0, job.pass \in Deleting, job'.pass = job.pass,
         UNCHANGED <<sub, lastActive, warned, ran, now, faults, mailed, raced, late>>,
         \A v \in Users : OnHand(v)' => OnHand(v),
         job'.pc # "mark", TakenOnce'
  PROVE  MInv'
<1>1. ASSUME NEW v \in Users PROVE Once(v)'
  BY DEF MInv, Once, PeriodOnce, GraceOnce, Marking, Deleting
<1>2. ASSUME NEW v \in Users, v \notin late' PROVE Announced(v)'
  <2>1. Announced(v)
    BY <1>2 DEF MInv
  <2>2. Warnings(v)'
    BY <2>1 DEF Announced, Warnings, WarnedInTime, WarnPassDone, Marking, PurgeDue, Inactive, Deleting
  <2>3. GraceHand(v)'
    BY <2>1 DEF Announced, GraceHand, GraceOver, InGrace
  <2>4. ASSUME NEW d \in GraceAt PROVE Reminders(v, d)'
    BY <2>1 DEF Announced, Reminders, InGrace, LastDay, GracePassDone, Marking, Deleting
  <2> QED BY <2>2, <2>3, <2>4 DEF Announced
<1> QED BY <1>1, <1>2 DEF MInv

LEMMA SelectFilesMails ==
  ASSUME RInv, MInv, faults = 0, NEW u \in Users, SelectFiles(u)
  PROVE  MInv'
<1>1. /\ job.pass \in Deleting /\ u \in job.todo /\ job.pc = "loop"
      /\ UNCHANGED <<sub, lastActive, warned, ran, now, faults, mailed, raced, late>>
  BY DEF SelectFiles, Taken, Deleting, requests, history
<1>2. /\ job'.pass = job.pass /\ job'.u = u /\ job'.todo = job.todo \ {u}
      /\ job'.pc \in {"delete", "clear", "loop"} /\ (job'.pc = "clear" => job.pass = "graceDelete")
  BY TypeJob DEF RInv, SelectFiles, Then, AfterFiles, JobStates
<1>3. TakenOnce'
  BY <1>2 DEF TakenOnce, Working
<1>4. \A v \in Users : OnHand(v)' => OnHand(v)
  BY <1>1, <1>2 DEF OnHand
<1> QED BY <1>1, <1>2, <1>3, <1>4, DeletionMails

LEMMA DeleteFilesMails ==
  ASSUME RInv, MInv, faults = 0, DeleteFiles
  PROVE  MInv'
<1>1. /\ job.pass \in Deleting /\ job.pc = "delete"
      /\ UNCHANGED <<sub, lastActive, warned, ran, now, faults, mailed, raced, late>>
  BY DEF DeleteFiles, RInv, JobInPlace, history
<1>2. job'.pass = job.pass /\ job'.u = job.u /\ job'.todo = job.todo /\ job'.pc = "touch"
  BY TypeJob DEF RInv, DeleteFiles, JobStates
<1>3. TakenOnce'
  BY <1>1, <1>2 DEF MInv, TakenOnce, Working
<1>4. \A v \in Users : OnHand(v)' => OnHand(v)
  BY <1>1, <1>2 DEF OnHand
<1> QED BY <1>1, <1>2, <1>3, <1>4, DeletionMails

\* A deletion counts as activity: the user is to be warned anew.
LEMMA TouchUserMails ==
  ASSUME RInv, MInv, faults = 0, TouchUser
  PROVE  MInv'
<1> DEFINE u == job.u
<1>1. /\ UNCHANGED <<sub, files, ran, now, faults, raced, late>>
      /\ job.pc = "touch" /\ job.pass \in Deleting /\ u \in Users /\ u \notin job.todo
  BY DEF TouchUser, RInv, JobInPlace, MInv, TakenOnce, Working
<1>2. /\ job'.pass = job.pass /\ job'.u = u /\ job'.todo = job.todo
      /\ job'.pc \in {"clear", "loop"} /\ (job'.pc = "clear" => job.pass = "graceDelete")
  BY TypeJob DEF RInv, TouchUser, AfterFiles, JobStates
<1>3. \A v \in Users : /\ lastActive'[v] = IF v = u THEN now ELSE lastActive[v]
                       /\ v \in warned' <=> v \in warned /\ v # u
                       /\ mailed'[v].period = mailed[v].period
                       /\ mailed'[v].grace = mailed[v].grace
                       /\ mailed'[v].warning = IF v = u THEN Never ELSE mailed[v].warning
  BY <1>1 DEF TouchUser, RInv, TypeOK
<1> HIDE DEF u
<1>4. TakenOnce'
  BY <1>1, <1>2 DEF TakenOnce, Working
<1>5. ASSUME NEW v \in Users PROVE Once(v)'
  BY <1>1, <1>2, <1>3 DEF MInv, Once, PeriodOnce, GraceOnce, Marking, Deleting
<1>6. ASSUME NEW v \in Users, v \notin late' PROVE Announced(v)'
  <2>1. Announced(v)
    BY <1>1, <1>6 DEF MInv
  <2>2. OnHand(v)' => OnHand(v) /\ v # u
    BY <1>1, <1>2 DEF OnHand
  <2>3. Warnings(v)'
    BY <1>1, <1>2, <1>3, <2>1, <2>2, UserTypes
    DEF Announced, Warnings, WarnedInTime, WarnPassDone, Marking, PurgeDue, Inactive, Deleting
  <2>4. GraceHand(v)'
    BY <1>1, <1>2, <2>1, <2>2 DEF Announced, GraceHand, GraceOver, InGrace
  <2>5. ASSUME NEW d \in GraceAt PROVE Reminders(v, d)'
    BY <1>1, <1>2, <1>3, <2>1 DEF Announced, Reminders, InGrace, LastDay, GracePassDone, Marking, Deleting
  <2> QED BY <2>3, <2>4, <2>5 DEF Announced
<1> QED BY <1>4, <1>5, <1>6 DEF MInv

LEMMA ClearGraceMails ==
  ASSUME RInv, MInv, faults = 0, ClearGrace
  PROVE  MInv'
<1> DEFINE u == job.u
<1>1. /\ UNCHANGED <<lastActive, warned, files, ran, now, faults, mailed, raced, late>>
      /\ job.pc = "clear" /\ job.pass = "graceDelete" /\ u \in Users /\ u \notin job.todo
  BY DEF ClearGrace, RInv, JobInPlace, MInv, TakenOnce, Working, history
<1>2. job'.pass = job.pass /\ job'.todo = job.todo /\ job'.pc = "loop"
  BY TypeJob DEF RInv, ClearGrace, Done, JobStates
<1>3. /\ \A v \in Users : v # u => sub'[v] = sub[v]
      /\ sub'[u].grace = Never
      /\ sub'[u].reminded = sub[u].reminded /\ sub'[u].graceReminded = sub[u].graceReminded
  BY <1>1, TypeJob DEF ClearGrace, RInv, Rows
<1> HIDE DEF u
<1>4. TakenOnce'
  BY <1>2 DEF TakenOnce, Working
<1>5. ASSUME NEW v \in Users PROVE Once(v)'
  BY <1>1, <1>2, <1>3 DEF MInv, Once, PeriodOnce, GraceOnce, Marking
<1>6. ASSUME NEW v \in Users, v \notin late' PROVE Announced(v)'
  <2>1. Announced(v)
    BY <1>1, <1>6 DEF MInv
  <2>2. OnHand(v)' => OnHand(v) /\ v # u
    BY <1>1, <1>2 DEF OnHand
  <2>3. Warnings(v)'
    BY <1>1, <1>2, <1>3, <2>1, <2>2
    DEF Announced, Warnings, WarnedInTime, WarnPassDone, Marking, PurgeDue, Inactive
  <2>4. GraceHand(v)'
    BY <1>1, <1>2, <1>3, <2>1, <2>2 DEF Announced, GraceHand, GraceOver, InGrace
  <2>5. ASSUME NEW d \in GraceAt PROVE Reminders(v, d)'
    BY <1>1, <1>2, <1>3, <2>1 DEF Announced, Reminders, InGrace, LastDay, GracePassDone, Marking
  <2> QED BY <2>3, <2>4, <2>5 DEF Announced
<1> QED BY <1>4, <1>5, <1>6 DEF MInv

-----------------------------------------------------------------------------
(* What the mails promise.                                                  *)

LEMMA MailsInit == Init => MInv
<1> SUFFICES ASSUME Init PROVE MInv
  OBVIOUS
<1>1. /\ job.pass = "idle" /\ job.pc = "query" /\ job.todo = {} /\ now = 0 /\ ~ran
      /\ \A u \in Users : /\ sub[u].status = "none" /\ sub[u].graceReminded = {}
                          /\ lastActive[u] = 0 /\ u \notin warned
                          /\ \A d \in RemindAt : mailed[u].period[d] = 0
                          /\ \A d \in GraceAt : mailed[u].grace[d] = 0
  BY IdleJob DEF Init, NoMails
<1>2. TakenOnce
  BY <1>1 DEF TakenOnce, Working
<1>3. ASSUME NEW u \in Users PROVE Once(u)
  BY <1>1 DEF Once, PeriodOnce, GraceOnce
<1>4. ASSUME NEW u \in Users PROVE Announced(u)
  BY <1>1, RetentionAssumption DEF Announced, Warnings, GraceHand, Reminders, InGrace, WarnPassDone, Marking
<1> QED BY <1>2, <1>3, <1>4 DEF MInv

LEMMA MailsNext == RInv /\ MInv /\ [Next]_vars => MInv'
<1> SUFFICES ASSUME RInv, MInv, [Next]_vars, faults' = 0 PROVE MInv'
  BY DEF MInv
<1>0. faults \in Nat /\ RInv'
  BY RetentionNext DEF RInv, TypeOK
<1>1. CASE CallFails \/ Crash
  <2>1. faults' = faults + 1
    BY <1>1 DEF CallFails, Crash
  <2> QED BY <1>0, <2>1
<1>2. CASE (\E u \in Users : Request(u)) \/ JobStep \/ Tick \/ UNCHANGED vars
  <2>0. faults = 0
    BY <1>2 DEF Request, Act, Renew, LazyExpire, Upload, JobStep, JobStarts, Query, PassEnds,
                ExpireUser, MailUser, SelectFiles, MarkUser, DeleteFiles, TouchUser, ClearGrace,
                Tick, vars
  <2>1. ASSUME NEW u \in Users, Request(u) PROVE MInv'
    <3>1. CASE Upload(u)
      BY <2>0, <3>1, SameMails DEF Upload, history
    <3> QED BY <1>0, <2>0, <2>1, <3>1, ActMails, RenewMails, LazyExpireMails DEF Request
  <2>2. CASE JobStep
    BY <2>0, <2>2, JobStartsMails, QueryMails, PassEndsMails, ExpireUserMails, MailUserMails,
       SelectFilesMails, MarkUserMails, DeleteFilesMails, TouchUserMails, ClearGraceMails
    DEF JobStep
  <2>3. CASE UNCHANGED vars
    BY <2>0, <2>3, SameMails DEF vars
  <2> QED BY <1>2, <2>0, <2>1, <2>2, <2>3, TickMails
<1> QED BY <1>1, <1>2 DEF Next

\* The invariant of the mails holds throughout.
THEOREM MailsInductive == Spec => [](RInv /\ MInv)
BY RetentionInit, RetentionNext, MailsInit, MailsNext, PTL DEF Spec

\* While no call fails no reminder is sent twice in a period or grace period, although
\* the windows of a milestone overlap several runs and mail and mark are two calls.
THEOREM NoReminderTwice == Spec => []RemindedOnce
<1>1. MInv => RemindedOnce
  BY DEF MInv, Once, PeriodOnce, GraceOnce, RemindedOnce
<1> QED BY <1>1, MailsInductive, PTL

\* Only this step deletes files.
LEMMA LosingIsDeleting ==
  ASSUME [Next]_vars, NEW u \in Users, LosesFiles(u)
  PROVE  DeleteFiles /\ job.pc = "delete" /\ u = job.u
<1>1. DeleteFiles
  BY DEF LosesFiles, vars, requests, history, Next, Request, JobStep, Act, Renew,
         LazyExpire, Upload, JobStarts, Query, PassEnds, ExpireUser, MailUser,
         MarkUser, SelectFiles, TouchUser, ClearGrace, CallFails, Crash, Tick
<1> QED BY <1>1 DEF LosesFiles, DeleteFiles

\* No data is deleted at the end of a grace period of which a milestone was not announced,
\* for any number of users and any milestones within the period, unless a call failed or
\* the user came back while the job had them selected.
THEOREM GraceIsAnnounced == Spec => GraceReminded
<1>1. ASSUME RInv, MInv, [Next]_vars, NEW u \in Users, LosesFiles(u), job.pass = "graceDelete",
             faults = 0, u \notin raced \cup late, NEW d \in GraceAt
      PROVE  mailed[u].grace[d] > 0
  <2>1. Announced(u) /\ OnHand(u)
    BY <1>1, LosingIsDeleting DEF MInv, OnHand
  <2>2. GraceOver(u)
    BY <1>1, <2>1 DEF Announced, GraceHand
  <2>3. sub[u] \in Rows /\ now \in Nat /\ d \in Nat
    BY <1>1, UserTypes
  <2>4. InGrace(u) /\ sub[u].grace \in Nat /\ now > LastDay(u, d) - 1
    BY <2>2, <2>3 DEF GraceOver, InGrace, Rows, LastDay
  <2>5. now > LastDay(u, d) \/ now = LastDay(u, d)
    BY <2>3, <2>4 DEF LastDay
  <2>6. GracePassDone(u, d)
    BY <1>1 DEF GracePassDone
  <2> QED BY <2>1, <2>4, <2>5, <2>6 DEF Announced, Reminders
<1>2. RInv /\ MInv /\ [Next]_vars =>
        [\A u \in Users :
           LosesFiles(u) /\ job.pass = "graceDelete" /\ faults = 0 /\ u \notin raced \cup late =>
             \A d \in GraceAt : mailed[u].grace[d] > 0]_vars
  BY <1>1
<1> QED BY <1>2, MailsInductive, PTL DEF Spec, GraceReminded

\* No files are purged earlier than PurgeAfter - WarnAfter days after their owner was
\* warned, with the same exceptions.
THEOREM PurgesAreAnnounced == Spec => WarnedBeforePurge
<1>1. ASSUME RInv, MInv, [Next]_vars, NEW u \in Users, LosesFiles(u), job.pass = "purge",
             faults = 0, u \notin raced \cup late
      PROVE  mailed[u].warning # Never /\ now - mailed[u].warning >= PurgeAfter - WarnAfter
  <2>1. Warnings(u) /\ OnHand(u)
    BY <1>1, LosingIsDeleting DEF MInv, OnHand, Announced
  <2>2. PurgeDue(u) /\ WarnPassDone(u)
    BY <1>1, <2>1 DEF Warnings, WarnPassDone
  <2>3. /\ lastActive[u] \in Nat /\ now \in Nat /\ WarnAfter \in Nat /\ PurgeAfter \in Nat
        /\ WarnAfter < PurgeAfter /\ mailed[u].warning \in Nat \cup {Never}
    BY <1>1, UserTypes, RetentionAssumption
  <2>4. u \in warned
    BY <2>1, <2>2, <2>3 DEF Warnings, PurgeDue, Inactive
  <2>5. WarnedInTime(u)
    BY <2>1, <2>4 DEF Warnings
  <2> QED BY <2>2, <2>3, <2>5 DEF WarnedInTime, PurgeDue, Inactive
<1>2. RInv /\ MInv /\ [Next]_vars =>
        [\A u \in Users :
           LosesFiles(u) /\ job.pass = "purge" /\ faults = 0 /\ u \notin raced \cup late =>
             mailed[u].warning # Never /\ now - mailed[u].warning >= PurgeAfter - WarnAfter]_vars
  BY <1>1
<1> QED BY <1>2, MailsInductive, PTL DEF Spec, WarnedBeforePurge

=============================================================================
