--------------------------- MODULE FilesStoresProofs ---------------------------
(***************************************************************************)
(* Proofs about Files: how rows, objects and the quota agree.              *)
(*                                                                         *)
(* SInv: without faults a listed file has its object and an object without *)
(* a row is explained.  It rests on identifiers: until the client is told, *)
(* a file is its upload's alone, and an uncontested confirmation is alone  *)
(* with its file too, so that nobody deletes what it has checked but a     *)
(* bulk deletion that then removes the bucket.                             *)
(*                                                                         *)
(* QInv: the rows whose check no other row overtook fit the quota, with    *)
(* any faults.                                                             *)
(***************************************************************************)
EXTENDS FilesProofs, Sums

\* What the calls of a handler say of the rest of its state.
InPlace(s) ==
  /\ s.pc \in {"head", "quota", "bucket", "put", "create", "undo"} =>
       s.op \in {"upload", "presign", "confirm"}
  /\ s.pc \in {"put", "undo"} => s.op = "upload"
  /\ s.pc = "create" => s.op # "presign"
  /\ s.pc \in {"erase", "unlist"} => s.op = "delete"
  /\ s.pc \in {"ids", "list", "wipe", "drop"} => s.op \in {"sweep", "purge"}
  /\ s.op \in {"sweep", "purge", "none"} => s.f = None
  /\ s.op \notin {"sweep", "purge", "none"} => s.f \in FileIds
  /\ s.op \notin {"sweep", "purge"} => s.sees = {}
  /\ s.pc = "idle" => s = Idle
  /\ s.pc = "ids" => s.op = "sweep" /\ s.scope = Buckets /\ s.todo = {}
  /\ s.pc \in {"list", "drop"} => s.todo = {}
  /\ s.todo \subseteq s.sees
  /\ s.op = "sweep" => s.next \subseteq s.scope /\ s.sees \subseteq FilesIn(s.scope)
  /\ s.op = "purge" => s.next = {}

\* A handler that may yet write a row for its file, unless a second confirmation does.
MayWrite(s) == s.op \in {"upload", "presign", "confirm"} /\ s.f \notin contested
\* It has checked that the object is there, or has put it there.
HasChecked(s) == s.pc = "create" \/ (s.op = "confirm" /\ s.pc \in {"quota", "bucket"})
\* Since then the object stays, or a bulk deletion that has listed it goes on or is over.
Held(f) ==
  \/ f \in objects
  \/ BucketOf[f] \notin buckets
  \/ \E v \in Procs : worker[v].op = "sweep" /\ f \in worker[v].sees

\* Whoever may write a row is alone with its file until then.
Claim(w) ==
  LET f == worker[w].f IN
  /\ f \notin rows
  /\ \A v \in Procs \ {w} : worker[v].f # f
  /\ \A v \in Procs : worker[v].op = "purge" => f \notin worker[v].sees
  /\ HasChecked(worker[w]) => Held(f)
  /\ worker[w].op # "confirm" /\ worker[w].pc \in {"quota", "bucket", "put"} => f \notin stored
Claims == \A w \in Procs : MayWrite(worker[w]) => Claim(w)

\* An identifier is nobody's before it is drawn, and its handler's until the client is told.
Identifiers ==
  /\ \A f \in FileIds : ids[f] = "free" => f \notin stored /\ \A w \in Procs : worker[w].f # f
  /\ \A f \in FileIds : ids[f] \in {"free", "drawn"} => f \notin rows /\ f \notin contested
  /\ \A w \in Procs :
       /\ worker[w].op \in {"upload", "presign"} => ids[worker[w].f] = "drawn"
       /\ worker[w].op \in {"confirm", "delete"} => ids[worker[w].f] \in {"url", "file"}

\* An object that was deleted comes back through a presigned URL only.
Deleted ==
  \A w \in Procs :
    /\ worker[w].sees \subseteq stored
    /\ \A f \in worker[w].sees \ worker[w].todo : ids[f] = "url" \/ f \notin objects
    /\ worker[w].pc = "unlist" => ids[worker[w].f] = "url" \/ worker[w].f \notin objects

\* OrphansExplained while handlers are under way.
Accounted ==
  \A f \in objects \ rows :
    \/ ids[f] = "url" \/ f \in missed
    \/ \E w \in Procs : worker[w].f = f /\ worker[w].pc \in {"create", "undo"} /\ worker[w].op = "upload"

\* What holds as long as nothing failed, and the inductive invariant: how the rest of a
\* process's state fits its call holds in any case.
Faultless == Claims /\ Identifiers /\ Deleted /\ Accounted /\ RowHasObject
SInv ==
  /\ \A w \in Procs : InPlace(worker[w])
  /\ faults = 0 => Faultless

-----------------------------------------------------------------------------
(* Steps without faults.                                                  *)

\* Process w moves to state s, which its call fits, and the others stay.
Moves(w, s) ==
  /\ s \in ProcState /\ InPlace(s)
  /\ worker'[w] = s
  /\ \A v \in Procs \ {w} : worker'[v] = worker[v]

LEMMA BecomeMoves ==
  ASSUME FInv, NEW w \in Procs, NEW s \in ProcState, InPlace(s), Become(w, s)
  PROVE  Moves(w, s)
BY DEF Moves, Become, FInv, TypeOK

\* What an idle process is.
LEMMA IdleInPlace ==
  /\ Idle \in ProcState /\ InPlace(Idle)
  /\ Idle.pc = "idle" /\ Idle.op = "none" /\ Idle.f = None /\ Idle.sees = {} /\ Idle.todo = {}
BY DEF Idle, ProcState, Calls, InPlace

\* What is known of the process that takes a step without faults.
LEMMA StepFacts ==
  ASSUME FInv, SInv, faults = 0, NEW w \in Procs
  PROVE  /\ worker[w] \in ProcState /\ InPlace(worker[w]) /\ Learnt(worker[w], stored)
         /\ Faultless /\ rows \subseteq stored /\ objects \subseteq stored /\ stored \subseteq FileIds
BY DEF FInv, SInv, TypeOK, RowsWereStored

\* A handler returns, or goes on with the same file, and the stores stay as they are.
KeepsStores == UNCHANGED <<buckets, rows, objects, ids, stored, contested, missed>>
Same(s, o) == s.op = o.op /\ s.f = o.f /\ s.sees = o.sees /\ s.todo = o.todo

LEMMA GoesOn ==
  ASSUME FInv, SInv, faults = 0, KeepsStores, NEW w \in Procs, NEW s, Moves(w, s),
         \/ s = Idle /\ worker[w].op \in {"upload", "presign", "confirm"}
                     /\ worker[w].pc \notin {"undo"}
                     /\ (worker[w].pc = "create" => worker[w].op # "upload")
         \/ /\ Same(s, worker[w])
            /\ HasChecked(s) => HasChecked(worker[w]) \/ s.f \in objects
            /\ s.op # "confirm" /\ s.pc \in {"quota", "bucket", "put"} => worker[w].pc \in {"quota", "bucket", "put"}
            /\ s.pc # "unlist"
            /\ worker[w].pc = "create" => s.pc = "undo"
            /\ worker[w].pc # "undo"
  PROVE  Faultless'
<1> DEFINE o == worker[w]
<1>0. InPlace(o) /\ o \in ProcState /\ Faultless /\ Learnt(o, stored)
  BY StepFacts
<1>1. UNCHANGED <<buckets, rows, objects, ids, stored, contested, missed>>
  BY DEF KeepsStores
<1>2. /\ worker'[w] = s /\ \A v \in Procs \ {w} : worker'[v] = worker[v]
      /\ s \in ProcState /\ InPlace(s)
  BY DEF Moves
<1>3. CASE Same(s, o)
  <2>1. /\ HasChecked(s) => HasChecked(o) \/ s.f \in objects
        /\ s.op # "confirm" /\ s.pc \in {"quota", "bucket", "put"} => o.pc \in {"quota", "bucket", "put"}
        /\ s.pc # "unlist"
        /\ o.pc = "create" => s.pc = "undo"
        /\ o.pc # "undo"
        /\ s.op = o.op /\ s.f = o.f /\ s.sees = o.sees /\ s.todo = o.todo
    BY <1>3, IdleInPlace DEF Same, o
  <2>2. Claims'
    <3> SUFFICES ASSUME NEW v \in Procs, MayWrite(worker[v])' PROVE Claim(v)'
      BY DEF Claims
    <3>1. MayWrite(worker[v]) /\ Claim(v)
      BY <1>0, <1>1, <1>2, <2>1 DEF Claims, MayWrite, o, Faultless
    <3> QED BY <3>1, <1>1, <1>2, <2>1 DEF MayWrite, HasChecked, Held, Claim, o
  <2>3. Identifiers' /\ Accounted'
    BY <1>0, <1>1, <1>2, <2>1 DEF Faultless, Identifiers, Accounted, o
  <2>4. Deleted' /\ RowHasObject'
    BY <1>0, <1>1, <1>2, <2>1 DEF Faultless, Deleted, RowHasObject, BeingDeleted, o
  <2> QED BY <2>2, <2>3, <2>4 DEF Faultless
<1>4. CASE ~Same(s, o)
  <2>1. /\ s.pc = "idle" /\ s.op = "none" /\ s.f = None /\ s.sees = {} /\ s.todo = {}
        /\ o.op \in {"upload", "presign", "confirm"} /\ o.sees = {} /\ o.pc # "undo"
        /\ o.pc = "create" => o.op # "upload"
    BY <1>0, <1>4, IdleInPlace DEF InPlace
  <2>2. Claims'
    <3> SUFFICES ASSUME NEW v \in Procs, MayWrite(worker[v])' PROVE Claim(v)'
      BY DEF Claims
    <3>1. MayWrite(worker[v]) /\ Claim(v) /\ v # w /\ worker[v].f # None
      BY <1>0, <1>1, <1>2, <2>1, FilesAssumption DEF Claims, MayWrite, o, Faultless, SInv, InPlace
    <3> QED BY <3>1, <1>1, <1>2, <2>1 DEF MayWrite, HasChecked, Held, Claim, o
  <2>3. Identifiers' /\ Accounted'
    BY <1>0, <1>1, <1>2, <2>1, FilesAssumption DEF Faultless, Identifiers, Accounted, o
  <2>4. Deleted' /\ RowHasObject'
    BY <1>0, <1>1, <1>2, <2>1 DEF Faultless, Deleted, RowHasObject, BeingDeleted, o
  <2> QED BY <2>2, <2>3, <2>4 DEF Faultless
<1> QED BY <1>3, <1>4

\* A handler that is idle begins.
LEMMA Begins ==
  ASSUME FInv, SInv, faults = 0, NEW w \in Procs, NEW s, Moves(w, s),
         worker[w].pc = "idle", UNCHANGED <<buckets, rows, objects, stored, missed>>,
         \/ /\ s.op \in {"upload", "presign"} /\ s.pc = "quota" /\ s.f \in FileIds
            /\ ids[s.f] = "free" /\ ids' = [ids EXCEPT ![s.f] = "drawn"]
            /\ s.sees = {} /\ contested' = contested
         \/ /\ s.op = "confirm" /\ s.pc = "head" /\ s.f \in FileIds /\ ids[s.f] \in {"url", "file"}
            /\ contested' = IF s.f \in rows \/ WorkedOn(s.f) THEN contested \cup {s.f} ELSE contested
            /\ s.sees = {} /\ ids' = ids
         \/ /\ s.op = "delete" /\ s.pc = "erase" /\ s.f \in rows
            /\ s.sees = {} /\ ids' = ids /\ contested' = contested
         \/ /\ s.op = "sweep" /\ s.pc \in {"ids", "list"} /\ s.sees = {} /\ ids' = ids /\ contested' = contested
         \/ /\ s.op = "purge" /\ s.pc = "wipe" /\ s.sees = rows /\ s.todo = rows
            /\ ids' = ids /\ contested' = contested
  PROVE  Faultless'
<1> DEFINE o == worker[w]
<1>0. /\ InPlace(o) /\ o \in ProcState /\ Faultless
      /\ rows \subseteq stored /\ objects \subseteq stored /\ stored \subseteq FileIds
      /\ ids \in [FileIds -> {"free", "drawn", "url", "file"}]
  BY StepFacts DEF FInv, TypeOK
<1>1. UNCHANGED <<buckets, rows, objects, stored, missed>>
  OBVIOUS
<1>2. /\ worker'[w] = s /\ \A v \in Procs \ {w} : worker'[v] = worker[v]
      /\ s \in ProcState /\ InPlace(s)
  BY DEF Moves
<1>3. o.pc = "idle" /\ o.op = "none" /\ o.f = None /\ o.sees = {} /\ o.todo = {}
  BY <1>0, IdleInPlace DEF InPlace
<1> USE <1>0, <1>1, <1>2, <1>3
<1>4. CASE /\ s.op \in {"upload", "presign"} /\ s.pc = "quota" /\ s.f \in FileIds
           /\ ids[s.f] = "free" /\ ids' = [ids EXCEPT ![s.f] = "drawn"]
           /\ s.sees = {} /\ contested' = contested
  <2>0. \A f \in FileIds : ids'[f] = IF f = s.f THEN "drawn" ELSE ids[f]
    BY <1>4
  <2>1. s.f \notin stored /\ s.f \notin rows /\ \A v \in Procs : worker[v].f # s.f
    BY <1>4 DEF Faultless, Identifiers
  <2>2. Claims'
    <3> SUFFICES ASSUME NEW v \in Procs, MayWrite(worker[v])' PROVE Claim(v)'
      BY DEF Claims
    <3>1. CASE v = w
      <4>1. \A u \in Procs : worker[u].op = "purge" => s.f \notin worker[u].sees
        BY <2>1 DEF Faultless, Deleted
      <4> QED BY <1>4, <2>1, <3>1, <4>1 DEF Claim, HasChecked
    <3>2. CASE v # w
      <4>1. MayWrite(worker[v]) /\ Claim(v)
        BY <1>4, <3>2 DEF Claims, MayWrite, Faultless
      <4> QED BY <1>4, <2>1, <3>2, <4>1 DEF Claim, HasChecked, Held
    <3> QED BY <3>1, <3>2
  <2>3. Identifiers'
    <3>1. \A v \in Procs \ {w} : worker[v].f \in FileIds => ids'[worker[v].f] = ids[worker[v].f]
      BY <2>0, <2>1
    <3>2. \A f \in FileIds : ids'[f] = "free" => f \notin stored /\ \A v \in Procs : worker'[v].f # f
      BY <2>0, <1>4 DEF Faultless, Identifiers
    <3>3. \A f \in FileIds : ids'[f] \in {"free", "drawn"} => f \notin rows /\ f \notin contested
      BY <2>0, <1>4 DEF Faultless, Identifiers
    <3>4. \A v \in Procs : /\ worker'[v].op \in {"upload", "presign"} => ids'[worker'[v].f] = "drawn"
                           /\ worker'[v].op \in {"confirm", "delete"} => ids'[worker'[v].f] \in {"url", "file"}
      BY <2>0, <3>1, <1>4 DEF Faultless, Identifiers, SInv, InPlace
    <3> QED BY <1>4, <3>2, <3>3, <3>4 DEF Identifiers
  <2>4. Deleted'
    BY <1>4, <2>0, <2>1 DEF Faultless, Deleted, SInv, InPlace
  <2>5. Accounted'
    BY <1>4, <2>0, <2>1 DEF Faultless, Accounted
  <2>6. RowHasObject'
    BY <1>4, <2>1 DEF Faultless, RowHasObject, BeingDeleted
  <2> QED BY <2>2, <2>3, <2>4, <2>5, <2>6 DEF Faultless
<1>5. CASE /\ s.op = "confirm" /\ s.pc = "head" /\ s.f \in FileIds /\ ids[s.f] \in {"url", "file"}
           /\ contested' = IF s.f \in rows \/ WorkedOn(s.f) THEN contested \cup {s.f} ELSE contested
           /\ s.sees = {} /\ ids' = ids
  <2>1. contested \subseteq contested' /\ contested' \subseteq contested \cup {s.f}
        /\ (s.f \notin contested' => s.f \notin rows /\ \A v \in Procs : worker[v].f # s.f /\ s.f \notin worker[v].sees)
        /\ (\A v \in Procs : worker[v].f = s.f => s.f \in contested')
    BY <1>5 DEF WorkedOn
  <2>2. Claims'
    <3> SUFFICES ASSUME NEW v \in Procs, MayWrite(worker[v])' PROVE Claim(v)'
      BY DEF Claims
    <3>1. CASE v = w
      BY <1>5, <2>1, <3>1 DEF Claim, HasChecked, MayWrite
    <3>2. CASE v # w
      <4>1. MayWrite(worker[v]) /\ Claim(v) /\ worker[v].f # s.f
        BY <1>5, <2>1, <3>2 DEF Claims, MayWrite, Faultless
      <4> QED BY <1>5, <3>2, <4>1 DEF Claim, HasChecked, Held
    <3> QED BY <3>1, <3>2
  <2>3. Identifiers'
    BY <1>5, <2>1 DEF Faultless, Identifiers
  <2>4. Deleted' /\ Accounted'
    BY <1>5 DEF Faultless, Deleted, Accounted, InPlace
  <2>5. RowHasObject'
    BY <1>5, <2>1 DEF Faultless, RowHasObject, BeingDeleted
  <2> QED BY <2>2, <2>3, <2>4, <2>5 DEF Faultless
<1>6. CASE ids' = ids /\ contested' = contested /\ s.op \in {"delete", "sweep", "purge"}
  <2>1. /\ s.sees \subseteq rows /\ s.todo = s.sees /\ s.pc # "unlist"
        /\ s.f # None => s.f \in rows
        /\ s.op = "delete" => s.f \in FileIds /\ s.f \in rows
    BY <1>6 DEF InPlace
  <2>2. Claims'
    <3> SUFFICES ASSUME NEW v \in Procs, MayWrite(worker[v])' PROVE Claim(v)'
      BY DEF Claims
    <3>1. MayWrite(worker[v]) /\ Claim(v) /\ worker[v].f # s.f /\ v # w /\ worker[v].f \notin s.sees
      BY <1>6, <2>1, FilesAssumption DEF Claims, MayWrite, Faultless, SInv, InPlace, Claim
    <3> QED BY <1>6, <3>1 DEF Claim, HasChecked, Held
  <2>3. Identifiers'
    BY <1>6, <2>1, FilesAssumption DEF Faultless, Identifiers
  <2>4. Deleted' /\ Accounted'
    BY <1>6, <2>1 DEF Faultless, Deleted, Accounted
  <2>5. RowHasObject'
    BY <1>6 DEF Faultless, RowHasObject, BeingDeleted
  <2> QED BY <2>2, <2>3, <2>4, <2>5 DEF Faultless
<1> QED BY <1>4, <1>5, <1>6

\* What a step without faults of process w begins with.
Before(w, s) ==
  /\ worker[w] \in ProcState /\ InPlace(worker[w]) /\ Learnt(worker[w], stored)
  /\ Faultless /\ rows \subseteq stored /\ objects \subseteq stored /\ stored \subseteq FileIds
  /\ ids \in [FileIds -> {"free", "drawn", "url", "file"}]
  /\ s \in ProcState /\ InPlace(s) /\ worker'[w] = s
  /\ \A v \in Procs \ {w} : worker'[v] = worker[v]

LEMMA StepBegins ==
  ASSUME FInv, SInv, faults = 0, NEW w \in Procs, NEW s \in ProcState, InPlace(s), Become(w, s)
  PROVE  Before(w, s)
BY StepFacts, BecomeMoves DEF Before, Moves, FInv, TypeOK

LEMMA ReturnBegins ==
  ASSUME FInv, SInv, faults = 0, NEW w \in Procs, Return(w)
  PROVE  \E s : /\ Before(w, s)
                /\ s.pc = "idle" /\ s.op = "none" /\ s.f = None /\ s.sees = {} /\ s.todo = {}
BY IdleInPlace, StepBegins DEF Return

LEMMA GotoBegins ==
  ASSUME FInv, SInv, faults = 0, NEW w \in Procs, NEW pc \in Calls, Goto(w, pc),
         InPlace([worker[w] EXCEPT !.pc = pc])
  PROVE  \E s : /\ Before(w, s) /\ s.pc = pc /\ Same(s, worker[w])
<1>1. [worker[w] EXCEPT !.pc = pc] \in ProcState /\ Same([worker[w] EXCEPT !.pc = pc], worker[w])
  BY StepFacts DEF ProcState, Calls, Same
<1>2. [worker[w] EXCEPT !.pc = pc].pc = pc
  BY StepFacts DEF ProcState
<1> QED BY <1>1, <1>2, StepBegins DEF Goto

\* PresignUpload tells the client its URL.
LEMMA PresignEnds ==
  ASSUME FInv, SInv, faults = 0, NEW w \in Procs, Return(w), worker[w].op = "presign",
         UNCHANGED <<buckets, rows, objects, stored, contested, missed>>, Tell(worker[w].f, "url")
  PROVE  Faultless'
<1> DEFINE o == worker[w]
<1>1. PICK s : Before(w, s) /\ s.pc = "idle" /\ s.op = "none" /\ s.f = None /\ s.sees = {} /\ s.todo = {}
  BY ReturnBegins
<1> USE <1>1, FilesAssumption DEF Before
<1>2. o.f \in FileIds /\ ids[o.f] = "drawn" /\ o.f \notin contested /\ o.sees = {}
      /\ (\A v \in Procs \ {w} : worker[v].f # o.f) /\ o.f \notin rows
  BY DEF Faultless, Identifiers, InPlace, Claims, Claim, MayWrite
<1>3. \A f \in FileIds : ids'[f] = IF f = o.f THEN "url" ELSE ids[f]
  BY <1>2 DEF Tell
<1>4. Claims'
  <2> SUFFICES ASSUME NEW v \in Procs, MayWrite(worker[v])' PROVE Claim(v)'
    BY DEF Claims
  <2>1. MayWrite(worker[v]) /\ Claim(v) /\ v # w /\ worker[v].f # None
    BY FilesAssumption DEF Claims, MayWrite, Faultless, SInv, InPlace
  <2> QED BY <2>1, <1>2 DEF HasChecked, Held, Claim
<1>5. Identifiers'
  BY <1>2, <1>3 DEF Faultless, Identifiers, SInv, InPlace
<1>6. Deleted' /\ Accounted' /\ RowHasObject'
  BY <1>2, <1>3 DEF Faultless, Deleted, Accounted, RowHasObject, BeingDeleted, SInv, InPlace
<1> QED BY <1>4, <1>5, <1>6 DEF Faultless

LEMMA PutStores ==
  ASSUME FInv, SInv, faults = 0, NEW w \in Procs, Put(w)
  PROVE  Faultless'
<1> DEFINE o == worker[w]
<1>0. InPlace([o EXCEPT !.pc = "create"]) /\ "create" \in Calls
  BY StepFacts DEF Put, At, InPlace, Calls, ProcState
<1>1. PICK s : Before(w, s) /\ s.pc = "create" /\ Same(s, o)
  BY <1>0, GotoBegins DEF Put
<1> USE <1>1, FilesAssumption DEF Before, Same
<1>2. /\ o.pc = "put" /\ o.op = "upload" /\ UNCHANGED <<buckets, rows, ids, contested, missed>>
      /\ objects' = objects \cup {o.f} /\ stored' = stored \cup {o.f}
  BY DEF Put, Store, At, InPlace
<1>3. o.f \in FileIds /\ ids[o.f] = "drawn" /\ o.f \notin contested /\ o.sees = {} /\ o.f \notin stored
      /\ (\A v \in Procs \ {w} : worker[v].f # o.f) /\ o.f \notin rows
  BY <1>2 DEF Faultless, Identifiers, InPlace, Claims, Claim, MayWrite
<1>4. \A v \in Procs : o.f \notin worker[v].sees
  BY <1>3 DEF Faultless, Deleted
<1>5. Claims'
  <2> SUFFICES ASSUME NEW v \in Procs, MayWrite(worker[v])' PROVE Claim(v)'
    BY DEF Claims
  <2>1. MayWrite(worker[v]) /\ Claim(v)
    BY <1>2 DEF Claims, MayWrite, Faultless
  <2> QED BY <2>1, <1>2, <1>3 DEF HasChecked, Held, Claim
<1>6. Identifiers'
  BY <1>2, <1>3 DEF Faultless, Identifiers, SInv, InPlace
<1>7. Deleted' /\ Accounted' /\ RowHasObject'
  BY <1>2, <1>3, <1>4 DEF Faultless, Deleted, Accounted, RowHasObject, BeingDeleted, SInv, InPlace
<1> QED BY <1>5, <1>6, <1>7 DEF Faultless

\* A row is written: nobody else may write it, and its object is held.
LEMMA RowWritten ==
  ASSUME FInv, SInv, faults = 0, NEW w \in Procs, At(w, "create"), Insertable(worker[w].f), Return(w),
         rows' = rows \cup {worker[w].f},
         ids' = IF worker[w].op = "upload" THEN [ids EXCEPT ![worker[w].f] = "file"] ELSE ids,
         UNCHANGED <<buckets, objects, stored, contested, missed>>
  PROVE  Faultless'
<1> DEFINE o == worker[w]
<1>1. PICK s : Before(w, s) /\ s.pc = "idle" /\ s.op = "none" /\ s.f = None /\ s.sees = {} /\ s.todo = {}
  BY ReturnBegins
<1> USE <1>1, FilesAssumption DEF Before
<1>2. o.f \in FileIds /\ o.pc = "create" /\ o.sees = {} /\ o.op \in {"upload", "confirm"}
      /\ BucketOf[o.f] \in buckets /\ o.f \notin rows
  BY DEF InPlace, At, Insertable
<1>3. /\ \A f \in FileIds : ids'[f] = IF f = o.f /\ o.op = "upload" THEN "file" ELSE ids[f]
      /\ o.op = "upload" => ids[o.f] = "drawn" /\ o.f \notin contested
      /\ o.op = "confirm" => ids[o.f] \in {"url", "file"}
      /\ o.f \notin contested => Claim(w)
  BY <1>2 DEF Faultless, Identifiers, Claims, MayWrite
<1>4. \A v \in Procs \ {w} : MayWrite(worker[v]) => worker[v].f # o.f
  BY <1>2, <1>3 DEF Faultless, Claims, Claim, MayWrite
<1>5. Claims'
  <2> SUFFICES ASSUME NEW v \in Procs, MayWrite(worker[v])' PROVE Claim(v)'
    BY DEF Claims
  <2>1. MayWrite(worker[v]) /\ Claim(v) /\ v # w /\ worker[v].f # None
    BY FilesAssumption DEF Claims, MayWrite, Faultless, SInv, InPlace
  <2> QED BY <2>1, <1>2, <1>4 DEF HasChecked, Held, Claim
<1>6. Identifiers'
  BY <1>2, <1>3, <1>4 DEF Faultless, Identifiers, SInv, InPlace, Claim, MayWrite
<1>7. Deleted' /\ Accounted'
  BY <1>2, <1>3 DEF Faultless, Deleted, Accounted, SInv, InPlace, Claim
<1>8. RowHasObject'
  <2> SUFFICES ASSUME NEW f \in rows' \ contested PROVE f \in objects \/ BeingDeleted(f)'
    BY DEF RowHasObject
  <2>1. CASE f = o.f
    <3>1. Held(f)
      BY <1>2, <1>3, <2>1 DEF Claim, HasChecked
    <3> QED BY <3>1, <1>2, <2>1 DEF Held, BeingDeleted
  <2>2. CASE f \in rows
    BY <1>2, <2>2 DEF Faultless, RowHasObject, BeingDeleted
  <2> QED BY <2>1, <2>2
<1> QED BY <1>5, <1>6, <1>7, <1>8 DEF Faultless

LEMMA UndoDeletes ==
  ASSUME FInv, SInv, faults = 0, NEW w \in Procs, Undo(w)
  PROVE  Faultless'
<1> DEFINE o == worker[w]
<1>1. PICK s : Before(w, s) /\ s.pc = "idle" /\ s.op = "none" /\ s.f = None /\ s.sees = {} /\ s.todo = {}
  BY ReturnBegins DEF Undo
<1> USE <1>1, FilesAssumption DEF Before
<1>2. /\ o.f \in FileIds /\ o.sees = {} /\ o.op = "upload"
      /\ objects' = objects \ {o.f}
      /\ UNCHANGED <<buckets, rows, ids, stored, contested, missed>>
  BY DEF InPlace, At, Undo, history
<1>3. /\ ids[o.f] = "drawn" /\ o.f \notin rows /\ o.f \notin contested
      /\ \A v \in Procs \ {w} : worker[v].f # o.f
  BY <1>2 DEF Faultless, Identifiers, Claims, MayWrite, Claim
<1>4. Claims'
  <2> SUFFICES ASSUME NEW v \in Procs, MayWrite(worker[v])' PROVE Claim(v)'
    BY DEF Claims
  <2>1. MayWrite(worker[v]) /\ Claim(v) /\ v # w /\ worker[v].f # None
    BY <1>2 DEF Claims, MayWrite, Faultless, SInv, InPlace
  <2> QED BY <2>1, <1>2, <1>3 DEF HasChecked, Held, Claim
<1>5. Identifiers'
  BY <1>2, <1>3 DEF Faultless, Identifiers, SInv, InPlace
<1>6. Deleted' /\ Accounted' /\ RowHasObject'
  BY <1>2, <1>3 DEF Faultless, Deleted, Accounted, RowHasObject, BeingDeleted, SInv, InPlace
<1> QED BY <1>4, <1>5, <1>6 DEF Faultless

LEMMA EraseDeletes ==
  ASSUME FInv, SInv, faults = 0, NEW w \in Procs, Erase(w)
  PROVE  Faultless'
<1> DEFINE o == worker[w]
<1>0. InPlace([o EXCEPT !.pc = "unlist"]) /\ "unlist" \in Calls
  BY StepFacts DEF Erase, At, InPlace, Calls, ProcState
<1>1. PICK s : Before(w, s) /\ s.pc = "unlist" /\ Same(s, o)
  BY <1>0, GotoBegins DEF Erase
<1> USE <1>1, FilesAssumption DEF Before, Same
<1>2. /\ o.f \in FileIds /\ o.sees = {} /\ o.op = "delete" /\ o.pc = "erase"
      /\ objects' = objects \ {o.f}
      /\ UNCHANGED <<buckets, rows, ids, stored, contested, missed>>
  BY DEF InPlace, At, Erase, history
<1>3. \A v \in Procs : MayWrite(worker[v]) => worker[v].f # o.f
  BY <1>2 DEF Faultless, Claims, Claim, MayWrite
<1>4. Claims'
  <2> SUFFICES ASSUME NEW v \in Procs, MayWrite(worker[v])' PROVE Claim(v)'
    BY DEF Claims
  <2>1. MayWrite(worker[v]) /\ Claim(v) /\ v # w /\ worker[v].f # None
    BY <1>2 DEF Claims, MayWrite, Faultless, SInv, InPlace
  <2> QED BY <2>1, <1>2, <1>3 DEF HasChecked, Held, Claim
<1>5. Identifiers'
  BY <1>2, <1>3 DEF Faultless, Identifiers, SInv, InPlace
<1>6. Deleted' /\ Accounted' /\ RowHasObject'
  BY <1>2, <1>3 DEF Faultless, Deleted, Accounted, RowHasObject, BeingDeleted, SInv, InPlace
<1> QED BY <1>4, <1>5, <1>6 DEF Faultless

LEMMA UnlistDeletes ==
  ASSUME FInv, SInv, faults = 0, NEW w \in Procs, Unlist(w)
  PROVE  Faultless'
<1> DEFINE o == worker[w]
<1>1. PICK s : Before(w, s) /\ s.pc = "idle" /\ s.op = "none" /\ s.f = None /\ s.sees = {} /\ s.todo = {}
  BY ReturnBegins DEF Unlist
<1> USE <1>1, FilesAssumption DEF Before
<1>2. /\ o.f \in FileIds /\ o.sees = {} /\ o.op = "delete" /\ o.pc = "unlist"
      /\ rows' = rows \ {o.f}
      /\ UNCHANGED <<buckets, objects, ids, stored, contested, missed>>
  BY DEF InPlace, At, Unlist, history
<1>3. Claims'
  <2> SUFFICES ASSUME NEW v \in Procs, MayWrite(worker[v])' PROVE Claim(v)'
    BY DEF Claims
  <2>1. MayWrite(worker[v]) /\ Claim(v) /\ v # w /\ worker[v].f # None
    BY <1>2 DEF Claims, MayWrite, Faultless, SInv, InPlace
  <2> QED BY <2>1, <1>2 DEF HasChecked, Held, Claim
<1>4. Identifiers'
  BY <1>2 DEF Faultless, Identifiers, SInv, InPlace
<1>5. Deleted' /\ Accounted' /\ RowHasObject'
  BY <1>2 DEF Faultless, Deleted, Accounted, RowHasObject, BeingDeleted, SInv, InPlace
<1> QED BY <1>3, <1>4, <1>5 DEF Faultless

\* A bulk deletion goes on.
LEMMA OnwardBegins ==
  ASSUME FInv, SInv, faults = 0, NEW w \in Procs, NEW t \in ProcState, Become(w, Onward(t)),
         t.op \in {"sweep", "purge"}, t.f = None, t.todo \subseteq t.sees,
         t.op = "sweep" => t.next \subseteq t.scope /\ t.sees \subseteq FilesIn(t.scope),
         t.op = "purge" => t.next = {}
  PROVE  \E s : Before(w, s) /\ s.pc \in {"wipe", "list", "drop"} /\ Same(s, t)
<1>1. Onward(t) \in ProcState /\ Onward(t).pc \in {"wipe", "list", "drop"} /\ Same(Onward(t), t)
      /\ Onward(t).next = t.next /\ Onward(t).scope = t.scope
      /\ (Onward(t).pc \in {"list", "drop"} => t.todo = {})
  BY DEF Onward, ProcState, Calls, Same
<1>2. InPlace(Onward(t))
  BY <1>1 DEF InPlace, Same
<1> QED BY <1>1, <1>2, StepBegins

LEMMA IDsListed ==
  ASSUME FInv, SInv, faults = 0, NEW w \in Procs, ListIDsByProject(w)
  PROVE  Faultless'
<1> DEFINE o == worker[w]
           t == [o EXCEPT !.next = buckets]
<1>1. /\ t \in ProcState /\ t.op \in {"sweep", "purge"} /\ t.f = None /\ t.todo \subseteq t.sees
      /\ t.op = "sweep" /\ t.next \subseteq t.scope /\ t.sees \subseteq FilesIn(t.scope)
      /\ Become(w, Onward(t)) /\ Same(t, o)
  BY StepFacts DEF ListIDsByProject, At, InPlace, ProcState, Same, FInv, TypeOK
<1> HIDE DEF t
<1>2. PICK s : Before(w, s) /\ s.pc \in {"wipe", "list", "drop"} /\ Same(s, t)
  BY <1>1, OnwardBegins
<1>3. KeepsStores
  BY DEF ListIDsByProject, KeepsStores, stores, history
<1>4. Moves(w, s) /\ Same(s, o) /\ o.pc = "ids" /\ s.op = "sweep"
  BY <1>1, <1>2 DEF Before, Moves, Same, ListIDsByProject, At
<1> QED BY <1>2, <1>3, <1>4, GoesOn DEF HasChecked

LEMMA ObjectsListed ==
  ASSUME FInv, SInv, faults = 0, NEW w \in Procs, NEW b \in Buckets, ListObjects(w, b)
  PROVE  Faultless'
<1> DEFINE o == worker[w]
           found == objects \cap FilesIn({b})
           t == [o EXCEPT !.next = @ \ {b}, !.todo = found, !.sees = @ \cup found]
<1>1. /\ o \in ProcState /\ InPlace(o) /\ o.pc = "list" /\ b \in o.next /\ o.op = "sweep"
      /\ found \subseteq objects /\ objects \subseteq FileIds
  BY StepFacts DEF ListObjects, At, InPlace
<1>2. found \subseteq FilesIn(o.scope)
  BY <1>1 DEF FilesIn, InPlace
<1>3. Become(w, Onward(t)) /\ KeepsStores
  BY DEF ListObjects, KeepsStores, stores, history
<1> HIDE DEF found
<1>4. /\ t \in ProcState /\ t.op = "sweep" /\ t.f = None /\ t.todo \subseteq t.sees
      /\ t.next \subseteq t.scope /\ t.sees \subseteq FilesIn(t.scope)
      /\ t.sees = o.sees \cup found /\ t.todo = found
  BY <1>1, <1>2 DEF InPlace, ProcState
<1> HIDE DEF t
<1>5. PICK s : Before(w, s) /\ s.pc \in {"wipe", "list", "drop"} /\ Same(s, t)
  BY <1>3, <1>4, OnwardBegins
<1>6. /\ s.op = "sweep" /\ s.f = None /\ s.todo = found /\ s.sees = o.sees \cup found /\ o.f = None
      /\ UNCHANGED <<buckets, rows, objects, ids, stored, contested, missed>>
  BY <1>1, <1>3, <1>4, <1>5 DEF Same, KeepsStores, InPlace
<1> USE <1>1, <1>5, <1>6, FilesAssumption DEF Before
<1>7. o.todo = {}
  BY DEF InPlace
<1>8. Claims'
  <2> SUFFICES ASSUME NEW v \in Procs, MayWrite(worker[v])' PROVE Claim(v)'
    BY DEF Claims
  <2>1. MayWrite(worker[v]) /\ Claim(v) /\ v # w /\ worker[v].f # None
    BY DEF Claims, MayWrite, Faultless, SInv, InPlace
  <2> QED BY <2>1 DEF HasChecked, Held, Claim
<1>9. Identifiers'
  BY DEF Faultless, Identifiers, SInv, InPlace
<1>10. Deleted' /\ Accounted' /\ RowHasObject'
  BY <1>7 DEF Faultless, Deleted, Accounted, RowHasObject, BeingDeleted, SInv, InPlace
<1> QED BY <1>8, <1>9, <1>10 DEF Faultless

LEMMA FileWiped ==
  ASSUME FInv, SInv, faults = 0, NEW w \in Procs, NEW f \in FileIds, Wipe(w, f)
  PROVE  Faultless'
<1> DEFINE o == worker[w]
           t == [o EXCEPT !.todo = @ \ {f}]
<1>1. o \in ProcState /\ InPlace(o) /\ o.pc = "wipe" /\ f \in o.todo /\ o.op \in {"sweep", "purge"}
  BY StepFacts DEF Wipe, At, InPlace
<1>2. /\ Become(w, Onward(t)) /\ objects' = objects \ {f}
      /\ UNCHANGED <<buckets, rows, ids, stored, contested, missed>>
  BY DEF Wipe, history
<1>3. /\ t \in ProcState /\ t.op = o.op /\ t.f = None /\ t.todo \subseteq t.sees
      /\ t.op = "sweep" => t.next \subseteq t.scope /\ t.sees \subseteq FilesIn(t.scope)
      /\ t.op = "purge" => t.next = {}
      /\ t.sees = o.sees /\ t.todo = o.todo \ {f}
  BY <1>1 DEF InPlace, ProcState
<1> HIDE DEF t
<1>4. PICK s : Before(w, s) /\ s.pc \in {"wipe", "list", "drop"} /\ Same(s, t)
  BY <1>1, <1>2, <1>3, OnwardBegins
<1>5. /\ s.op = o.op /\ s.f = None /\ s.todo = o.todo \ {f} /\ s.sees = o.sees /\ o.f = None /\ f \in o.sees
  BY <1>1, <1>3, <1>4 DEF Same, InPlace
<1> USE <1>1, <1>2, <1>4, <1>5, FilesAssumption DEF Before
<1>6. Claims'
  <2> SUFFICES ASSUME NEW v \in Procs, MayWrite(worker[v])' PROVE Claim(v)'
    BY DEF Claims
  <2>1. MayWrite(worker[v]) /\ Claim(v) /\ v # w /\ worker[v].f # None
    BY DEF Claims, MayWrite, Faultless, SInv, InPlace
  <2> QED BY <2>1 DEF HasChecked, Held, Claim
<1>7. Identifiers'
  BY DEF Faultless, Identifiers, SInv, InPlace
<1>8. Deleted' /\ Accounted'
  BY DEF Faultless, Deleted, Accounted
<1>9. RowHasObject'
  BY DEF Faultless, RowHasObject, BeingDeleted
<1> QED BY <1>6, <1>7, <1>8, <1>9 DEF Faultless

LEMMA RowsDropped ==
  ASSUME FInv, SInv, faults = 0, NEW w \in Procs, Drop(w)
  PROVE  Faultless'
<1> DEFINE o == worker[w]
<1>1. PICK s : Before(w, s) /\ s.pc = "idle" /\ s.op = "none" /\ s.f = None /\ s.sees = {} /\ s.todo = {}
  BY ReturnBegins DEF Drop
<1> USE <1>1, FilesAssumption DEF Before
<1>2. /\ o.pc = "drop" /\ o.op \in {"sweep", "purge"} /\ o.todo = {} /\ o.f = None
      /\ o.op = "sweep" => o.sees \subseteq FilesIn(o.scope)
      /\ buckets' = buckets \ o.scope /\ rows' = rows \ Doomed(w)
      /\ missed' = missed \cup (Doomed(w) \ o.sees) /\ Doomed(w) \subseteq rows
      /\ UNCHANGED <<objects, ids, stored, contested>>
  BY DEF Drop, At, InPlace, Doomed
<1>3. \A f \in FileIds : f \in o.sees => f \notin rows' /\ (o.op = "sweep" => BucketOf[f] \notin buckets')
  BY <1>2 DEF Doomed, FilesIn
<1>4. Claims'
  <2> SUFFICES ASSUME NEW v \in Procs, MayWrite(worker[v])' PROVE Claim(v)'
    BY DEF Claims
  <2>1. MayWrite(worker[v]) /\ Claim(v) /\ v # w /\ worker[v].f \in FileIds /\ worker'[v] = worker[v]
    BY <1>2 DEF Claims, MayWrite, Faultless, SInv, InPlace
  <2>2. Held(worker[v].f) => Held(worker[v].f)'
    BY <1>2, <1>3, <2>1 DEF Held
  <2> QED BY <2>1, <2>2, <1>2 DEF HasChecked, Claim
<1>5. Identifiers'
  BY <1>2 DEF Faultless, Identifiers, SInv, InPlace
<1>6. Deleted'
  BY <1>2 DEF Faultless, Deleted, SInv, InPlace
<1>7. Accounted'
  BY <1>2 DEF Faultless, Accounted, Deleted
<1>8. RowHasObject'
  BY <1>2, <1>3 DEF Faultless, RowHasObject, BeingDeleted
<1> QED BY <1>4, <1>5, <1>6, <1>7, <1>8 DEF Faultless

LEMMA ClientStores ==
  ASSUME FInv, SInv, faults = 0, NEW f \in FileIds, ClientPut(f)
  PROVE  Faultless'
<1>1. /\ ids[f] = "url" /\ objects' = objects \cup {f} /\ stored' = stored \cup {f}
      /\ UNCHANGED <<buckets, rows, ids, worker, contested, missed>>
  BY DEF ClientPut, Store
<1>2. Faultless
  BY DEF SInv
<1>3. Claims'
  <2> SUFFICES ASSUME NEW v \in Procs, MayWrite(worker[v])' PROVE Claim(v)'
    BY DEF Claims
  <2>1. MayWrite(worker[v]) /\ Claim(v)
    BY <1>1, <1>2 DEF Claims, MayWrite, Faultless
  <2>2. worker[v].op # "confirm" => worker[v].f # f
    BY <1>1, <1>2, <2>1 DEF Faultless, Identifiers, MayWrite
  <2> QED BY <2>1, <2>2, <1>1 DEF HasChecked, Held, Claim
<1>4. Identifiers'
  BY <1>1, <1>2 DEF Faultless, Identifiers
<1>5. Deleted' /\ Accounted' /\ RowHasObject'
  BY <1>1, <1>2 DEF Faultless, Deleted, Accounted, RowHasObject, BeingDeleted
<1> QED BY <1>3, <1>4, <1>5 DEF Faultless

\* Whatever a step does to its process, the rest of its state fits its next call.
AllInPlace == \A w \in Procs : InPlace(worker[w])

LEMMA InPlaceStep ==
  ASSUME FInv, SInv, NEW w \in Procs, NEW s, InPlace(s), Become(w, s)
  PROVE  AllInPlace'
BY DEF FInv, TypeOK, SInv, Become, AllInPlace

LEMMA InPlaceOnward ==
  ASSUME NEW t, t.op \in {"sweep", "purge"}, t.f = None, t.todo \subseteq t.sees, t \in ProcState,
         t.op = "sweep" => t.next \subseteq t.scope /\ t.sees \subseteq FilesIn(t.scope),
         t.op = "purge" => t.next = {}
  PROVE  InPlace(Onward(t))
<1>1. Onward(t).pc \in {"wipe", "list", "drop"} /\ Same(Onward(t), t)
      /\ Onward(t).next = t.next /\ Onward(t).scope = t.scope
      /\ (Onward(t).pc \in {"list", "drop"} => t.todo = {})
  BY DEF Onward, ProcState, Same
<1> QED BY <1>1 DEF InPlace, Same

LEMMA RequestsInPlace ==
  ASSUME FInv, SInv, NEW w \in Procs, Requests(w)
  PROVE  AllInPlace'
<1>1. ASSUME NEW f \in FileIds, NEW op, NEW pc, Begin(w, op, pc, f),
             <<op, pc>> \in {<<"upload", "quota">>, <<"presign", "quota">>,
                             <<"confirm", "head">>, <<"delete", "erase">>}
      PROVE  AllInPlace'
  <2>1. InPlace([Idle EXCEPT !.op = op, !.pc = pc, !.f = f])
    BY <1>1 DEF Idle, InPlace
  <2> QED BY <1>1, <2>1, InPlaceStep DEF Begin
<1>2. ASSUME NEW b \in Buckets, DeleteBucket(w, b) PROVE AllInPlace'
  <2>1. InPlace([Idle EXCEPT !.op = "sweep", !.pc = "list", !.scope = {b}, !.next = {b}])
    BY DEF Idle, InPlace
  <2> QED BY <1>2, <2>1, InPlaceStep DEF DeleteBucket
<1>3. CASE DeleteProject(w)
  <2>1. InPlace([Idle EXCEPT !.op = "sweep", !.pc = "ids", !.scope = Buckets])
    BY DEF Idle, InPlace
  <2> QED BY <1>3, <2>1, InPlaceStep DEF DeleteProject
<1> QED BY <1>1, <1>2, <1>3 DEF Requests, Upload, PresignUpload, ConfirmUpload, Delete

LEMMA SelectFilesInPlace == ASSUME FInv, SInv, SelectFiles PROVE AllInPlace'
<1>1. InPlace([Idle EXCEPT !.op = "purge", !.pc = "wipe", !.todo = rows, !.sees = rows])
  BY DEF Idle, InPlace
<1> QED BY <1>1, InPlaceStep DEF SelectFiles, Procs

LEMMA HereInPlace ==
  ASSUME FInv, SInv, NEW w \in Procs
  PROVE  worker[w] \in ProcState /\ InPlace(worker[w]) /\ Learnt(worker[w], stored)
BY DEF FInv, SInv, TypeOK

LEMMA GotoInPlace ==
  ASSUME FInv, SInv, NEW w \in Procs,
         \/ At(w, "head") /\ Goto(w, "quota")
         \/ At(w, "quota") /\ Goto(w, "bucket")
         \/ At(w, "bucket") /\ worker[w].op = "upload" /\ Goto(w, "put")
         \/ At(w, "bucket") /\ worker[w].op # "presign" /\ Goto(w, "create")
         \/ At(w, "put") /\ Goto(w, "create")
         \/ At(w, "create") /\ worker[w].op = "upload" /\ Goto(w, "undo")
         \/ At(w, "erase") /\ Goto(w, "unlist")
         \/ At(w, "ids") /\ Goto(w, "drop")
  PROVE  AllInPlace'
<1> DEFINE t(pc) == [worker[w] EXCEPT !.pc = pc]
<1>1. /\ At(w, "head") => InPlace(t("quota"))
      /\ At(w, "quota") => InPlace(t("bucket"))
      /\ At(w, "bucket") /\ worker[w].op = "upload" => InPlace(t("put"))
      /\ At(w, "bucket") /\ worker[w].op # "presign" => InPlace(t("create"))
      /\ At(w, "put") => InPlace(t("create"))
      /\ At(w, "create") /\ worker[w].op = "upload" => InPlace(t("undo"))
      /\ At(w, "erase") => InPlace(t("unlist"))
      /\ At(w, "ids") => InPlace(t("drop"))
  BY HereInPlace DEF At, InPlace, ProcState
<1> QED BY <1>1, InPlaceStep DEF Goto

LEMMA ReturnInPlace == ASSUME FInv, SInv, NEW w \in Procs, Return(w) PROVE AllInPlace'
BY IdleInPlace, InPlaceStep DEF Return

\* A bulk deletion at one of its calls goes on with less to do or more to see.
LEMMA SweepInPlace ==
  ASSUME FInv, SInv, NEW w \in Procs, NEW t \in ProcState, Become(w, Onward(t)),
         worker[w].pc \in {"ids", "list", "wipe"},
         t.op = worker[w].op, t.f = worker[w].f, t.scope = worker[w].scope,
         t.todo \subseteq t.sees, t.op = "sweep" => t.sees \subseteq FilesIn(t.scope),
         t.next \subseteq worker[w].next \/ (worker[w].pc = "ids" /\ t.next \subseteq Buckets)
  PROVE  AllInPlace'
<1>1. InPlace(Onward(t))
  BY HereInPlace, InPlaceOnward DEF InPlace
<1> QED BY <1>1, InPlaceStep

LEMMA CallsInPlace == ASSUME FInv, SInv, NEW w \in Procs, CallsOf(w) PROVE AllInPlace'
<1> DEFINE o == worker[w]
<1>0. o \in ProcState /\ InPlace(o) /\ objects \subseteq FileIds /\ buckets \subseteq Buckets
  BY HereInPlace DEF FInv, TypeOK
<1>1. CASE Head(w) \/ CheckQuota(w) \/ Refuse(w) \/ CheckBucket(w)
  BY <1>1, GotoInPlace, ReturnInPlace DEF Head, CheckQuota, Refuse, CheckBucket
<1>2. CASE Put(w) \/ Create(w) \/ Undo(w)
  BY <1>2, GotoInPlace, ReturnInPlace DEF Put, Create, AfterRefusal, Undo
<1>3. CASE Erase(w) \/ Unlist(w) \/ Drop(w)
  BY <1>3, GotoInPlace, ReturnInPlace DEF Erase, Unlist, Drop
<1>4. CASE ListIDsByProject(w)
  <2> DEFINE t == [o EXCEPT !.next = buckets]
  <2>1. /\ t \in ProcState /\ t.op = o.op /\ t.f = o.f /\ t.scope = o.scope /\ o.pc = "ids"
        /\ t.todo \subseteq t.sees /\ (t.op = "sweep" => t.sees \subseteq FilesIn(t.scope)) /\ t.next \subseteq Buckets
    BY <1>0, <1>4 DEF ListIDsByProject, At, InPlace, ProcState
  <2>2. Become(w, Onward(t))
    BY <1>4 DEF ListIDsByProject
  <2> HIDE DEF t
  <2> QED BY <2>1, <2>2, SweepInPlace
<1>5. ASSUME NEW b \in Buckets, ListObjects(w, b) PROVE AllInPlace'
  <2> DEFINE found == objects \cap FilesIn({b})
             t == [o EXCEPT !.next = @ \ {b}, !.todo = found, !.sees = @ \cup found]
  <2>1. o.pc = "list" /\ b \in o.next /\ found \subseteq FileIds
        /\ (o.op = "sweep" => found \subseteq FilesIn(o.scope))
    BY <1>0, <1>5 DEF ListObjects, At, FilesIn, InPlace
  <2>2. Become(w, Onward(t))
    BY <1>5 DEF ListObjects
  <2> HIDE DEF found
  <2>3. /\ t \in ProcState /\ t.op = o.op /\ t.f = o.f /\ t.scope = o.scope /\ t.next \subseteq o.next
        /\ t.todo \subseteq t.sees /\ (t.op = "sweep" => t.sees \subseteq FilesIn(t.scope))
    BY <1>0, <2>1 DEF InPlace, ProcState
  <2> HIDE DEF t
  <2> QED BY <2>1, <2>2, <2>3, SweepInPlace
<1>6. ASSUME NEW f \in FileIds, Wipe(w, f) PROVE AllInPlace'
  <2> DEFINE t == [o EXCEPT !.todo = @ \ {f}]
  <2>1. /\ t \in ProcState /\ t.op = o.op /\ t.f = o.f /\ t.scope = o.scope /\ t.next \subseteq o.next
        /\ t.todo \subseteq t.sees /\ (t.op = "sweep" => t.sees \subseteq FilesIn(t.scope)) /\ o.pc = "wipe"
    BY <1>0, <1>6 DEF Wipe, At, InPlace, ProcState
  <2>2. Become(w, Onward(t))
    BY <1>6 DEF Wipe
  <2> HIDE DEF t
  <2> QED BY <2>1, <2>2, SweepInPlace
<1> QED BY <1>1, <1>2, <1>3, <1>4, <1>5, <1>6 DEF CallsOf

LEMMA FailuresInPlace == ASSUME FInv, SInv, NEW w \in Procs, Fails(w) PROVE AllInPlace'
<1> DEFINE o == worker[w]
<1>0. AfterError(w) /\ o \in ProcState /\ InPlace(o)
  BY HereInPlace DEF Fails, CallFails, AnswerLost
<1>1. CASE At(w, "create") \/ At(w, "ids")
  BY <1>0, <1>1, GotoInPlace, ReturnInPlace DEF AfterError, AfterRefusal, At
<1>2. CASE At(w, "list")
  <2>1. PICK b \in o.next : Become(w, Onward([o EXCEPT !.next = @ \ {b}]))
    BY <1>0, <1>2 DEF AfterError, At
  <2> DEFINE t == [o EXCEPT !.next = @ \ {b}]
  <2>2. /\ t \in ProcState /\ t.op = o.op /\ t.f = o.f /\ t.scope = o.scope /\ t.next \subseteq o.next
        /\ t.todo \subseteq t.sees /\ (t.op = "sweep" => t.sees \subseteq FilesIn(t.scope)) /\ o.pc = "list"
    BY <1>0, <1>2 DEF At, InPlace, ProcState
  <2> HIDE DEF t
  <2>3. Become(w, Onward(t))
    BY <2>1 DEF t
  <2> QED BY <2>2, <2>3, SweepInPlace
<1>3. CASE At(w, "wipe") /\ o.op = "purge"
  <2>1. PICK f \in o.todo : Become(w, Onward([o EXCEPT !.todo = @ \ {f}]))
    BY <1>0, <1>3 DEF AfterError, At
  <2> DEFINE t == [o EXCEPT !.todo = @ \ {f}]
  <2>2. /\ t \in ProcState /\ t.op = o.op /\ t.f = o.f /\ t.scope = o.scope /\ t.next \subseteq o.next
        /\ t.todo \subseteq t.sees /\ (t.op = "sweep" => t.sees \subseteq FilesIn(t.scope)) /\ o.pc = "wipe"
    BY <1>0, <1>3 DEF At, InPlace, ProcState
  <2> HIDE DEF t
  <2>3. Become(w, Onward(t))
    BY <2>1 DEF t
  <2> QED BY <2>2, <2>3, SweepInPlace
<1>4. CASE At(w, "wipe") /\ o.op = "sweep"
  <2> DEFINE t == [o EXCEPT !.todo = {}]
  <2>1. Become(w, Onward(t))
    BY <1>0, <1>4 DEF AfterError, At
  <2>2. /\ t \in ProcState /\ t.op = o.op /\ t.f = o.f /\ t.scope = o.scope /\ t.next \subseteq o.next
        /\ t.todo \subseteq t.sees /\ (t.op = "sweep" => t.sees \subseteq FilesIn(t.scope)) /\ o.pc = "wipe"
    BY <1>0, <1>4 DEF At, InPlace, ProcState
  <2> HIDE DEF t
  <2> QED BY <2>1, <2>2, SweepInPlace
<1>5. CASE ~(\/ At(w, "create") \/ At(w, "ids") \/ At(w, "list")
             \/ At(w, "wipe") /\ o.op \in {"purge", "sweep"})
  BY <1>0, <1>5, ReturnInPlace DEF AfterError
<1> QED BY <1>1, <1>2, <1>3, <1>4, <1>5

-----------------------------------------------------------------------------
(* Every action, without faults.                                           *)

LEMMA RequestsFaultless ==
  ASSUME FInv, SInv, faults = 0, NEW w \in Procs, Requests(w) PROVE Faultless'
<1>0. ASSUME NEW f \in FileIds, NEW op, NEW pc, Begin(w, op, pc, f),
             <<op, pc>> \in {<<"upload", "quota">>, <<"presign", "quota">>,
                             <<"confirm", "head">>, <<"delete", "erase">>}
      PROVE  \E s : Moves(w, s) /\ s.op = op /\ s.pc = pc /\ s.f = f /\ s.sees = {} /\ worker[w].pc = "idle"
  <2> DEFINE s == [Idle EXCEPT !.op = op, !.pc = pc, !.f = f]
  <2>1. s \in ProcState /\ InPlace(s) /\ s.op = op /\ s.pc = pc /\ s.f = f /\ s.sees = {}
    BY <1>0 DEF Idle, InPlace, ProcState, Calls
  <2>2. Become(w, s) /\ worker[w].pc = "idle"
    BY <1>0 DEF Begin, MayBegin, At
  <2> HIDE DEF s
  <2> QED BY <2>1, <2>2, BecomeMoves
<1>1. ASSUME NEW f \in FileIds, Upload(w, f) \/ PresignUpload(w, f) PROVE Faultless'
  <2>1. PICK s : Moves(w, s) /\ s.op \in {"upload", "presign"} /\ s.pc = "quota" /\ s.f = f /\ s.sees = {}
                 /\ worker[w].pc = "idle"
    BY <1>0, <1>1 DEF Upload, PresignUpload
  <2> QED BY <1>1, <2>1, Begins DEF Upload, PresignUpload, Draw, stores, history
<1>2. ASSUME NEW f \in FileIds, ConfirmUpload(w, f) PROVE Faultless'
  <2>1. PICK s : Moves(w, s) /\ s.op = "confirm" /\ s.pc = "head" /\ s.f = f /\ s.sees = {} /\ worker[w].pc = "idle"
    BY <1>0, <1>2 DEF ConfirmUpload
  <2> QED BY <1>2, <2>1, Begins DEF ConfirmUpload, stores
<1>3. ASSUME NEW f \in FileIds, Delete(w, f) PROVE Faultless'
  <2>1. PICK s : Moves(w, s) /\ s.op = "delete" /\ s.pc = "erase" /\ s.f = f /\ s.sees = {} /\ worker[w].pc = "idle"
    BY <1>0, <1>3 DEF Delete
  <2> QED BY <1>3, <2>1, Begins DEF Delete, stores, history
<1>4. ASSUME NEW b \in Buckets, DeleteBucket(w, b) PROVE Faultless'
  <2> DEFINE s == [Idle EXCEPT !.op = "sweep", !.pc = "list", !.scope = {b}, !.next = {b}]
  <2>1. s \in ProcState /\ InPlace(s) /\ s.op = "sweep" /\ s.pc = "list" /\ s.sees = {}
    BY DEF Idle, InPlace, ProcState, Calls
  <2>2. Become(w, s) /\ worker[w].pc = "idle" /\ KeepsStores
    BY <1>4 DEF DeleteBucket, MayBegin, At, KeepsStores, stores, history
  <2> HIDE DEF s
  <2> QED BY <2>1, <2>2, BecomeMoves, Begins DEF KeepsStores
<1>5. CASE DeleteProject(w)
  <2> DEFINE s == [Idle EXCEPT !.op = "sweep", !.pc = "ids", !.scope = Buckets]
  <2>1. s \in ProcState /\ InPlace(s) /\ s.op = "sweep" /\ s.pc = "ids" /\ s.sees = {}
    BY DEF Idle, InPlace, ProcState, Calls
  <2>2. Become(w, s) /\ worker[w].pc = "idle" /\ KeepsStores
    BY <1>5 DEF DeleteProject, MayBegin, At, KeepsStores, stores, history
  <2> HIDE DEF s
  <2> QED BY <2>1, <2>2, BecomeMoves, Begins DEF KeepsStores
<1> QED BY <1>1, <1>2, <1>3, <1>4, <1>5 DEF Requests

LEMMA SelectFilesFaultless == ASSUME FInv, SInv, faults = 0, SelectFiles PROVE Faultless'
<1> DEFINE s == [Idle EXCEPT !.op = "purge", !.pc = "wipe", !.todo = rows, !.sees = rows]
<1>1. s \in ProcState /\ InPlace(s) /\ s.op = "purge" /\ s.pc = "wipe" /\ s.sees = rows /\ s.todo = rows
  BY DEF FInv, TypeOK, Idle, InPlace, ProcState, Calls
<1>2. Become(Job, s) /\ worker[Job].pc = "idle" /\ KeepsStores /\ Job \in Procs
  BY DEF SelectFiles, MayBegin, At, KeepsStores, stores, history, Procs
<1> HIDE DEF s
<1> QED BY <1>1, <1>2, BecomeMoves, Begins DEF KeepsStores

\* A handler returns or goes on without touching the stores.
LEMMA ReturnFaultless ==
  ASSUME FInv, SInv, faults = 0, NEW w \in Procs, Return(w), KeepsStores,
         worker[w].op \in {"upload", "presign", "confirm"}, worker[w].pc # "undo",
         worker[w].pc = "create" => worker[w].op # "upload"
  PROVE  Faultless'
BY IdleInPlace, BecomeMoves, GoesOn DEF Return

LEMMA GotoFaultless ==
  ASSUME FInv, SInv, faults = 0, NEW w \in Procs, KeepsStores,
         \/ At(w, "head") /\ worker[w].f \in objects /\ Goto(w, "quota")
         \/ At(w, "quota") /\ Goto(w, "bucket")
         \/ At(w, "bucket") /\ worker[w].op = "upload" /\ Goto(w, "put")
         \/ At(w, "bucket") /\ worker[w].op = "confirm" /\ Goto(w, "create")
         \/ At(w, "create") /\ worker[w].op = "upload" /\ Goto(w, "undo")
  PROVE  Faultless'
<1> DEFINE o == worker[w]
           t(pc) == [o EXCEPT !.pc = pc]
<1>1. \A pc \in Calls : t(pc) \in ProcState /\ Same(t(pc), o) /\ t(pc).pc = pc
  BY HereInPlace DEF ProcState, Same, Calls
<1>2. PICK pc \in Calls : /\ Goto(w, pc) /\ InPlace(t(pc))
                          /\ \/ pc = "quota" /\ o.f \in objects
                             \/ pc = "bucket" /\ o.pc = "quota"
                             \/ pc = "put" /\ o.pc = "bucket" /\ o.op = "upload"
                             \/ pc = "create" /\ o.pc = "bucket" /\ o.op = "confirm"
                             \/ pc = "undo" /\ o.pc = "create"
                          /\ o.pc # "undo" /\ (o.pc = "create" => pc = "undo")
                          /\ (o.pc = "head" => o.op = "confirm")
                          /\ (pc = "quota" => o.pc = "head")
  BY HereInPlace DEF Calls, InPlace, At, ProcState, Learnt
<1>3. Moves(w, t(pc)) /\ Same(t(pc), o) /\ t(pc).pc = pc
  BY <1>1, <1>2, BecomeMoves DEF Goto
<1> HIDE DEF t
<1> QED BY <1>2, <1>3, GoesOn DEF HasChecked, Same

LEMMA CallsFaultless == ASSUME FInv, SInv, faults = 0, NEW w \in Procs, CallsOf(w) PROVE Faultless'
<1> DEFINE o == worker[w]
<1>0. o \in ProcState /\ InPlace(o) /\ Learnt(o, stored)
  BY HereInPlace
<1>1. CASE Head(w) \/ CheckQuota(w) \/ Refuse(w)
  <2>1. KeepsStores /\ o.op \in {"upload", "presign", "confirm"} /\ o.pc \in {"head", "quota"}
    BY <1>0, <1>1 DEF Head, CheckQuota, Refuse, KeepsStores, stores, history, InPlace, At
  <2> QED BY <1>1, <2>1, ReturnFaultless, GotoFaultless DEF Head, CheckQuota, Refuse
<1>2. CASE CheckBucket(w)
  <2>1. /\ o.op \in {"upload", "presign", "confirm"} /\ o.pc = "bucket"
        /\ UNCHANGED <<buckets, rows, objects, stored, contested, missed>>
    BY <1>0, <1>2 DEF CheckBucket, stores, history, InPlace, At
  <2>2. CASE o.op = "presign" /\ Tell(o.f, "url") /\ Return(w)
    BY <2>1, <2>2, PresignEnds
  <2>3. CASE ids' = ids /\ Return(w)
    BY <2>1, <2>3, ReturnFaultless DEF KeepsStores
  <2>4. CASE ids' = ids /\ o.op # "presign" /\ Goto(w, IF o.op = "upload" THEN "put" ELSE "create")
    BY <1>2, <2>1, <2>4, GotoFaultless DEF KeepsStores, CheckBucket
  <2> QED BY <1>2, <2>2, <2>3, <2>4 DEF CheckBucket
<1>3. CASE Create(w)
  <2>1. o.pc = "create" /\ o.op \in {"upload", "confirm"} /\ UNCHANGED <<buckets, objects, stored, contested, missed>>
    BY <1>0, <1>3 DEF Create, At, InPlace
  <2>2. CASE Insertable(o.f) /\ Insert(w, o.f) /\ Return(w)
             /\ (IF o.op = "upload" THEN Tell(o.f, "file") ELSE UNCHANGED ids)
    BY <1>3, <2>1, <2>2, RowWritten DEF Create, Insert, Tell
  <2>3. CASE AfterRefusal(w) /\ UNCHANGED <<rows, ids, raced>>
    <3>1. KeepsStores
      BY <2>1, <2>3 DEF KeepsStores
    <3> QED BY <1>3, <2>1, <2>3, <3>1, ReturnFaultless, GotoFaultless DEF AfterRefusal, Create
  <2> QED BY <1>3, <2>2, <2>3 DEF Create
<1>4. CASE Put(w) \/ Undo(w) \/ Erase(w) \/ Unlist(w) \/ ListIDsByProject(w) \/ Drop(w)
           \/ (\E b \in Buckets : ListObjects(w, b)) \/ (\E f \in FileIds : Wipe(w, f))
  BY <1>4, PutStores, UndoDeletes, EraseDeletes, UnlistDeletes, IDsListed, RowsDropped, ObjectsListed, FileWiped
<1> QED BY <1>1, <1>2, <1>3, <1>4 DEF CallsOf

\* SInv is an invariant of Files.
THEOREM StoresInductive == Spec => []SInv
<1>1. Init => SInv
  BY IdleInPlace, FilesAssumption DEF Init, SInv, Faultless, Claims, MayWrite, Identifiers, Deleted, Accounted, RowHasObject
<1>2. FInv /\ SInv /\ [Next]_vars => SInv'
  <2> SUFFICES ASSUME FInv, SInv, [Next]_vars PROVE AllInPlace' /\ (faults' = 0 => Faultless')
    BY DEF SInv, AllInPlace
  <2>0. faults \in Nat
    BY DEF FInv, TypeOK
  <2>1. ASSUME NEW w \in Workers, Requests(w) PROVE AllInPlace' /\ (faults' = 0 => Faultless')
    <3>1. w \in Procs /\ faults' = faults
      BY <2>1 DEF Procs, Requests, Upload, PresignUpload, ConfirmUpload, Delete, DeleteBucket, DeleteProject
    <3> QED BY <2>1, <3>1, RequestsInPlace, RequestsFaultless
  <2>2. ASSUME NEW w \in Procs, CallsOf(w) PROVE AllInPlace' /\ (faults' = 0 => Faultless')
    <3>1. faults' = faults
      BY <2>2 DEF CallsOf, Head, CheckQuota, Refuse, CheckBucket, Put, Create, Undo, Erase, Unlist,
                  ListIDsByProject, ListObjects, Wipe, Drop
    <3> QED BY <2>2, <3>1, CallsInPlace, CallsFaultless
  <2>3. ASSUME NEW w \in Procs, Fails(w) PROVE AllInPlace' /\ (faults' = 0 => Faultless')
    <3>1. faults' = faults + 1
      BY <2>3 DEF Fails, CallFails, AnswerLost
    <3> QED BY <2>0, <2>3, <3>1, FailuresInPlace
  <2>4. CASE SelectFiles
    BY <2>4, SelectFilesInPlace, SelectFilesFaultless DEF SelectFiles
  <2>5. CASE Client
    <3>1. PICK f \in FileIds : ClientPut(f)
      BY <2>5 DEF Client
    <3>2. worker' = worker /\ faults' = faults
      BY <3>1 DEF ClientPut
    <3> QED BY <3>1, <3>2, ClientStores DEF SInv, AllInPlace
  <2>6. CASE Crash
    BY <2>0, <2>6, IdleInPlace DEF Crash, AllInPlace
  <2>7. CASE UNCHANGED vars
    BY <2>7 DEF vars, SInv, AllInPlace, Faultless, Claims, Claim, MayWrite, HasChecked, Held, Identifiers,
                Deleted, Accounted, RowHasObject, BeingDeleted
  <2> QED BY <2>1, <2>2, <2>3, <2>4, <2>5, <2>6, <2>7 DEF Next
<1> QED BY <1>1, <1>2, FilesInductive, PTL DEF Spec

\* As long as nothing failed, a file that is listed and was not confirmed while it was
\* listed or worked on has its object, unless a deletion is at work on it.
THEOREM RowsHaveObjects == Spec => []RowHasObject
<1>1. SInv => RowHasObject
  BY DEF SInv, Faultless, RowHasObject
<1> QED BY <1>1, StoresInductive, PTL

\* Once all handlers are done and nothing failed, an object without a row was put
\* through a presigned URL or uploaded after a bulk deletion had listed its bucket.
THEOREM OrphansAreExplained == Spec => []OrphansExplained
<1>1. SInv => OrphansExplained
  BY DEF SInv, Faultless, Accounted, OrphansExplained, Quiet, At
<1> QED BY <1>1, StoresInductive, PTL

-----------------------------------------------------------------------------
(* The quota.                                                              *)

\* Past the check, and going to write a row.
Counted(s) == s.pc \in {"bucket", "put", "create"} /\ s.op # "presign"

\* Whoever is past the check, and not overtaken, still fits beside all rows.
QInv ==
  /\ IsFiniteSet(rows)
  /\ worker[Job].op \in {"none", "purge"}
  /\ QuotaKept
  /\ Quota # 0 => \A w \in Workers :
       Counted(worker[w]) /\ worker[w].f \notin raced => Usage(rows) + Size[worker[w].f] <= Quota

LEMMA UsageIsTotal == \A S : Usage(S) = Total(Size, S)
BY DEF Usage, Total

\* What Sums says of the bytes of files.
LEMMA UsageSums ==
  ASSUME NEW S, IsFiniteSet(S), S \subseteq FileIds
  PROVE  /\ Usage(S) \in Nat
         /\ \A T \in SUBSET S : Usage(T) <= Usage(S)
         /\ \A f \in FileIds : Usage(S \cup {f}) <= Usage(S) + Size[f]
<1>1. \A T : Usage(T) = Total(Size, T)
  BY UsageIsTotal
<1>2. \A f \in FileIds : Size[f] \in Nat
  BY FilesAssumption
<1>3. Usage(S) \in Nat
  BY <1>1, <1>2, TotalInt
<1>4. ASSUME NEW T \in SUBSET S PROVE Usage(T) <= Usage(S)
  BY <1>1, <1>2, TotalGrows
<1>5. ASSUME NEW f \in FileIds PROVE Usage(S \cup {f}) <= Usage(S) + Size[f]
  <2>1. CASE f \in S
    <3>1. S \cup {f} = S
      BY <2>1
    <3>2. Usage(S \cup {f}) = Usage(S)
      BY <3>1, Zenon
    <3> QED BY <1>2, <1>3, <3>2
  <2>2. CASE f \notin S
    <3>1. IsFiniteSet(S \cup {f}) /\ S \in SUBSET (S \cup {f}) /\ f \in (S \cup {f}) \ S
      BY <2>2, FS_AddElement
    <3>2. \A x \in S \cup {f} : Size[x] \in Int
      BY <1>2
    <3>3. Total(Size, S \cup {f}) = Total(Size, S) + Size[f]
      BY <3>1, <3>2, TotalAdd
    <3> QED BY <1>1, <1>2, <1>3, <3>3
  <2> QED BY <2>1, <2>2
<1> QED BY <1>3, <1>4, <1>5

\* No row is added: whoever was past the check still fits.
LEMMA RowsShrink ==
  ASSUME FInv, QInv, rows' \subseteq rows, raced' = raced, worker'[Job].op \in {"none", "purge"},
         \A w \in Workers : Counted(worker'[w]) =>
            \/ Counted(worker[w]) /\ worker'[w].f = worker[w].f
            \/ Quota # 0 => Usage(rows) + Size[worker'[w].f] <= Quota /\ worker'[w].f \in FileIds
  PROVE  QInv'
<1>1. IsFiniteSet(rows') /\ IsFiniteSet(rows \ raced) /\ rows \subseteq FileIds
  BY FS_Subset, FS_Difference DEF FInv, TypeOK, QInv
<1>2. Usage(rows') <= Usage(rows) /\ Usage(rows') \in Nat /\ Usage(rows) \in Nat
  BY <1>1, UsageSums DEF QInv
<1>3. Usage(rows' \ raced') <= Usage(rows \ raced) /\ Usage(rows' \ raced') \in Nat /\ Usage(rows \ raced) \in Nat
  <2>1. rows \ raced \subseteq FileIds /\ rows' \ raced' \in SUBSET (rows \ raced)
    BY <1>1
  <2>2. IsFiniteSet(rows' \ raced') /\ rows' \ raced' \subseteq FileIds
    BY <1>1, <2>1, FS_Subset
  <2> QED BY <1>1, <2>1, <2>2, UsageSums
<1>4. QuotaKept'
  BY <1>3, FilesAssumption DEF QInv, QuotaKept
<1>5. ASSUME Quota # 0, NEW w \in Workers, Counted(worker'[w]), worker'[w].f \notin raced'
      PROVE  Usage(rows') + Size[worker'[w].f] <= Quota
  <2>1. Usage(rows) + Size[worker'[w].f] <= Quota
    BY <1>5 DEF QInv
  <2>2. worker'[w].f \in FileIds
    <3>1. CASE Counted(worker[w]) /\ worker'[w].f = worker[w].f
      BY <3>1, WorkerIsFine DEF Procs, Counted, Learnt
    <3> QED BY <3>1, <1>5
  <2>3. Size[worker'[w].f] \in Nat
    BY <2>2, FilesAssumption
  <2> QED BY <1>2, <2>1, <2>3, FilesAssumption
<1> QED BY <1>1, <1>4, <1>5 DEF QInv, Counted

\* One process moves, without a row being added.
Keeps(w, s) == s.op \in {worker[w].op, "none"} \/ w \in Workers
LEMMA QuotaStep ==
  ASSUME FInv, QInv, NEW w \in Procs, NEW s, Become(w, s), rows' \subseteq rows, raced' = raced, Keeps(w, s),
         ~Counted(s) \/ (Counted(worker[w]) /\ s.f = worker[w].f)
                     \/ (Quota # 0 => Usage(rows) + Size[s.f] <= Quota /\ s.f \in FileIds)
  PROVE  QInv'
<1>1. \A v \in Procs : worker'[v] = IF v = w THEN s ELSE worker[v]
  BY DEF Become, FInv, TypeOK
<1>2. Job \in Procs /\ Workers \subseteq Procs /\ (w = Job => w \notin Workers)
  BY FilesAssumption DEF Procs
<1>3. worker'[Job].op \in {"none", "purge"}
  BY <1>1, <1>2 DEF QInv, Keeps
<1>4. \A v \in Workers : Counted(worker'[v]) =>
         \/ Counted(worker[v]) /\ worker'[v].f = worker[v].f
         \/ Quota # 0 => Usage(rows) + Size[worker'[v].f] <= Quota /\ worker'[v].f \in FileIds
  BY <1>1, <1>2
<1> QED BY <1>3, <1>4, RowsShrink

LEMMA IdleUncounted == ~Counted(Idle) /\ Idle.op = "none"
BY DEF Idle, Counted

\* What a handler becomes that does not go on to write a row.
LEMMA BecomesUncounted ==
  ASSUME FInv, NEW w \in Procs,
         \/ Return(w)
         \/ \E pc \in Calls \ {"bucket", "put", "create"} : Goto(w, pc)
         \/ \E t : Become(w, Onward(t)) /\ t \in ProcState /\ t.op = worker[w].op
  PROVE  \E s : Become(w, s) /\ ~Counted(s) /\ Keeps(w, s)
<1>1. CASE Return(w)
  BY <1>1, IdleUncounted DEF Return, Keeps
<1>2. ASSUME NEW pc \in Calls \ {"bucket", "put", "create"}, Goto(w, pc)
      PROVE \E s : Become(w, s) /\ ~Counted(s) /\ Keeps(w, s)
  <2>1. [worker[w] EXCEPT !.pc = pc].pc = pc /\ [worker[w] EXCEPT !.pc = pc].op = worker[w].op
    BY WorkerIsFine DEF ProcState
  <2> QED BY <1>2, <2>1 DEF Goto, Counted, Keeps
<1>3. ASSUME NEW t, Become(w, Onward(t)), t \in ProcState, t.op = worker[w].op
      PROVE \E s : Become(w, s) /\ ~Counted(s) /\ Keeps(w, s)
  <2>1. Onward(t).op = t.op /\ Onward(t).pc \in {"wipe", "list", "drop"}
    BY <1>3 DEF Onward, ProcState
  <2> QED BY <1>3, <2>1 DEF Counted, Keeps
<1> QED BY <1>1, <1>2, <1>3

LEMMA RequestsKeepQuota == ASSUME FInv, QInv, NEW w \in Workers, Requests(w) PROVE QInv'
<1>0. w \in Procs
  BY DEF Procs
<1>1. PICK s : Become(w, s) /\ s.pc \in {"quota", "head", "erase", "list", "ids"}
  <2>1. ASSUME NEW f, NEW op, NEW pc, Begin(w, op, pc, f), pc \in {"quota", "head", "erase"}
        PROVE  \E s : Become(w, s) /\ s.pc \in {"quota", "head", "erase", "list", "ids"}
    <3>1. [Idle EXCEPT !.op = op, !.pc = pc, !.f = f].pc = pc
      BY DEF Idle
    <3> QED BY <2>1, <3>1 DEF Begin
  <2>2. \A b : [Idle EXCEPT !.op = "sweep", !.pc = "list", !.scope = {b}, !.next = {b}].pc = "list"
    BY DEF Idle
  <2>3. [Idle EXCEPT !.op = "sweep", !.pc = "ids", !.scope = Buckets].pc = "ids"
    BY DEF Idle
  <2> QED BY <2>1, <2>2, <2>3 DEF Requests, Upload, PresignUpload, ConfirmUpload, Delete, DeleteBucket, DeleteProject
<1>2. rows' = rows /\ raced' = raced
  BY DEF Requests, Upload, PresignUpload, ConfirmUpload, Delete, DeleteBucket, DeleteProject, stores, history
<1> QED BY <1>0, <1>1, <1>2, QuotaStep DEF Counted, Keeps

LEMMA SelectFilesKeepsQuota == ASSUME FInv, QInv, SelectFiles PROVE QInv'
<1> DEFINE s == [Idle EXCEPT !.op = "purge", !.pc = "wipe", !.todo = rows, !.sees = rows]
<1>1. s.pc = "wipe" /\ s.op = "purge" /\ Job \in Procs /\ Job \notin Workers
  BY FilesAssumption DEF Idle, Procs
<1>2. \A v \in Procs : worker'[v] = IF v = Job THEN s ELSE worker[v]
  BY DEF SelectFiles, Become, FInv, TypeOK
<1>3. rows' = rows /\ raced' = raced
  BY DEF SelectFiles, stores, history
<1> HIDE DEF s
<1>4. \A v \in Workers : worker'[v] = worker[v]
  BY <1>1, <1>2 DEF Procs
<1> QED BY <1>1, <1>2, <1>3, <1>4, RowsShrink

\* A row is written by a handler that is then through.
LEMMA InsertKeepsQuota ==
  ASSUME FInv, SInv, QInv, NEW w \in Procs, At(w, "create"), Insert(w, worker[w].f),
         NEW s, Become(w, s), ~Counted(s), Keeps(w, s)
  PROVE  QInv'
<1> DEFINE f == worker[w].f
<1>0. f \in FileIds /\ rows \subseteq FileIds /\ w \in Workers /\ Counted(worker[w])
  BY HereInPlace DEF At, InPlace, QInv, Procs, Counted, FInv, TypeOK
<1>1. \A v \in Procs : worker'[v] = IF v = w THEN s ELSE worker[v]
  BY DEF Become, FInv, TypeOK
<1>2. rows' = rows \cup {f} /\ IsFiniteSet(rows')
  BY FS_AddElement DEF Insert, QInv
<1>3. /\ raced \subseteq raced'
      /\ \A v \in Workers \ {w} : worker[v].pc \in {"bucket", "put", "create"} => worker[v].f \in raced'
  BY DEF Insert
<1>4. worker'[Job].op \in {"none", "purge"}
  BY <1>0, <1>1, FilesAssumption DEF QInv, Procs
<1>5. QuotaKept'
  <2> SUFFICES ASSUME Quota # 0 PROVE Usage(rows' \ raced') <= Quota
    BY DEF QuotaKept
  <2>1. CASE f \in raced'
    <3>1. rows' \ raced' \subseteq rows \ raced /\ rows \ raced \subseteq FileIds /\ IsFiniteSet(rows \ raced)
      BY <1>0, <1>2, <1>3, <2>1, FS_Difference DEF QInv
    <3>2. Usage(rows' \ raced') <= Usage(rows \ raced) /\ Usage(rows \ raced) \in Nat /\ Usage(rows' \ raced') \in Nat
      <4>1. IsFiniteSet(rows' \ raced') /\ rows' \ raced' \subseteq FileIds
        BY <3>1, FS_Subset
      <4> QED BY <3>1, <4>1, UsageSums
    <3>3. Usage(rows \ raced) <= Quota
      BY DEF QInv, QuotaKept
    <3> QED BY <3>2, <3>3, FilesAssumption
  <2>2. CASE f \notin raced'
    <3>1. Usage(rows) + Size[f] <= Quota /\ Size[f] \in Nat
      BY <1>0, <1>3, <2>2, FilesAssumption DEF QInv
    <3>2. rows' \ raced' \in SUBSET rows' /\ rows' \subseteq FileIds
      BY <1>0, <1>2
    <3>3. Usage(rows' \ raced') <= Usage(rows') /\ Usage(rows') \in Nat /\ Usage(rows) \in Nat /\ Usage(rows' \ raced') \in Nat
      <4>1. IsFiniteSet(rows' \ raced') /\ rows' \ raced' \subseteq FileIds
        BY <1>2, <3>2, FS_Subset
      <4> QED BY <1>0, <1>2, <3>2, <4>1, UsageSums DEF QInv
    <3>4. Usage(rows') <= Usage(rows) + Size[f]
      <4>1. Usage(rows \cup {f}) <= Usage(rows) + Size[f]
        BY <1>0, UsageSums DEF QInv
      <4>2. Usage(rows') = Usage(rows \cup {f})
        BY <1>2, Zenon
      <4> QED BY <4>1, <4>2
    <3> QED BY <3>1, <3>3, <3>4, FilesAssumption
  <2> QED BY <2>1, <2>2
<1>6. ASSUME NEW v \in Workers, Counted(worker'[v]), worker'[v].f \notin raced' PROVE FALSE
  <2>1. v # w /\ worker'[v] = worker[v]
    BY <1>1, <1>6 DEF Procs
  <2> QED BY <1>3, <1>6, <2>1 DEF Counted
<1> QED BY <1>2, <1>4, <1>5, <1>6 DEF QInv, Counted

LEMMA CallsKeepQuota == ASSUME FInv, SInv, QInv, NEW w \in Procs, CallsOf(w) PROVE QInv'
<1> DEFINE o == worker[w]
<1>0. o \in ProcState /\ InPlace(o) /\ (o.pc \in {"quota", "bucket", "put", "create"} => w \in Workers /\ o.f \in FileIds)
      /\ objects \subseteq FileIds /\ buckets \subseteq Buckets
  BY HereInPlace DEF InPlace, QInv, Procs, FInv, TypeOK
<1>1. CASE Head(w) \/ Refuse(w) \/ Undo(w) \/ Erase(w) \/ Unlist(w) \/ Drop(w)
  <2>1. rows' \subseteq rows /\ raced' = raced
    BY <1>1 DEF Head, Refuse, Undo, Erase, Unlist, Drop, stores, history
  <2>2. Return(w) \/ Goto(w, "quota") \/ Goto(w, "unlist")
    BY <1>1 DEF Head, Refuse, Undo, Erase, Unlist, Drop
  <2>3. \E s : Become(w, s) /\ ~Counted(s) /\ Keeps(w, s)
    BY <2>2, BecomesUncounted DEF Calls
  <2> QED BY <2>1, <2>3, QuotaStep
<1>2. CASE CheckQuota(w)
  <2> DEFINE s == [o EXCEPT !.pc = "bucket"]
  <2>1. s.f = o.f /\ s.op = o.op /\ o.f \in FileIds /\ (s.op # "presign" => Incoming(w) = Size[o.f])
    BY <1>0, <1>2 DEF CheckQuota, At, Incoming, ProcState
  <2>2. Become(w, s) /\ rows' = rows /\ raced' = raced /\ Fits(w)
    BY <1>2 DEF CheckQuota, Goto, stores, history
  <2> HIDE DEF s
  <2> QED BY <2>1, <2>2, QuotaStep DEF Fits, Counted, Keeps
<1>3. CASE CheckBucket(w)
  <2>1. rows' = rows /\ raced' = raced /\ o.pc = "bucket"
    BY <1>3 DEF CheckBucket, At, stores, history
  <2>2. CASE Return(w)
    BY <2>1, <2>2, BecomesUncounted, QuotaStep
  <2>3. ASSUME NEW pc, o.op # "presign", Goto(w, pc) PROVE QInv'
    <3>1. [o EXCEPT !.pc = pc].f = o.f /\ [o EXCEPT !.pc = pc].op = o.op
      BY <1>0 DEF ProcState
    <3> QED BY <2>1, <2>3, <3>1, QuotaStep DEF Goto, Counted, Keeps
  <2> QED BY <1>3, <2>2, <2>3 DEF CheckBucket
<1>4. CASE Put(w)
  <2>1. rows' = rows /\ raced' = raced /\ Counted(o) /\ Goto(w, "create")
    BY <1>0, <1>4 DEF Put, At, Counted, InPlace
  <2>2. [o EXCEPT !.pc = "create"].f = o.f /\ [o EXCEPT !.pc = "create"].op = o.op
    BY <1>0 DEF ProcState
  <2> QED BY <2>1, <2>2, QuotaStep DEF Goto, Keeps
<1>5. CASE Create(w)
  <2>1. CASE Insert(w, o.f) /\ Return(w)
    BY <1>5, <2>1, BecomesUncounted, InsertKeepsQuota DEF Create
  <2>2. CASE AfterRefusal(w) /\ UNCHANGED <<rows, ids, raced>>
    BY <2>2, BecomesUncounted, QuotaStep DEF AfterRefusal, Calls
  <2> QED BY <1>5, <2>1, <2>2 DEF Create
<1>6. CASE ListIDsByProject(w)
  <2>1. [o EXCEPT !.next = buckets] \in ProcState /\ [o EXCEPT !.next = buckets].op = o.op
    BY <1>0 DEF ProcState
  <2> QED BY <1>6, <2>1, BecomesUncounted, QuotaStep DEF ListIDsByProject, stores, history
<1>7. ASSUME NEW b \in Buckets, ListObjects(w, b) PROVE QInv'
  <2> DEFINE found == objects \cap FilesIn({b})
             t == [o EXCEPT !.next = @ \ {b}, !.todo = found, !.sees = @ \cup found]
  <2>1. found \subseteq FileIds
    BY DEF FilesIn
  <2>2. Become(w, Onward(t)) /\ rows' = rows /\ raced' = raced
    BY <1>7 DEF ListObjects, stores, history
  <2> HIDE DEF found
  <2>3. t \in ProcState /\ t.op = o.op
    BY <1>0, <2>1 DEF ProcState
  <2> HIDE DEF t
  <2> QED BY <2>2, <2>3, BecomesUncounted, QuotaStep
<1>8. ASSUME NEW f \in FileIds, Wipe(w, f) PROVE QInv'
  <2>1. [o EXCEPT !.todo = @ \ {f}] \in ProcState /\ [o EXCEPT !.todo = @ \ {f}].op = o.op
    BY <1>0 DEF ProcState
  <2> QED BY <1>8, <2>1, BecomesUncounted, QuotaStep DEF Wipe, history
<1> QED BY <1>1, <1>2, <1>3, <1>4, <1>5, <1>6, <1>7, <1>8 DEF CallsOf

LEMMA ErrorUncounted ==
  ASSUME FInv, NEW w \in Procs, AfterError(w)
  PROVE  \E s : Become(w, s) /\ ~Counted(s) /\ Keeps(w, s)
<1> DEFINE o == worker[w]
<1>0. o \in ProcState
  BY WorkerIsFine
<1>1. \A b : [o EXCEPT !.next = @ \ {b}] \in ProcState /\ [o EXCEPT !.next = @ \ {b}].op = o.op
  BY <1>0 DEF ProcState
<1>2. \A f : [o EXCEPT !.todo = @ \ {f}] \in ProcState /\ [o EXCEPT !.todo = @ \ {f}].op = o.op
  BY <1>0 DEF ProcState
<1>3. [o EXCEPT !.todo = {}] \in ProcState /\ [o EXCEPT !.todo = {}].op = o.op
  BY <1>0 DEF ProcState
<1>4. \/ Return(w) \/ Goto(w, "undo") \/ Goto(w, "drop")
      \/ \E b : Become(w, Onward([o EXCEPT !.next = @ \ {b}]))
      \/ \E f : Become(w, Onward([o EXCEPT !.todo = @ \ {f}]))
      \/ Become(w, Onward([o EXCEPT !.todo = {}]))
  BY DEF AfterError, AfterRefusal, At
<1> QED BY <1>1, <1>2, <1>3, <1>4, BecomesUncounted DEF Calls

LEMMA FailuresKeepQuota == ASSUME FInv, SInv, QInv, NEW w \in Procs, Fails(w) PROVE QInv'
<1>1. PICK s : Become(w, s) /\ ~Counted(s) /\ Keeps(w, s)
  BY ErrorUncounted DEF Fails, CallFails, AnswerLost
<1>2. CASE rows' = rows /\ raced' = raced
  BY <1>1, <1>2, QuotaStep
<1>3. CASE At(w, "create") /\ Insert(w, worker[w].f)
  BY <1>1, <1>3, InsertKeepsQuota
<1> QED BY <1>2, <1>3 DEF Fails, CallFails, AnswerLost, stores, history

\* QInv is an invariant of Files.
THEOREM QuotaInductive == Spec => []QInv
<1>1. Init => QInv
  <2> SUFFICES ASSUME Init PROVE QInv
    OBVIOUS
  <2>1. IsFiniteSet(rows) /\ rows \ raced = {} /\ (\A w \in Procs : worker[w] = Idle) /\ Job \in Procs /\ Workers \subseteq Procs
    BY FS_EmptySet DEF Init, Procs
  <2>2. Usage({}) = 0
    BY UsageIsTotal, TotalEmpty
  <2>3. Usage(rows \ raced) = 0
    BY <2>1, <2>2, Zenon
  <2> QED BY <2>1, <2>3, IdleUncounted, FilesAssumption DEF QInv, QuotaKept
<1>2. FInv /\ SInv /\ QInv /\ [Next]_vars => QInv'
  <2> SUFFICES ASSUME FInv, SInv, QInv, [Next]_vars PROVE QInv'
    OBVIOUS
  <2>1. ASSUME NEW w \in Workers, Requests(w) PROVE QInv'
    BY <2>1, RequestsKeepQuota
  <2>2. ASSUME NEW w \in Procs, CallsOf(w) PROVE QInv'
    BY <2>2, CallsKeepQuota
  <2>3. ASSUME NEW w \in Procs, Fails(w) PROVE QInv'
    BY <2>3, FailuresKeepQuota
  <2>4. CASE SelectFiles
    BY <2>4, SelectFilesKeepsQuota
  <2>5. CASE Client
    BY <2>5 DEF Client, ClientPut, QInv, QuotaKept
  <2>6. CASE Crash
    <3>1. rows' = rows /\ raced' = raced /\ worker' = [w \in Procs |-> Idle]
      BY <2>6 DEF Crash, stores, history
    <3> QED BY <3>1, IdleUncounted, RowsShrink DEF Procs
  <2>7. CASE UNCHANGED vars
    BY <2>7 DEF vars, QInv, QuotaKept
  <2> QED BY <2>1, <2>2, <2>3, <2>4, <2>5, <2>6, <2>7 DEF Next
<1> QED BY <1>1, <1>2, FilesInductive, StoresInductive, PTL DEF Spec

\* The files whose quota check no other row overtook never exceed the quota together,
\* whatever else is uploaded, deleted, lost or crashes.
THEOREM QuotaIsKept == Spec => []QuotaKept
<1>1. QInv => QuotaKept
  BY DEF QInv
<1> QED BY <1>1, QuotaInductive, PTL

===============================================================================
