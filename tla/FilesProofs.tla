----------------------------- MODULE FilesProofs -----------------------------
(***************************************************************************)
(* Proofs about Files: its types, and that no row is written for an object *)
(* that was never stored, for any number of uploads, buckets, handlers and *)
(* faults.  FInv adds what a process has learnt before its next call.      *)
(***************************************************************************)
EXTENDS Files, TLAPS

\* A step that moves one process to a state it may be in keeps the others' states:
\* what they have learnt stays true, since stored only grows.
LEMMA OneMoves ==
  ASSUME FInv, NEW w \in Procs, NEW s \in ProcState, Become(w, s),
         stored \subseteq stored', Learnt(s, stored')
  PROVE  worker' \in [Procs -> ProcState] /\ (\A v \in Procs : Learnt(worker'[v], stored'))
<1>1. worker' = [worker EXCEPT ![w] = s] /\ worker \in [Procs -> ProcState]
  BY DEF FInv, TypeOK, Become
<1>2. worker' \in [Procs -> ProcState]
  BY <1>1
<1>3. ASSUME NEW v \in Procs PROVE Learnt(worker'[v], stored')
  <2>1. CASE v = w
    BY <1>1, <2>1 DEF Learnt
  <2>2. CASE v # w
    <3>1. worker'[v] = worker[v] /\ Learnt(worker[v], stored)
      BY <1>1, <2>2 DEF FInv
    <3> QED BY <3>1 DEF Learnt
  <2> QED BY <2>1, <2>2
<1> QED BY <1>2, <1>3

\* The conjuncts of FInv about the stores, which a step changes apart from the process.
Stores ==
  /\ buckets \subseteq Buckets
  /\ ids \in [FileIds -> {"free", "drawn", "url", "file"}]
  /\ faults \in Nat
  /\ stored \subseteq FileIds /\ contested \subseteq FileIds /\ missed \subseteq FileIds
  /\ raced \subseteq FileIds
  /\ objects \subseteq stored /\ rows \subseteq stored

LEMMA StoresHold == ASSUME FInv PROVE Stores
BY DEF FInv, TypeOK, Stores, RowsWereStored

\* The frame of every step: the stores stay in order and one process moves.
LEMMA StepPreserves ==
  ASSUME FInv, NEW w \in Procs, NEW s \in ProcState, Become(w, s),
         stored \subseteq stored', Learnt(s, stored'), Stores'
  PROVE  FInv'
<1>1. worker' \in [Procs -> ProcState] /\ (\A v \in Procs : Learnt(worker'[v], stored'))
  BY OneMoves
<1> QED BY <1>1 DEF FInv, TypeOK, Stores, RowsWereStored

LEMMA IdleIsFine == Idle \in ProcState /\ (\A S : Learnt(Idle, S))
BY DEF Idle, ProcState, Calls, Learnt

\* A handler returns.
LEMMA ReturnPreserves ==
  ASSUME FInv, NEW w \in Procs, Return(w), stored \subseteq stored', Stores'
  PROVE  FInv'
BY IdleIsFine, StepPreserves DEF Return

\* A handler goes on to its next call.
LEMMA GotoPreserves ==
  ASSUME FInv, NEW w \in Procs, NEW pc \in Calls, Goto(w, pc),
         stored \subseteq stored', Learnt([worker[w] EXCEPT !.pc = pc], stored'), Stores'
  PROVE  FInv'
<1>1. [worker[w] EXCEPT !.pc = pc] \in ProcState
  BY DEF FInv, TypeOK, ProcState
<1> QED BY <1>1, StepPreserves DEF Goto

\* A bulk deletion goes on; it knows nothing that Learnt speaks of.
LEMMA SweepPreserves ==
  ASSUME FInv, NEW w \in Procs, NEW s \in ProcState, Become(w, Onward(s)),
         stored \subseteq stored', Stores'
  PROVE  FInv'
<1>1. Onward(s) \in ProcState /\ Onward(s).pc \in {"wipe", "list", "drop"}
  BY DEF Onward, ProcState, Calls
<1>2. Learnt(Onward(s), stored')
  BY <1>1 DEF Learnt
<1> QED BY <1>1, <1>2, StepPreserves

-----------------------------------------------------------------------------
(* The steps.                                                              *)

LEMMA WorkerIsFine ==
  ASSUME FInv, NEW w \in Procs
  PROVE  worker[w] \in ProcState /\ Learnt(worker[w], stored)
BY DEF FInv, TypeOK

\* What a handler begins with.
LEMMA BeginPreserves ==
  ASSUME FInv, NEW w \in Procs, NEW f \in FileIds, NEW op, NEW pc, Begin(w, op, pc, f),
         <<op, pc>> \in {<<"upload", "quota">>, <<"presign", "quota">>,
                         <<"confirm", "head">>, <<"delete", "erase">>},
         stored \subseteq stored', Stores'
  PROVE  FInv'
<1> DEFINE s == [Idle EXCEPT !.op = op, !.pc = pc, !.f = f]
<1>1. s \in ProcState /\ Learnt(s, stored')
  BY DEF Idle, ProcState, Calls, Learnt
<1>2. Become(w, s)
  BY DEF Begin
<1> HIDE DEF s
<1> QED BY <1>1, <1>2, StepPreserves

LEMMA RequestsPreserve ==
  ASSUME FInv, NEW w \in Workers, Requests(w)
  PROVE  FInv'
<1> USE StoresHold DEF Stores
<1>w. w \in Procs
  BY DEF Procs
<1>1. ASSUME NEW f \in FileIds, Upload(w, f) PROVE FInv'
  BY <1>1, <1>w, BeginPreserves DEF Upload, Draw, stores, history
<1>2. ASSUME NEW f \in FileIds, PresignUpload(w, f) PROVE FInv'
  BY <1>2, <1>w, BeginPreserves DEF PresignUpload, Draw, stores, history
<1>3. ASSUME NEW f \in FileIds, ConfirmUpload(w, f) PROVE FInv'
  BY <1>3, <1>w, BeginPreserves DEF ConfirmUpload, stores
<1>4. ASSUME NEW f \in FileIds, Delete(w, f) PROVE FInv'
  BY <1>4, <1>w, BeginPreserves DEF Delete, stores, history
<1>5. ASSUME NEW b \in Buckets, DeleteBucket(w, b) PROVE FInv'
  <2> DEFINE s == [Idle EXCEPT !.op = "sweep", !.pc = "list", !.scope = {b}, !.next = {b}]
  <2>1. s \in ProcState /\ Learnt(s, stored')
    BY DEF Idle, ProcState, Calls, Learnt
  <2>2. Become(w, s) /\ Stores' /\ stored' = stored
    BY <1>5 DEF DeleteBucket, stores, history
  <2> HIDE DEF s
  <2> QED BY <1>w, <2>1, <2>2, StepPreserves
<1>6. CASE DeleteProject(w)
  <2> DEFINE s == [Idle EXCEPT !.op = "sweep", !.pc = "ids", !.scope = Buckets]
  <2>1. s \in ProcState /\ Learnt(s, stored')
    BY DEF Idle, ProcState, Calls, Learnt
  <2>2. Become(w, s) /\ Stores' /\ stored' = stored
    BY <1>6 DEF DeleteProject, stores, history
  <2> HIDE DEF s
  <2> QED BY <1>w, <2>1, <2>2, StepPreserves
<1> QED BY <1>1, <1>2, <1>3, <1>4, <1>5, <1>6 DEF Requests

LEMMA SelectFilesPreserves == ASSUME FInv, SelectFiles PROVE FInv'
<1> DEFINE s == [Idle EXCEPT !.op = "purge", !.pc = "wipe", !.todo = rows, !.sees = rows]
<1>1. s \in ProcState /\ Learnt(s, stored')
  BY DEF FInv, TypeOK, Idle, ProcState, Calls, Learnt
<1>2. Become(Job, s) /\ Stores' /\ stored' = stored
  BY StoresHold DEF SelectFiles, Stores, stores, history
<1>3. Job \in Procs
  BY DEF Procs
<1> HIDE DEF s
<1> QED BY <1>1, <1>2, <1>3, StepPreserves

LEMMA RacedAreFiles ==
  ASSUME FInv, NEW w \in Procs, NEW f, Insert(w, f) \/ UNCHANGED raced
  PROVE  raced' \subseteq FileIds
<1>1. ASSUME NEW v \in Workers, worker[v].pc \in {"bucket", "put", "create"}
      PROVE  worker[v].f \in FileIds
  BY <1>1, WorkerIsFine DEF Procs, Learnt
<1> QED BY <1>1, StoresHold DEF Insert, Stores

LEMMA RefusalPreserves ==
  ASSUME FInv, NEW w \in Procs, At(w, "create"), AfterRefusal(w),
         stored \subseteq stored', Stores'
  PROVE  FInv'
<1>1. CASE Return(w)
  BY <1>1, ReturnPreserves
<1>2. CASE Goto(w, "undo")
  <2>1. Learnt([worker[w] EXCEPT !.pc = "undo"], stored')
    BY WorkerIsFine DEF At, Learnt, ProcState
  <2> QED BY <1>2, <2>1, GotoPreserves DEF Calls
<1> QED BY <1>1, <1>2 DEF AfterRefusal

\* The calls of uploads.
LEMMA UploadCallsPreserve ==
  ASSUME FInv, NEW w \in Procs,
         Head(w) \/ CheckQuota(w) \/ Refuse(w) \/ CheckBucket(w) \/ Put(w) \/ Create(w) \/ Undo(w)
  PROVE  FInv'
<1> DEFINE f == worker[w].f
<1> USE StoresHold, WorkerIsFine DEF Stores
<1>1. CASE Head(w)
  <2>1. Stores' /\ stored' = stored
    BY <1>1 DEF Head, stores, history
  <2>2. CASE f \in objects /\ Goto(w, "quota")
    <3>1. Learnt([worker[w] EXCEPT !.pc = "quota"], stored')
      BY <1>1, <2>1, <2>2 DEF Head, At, Learnt, ProcState
    <3> QED BY <2>1, <2>2, <3>1, GotoPreserves DEF Calls
  <2> QED BY <1>1, <2>1, <2>2, ReturnPreserves DEF Head
<1>2. CASE CheckQuota(w)
  <2>1. Stores' /\ stored' = stored
    BY <1>2 DEF CheckQuota, stores, history
  <2>2. Learnt([worker[w] EXCEPT !.pc = "bucket"], stored')
    BY <1>2, <2>1 DEF CheckQuota, At, Learnt, ProcState
  <2> QED BY <1>2, <2>1, <2>2, GotoPreserves DEF CheckQuota, Calls
<1>3. CASE Refuse(w)
  BY <1>3, ReturnPreserves DEF Refuse, stores, history
<1>4. CASE CheckBucket(w)
  <2>1. Stores' /\ stored' = stored
    BY <1>4 DEF CheckBucket, Tell, stores, history
  <2>2. CASE Return(w)
    BY <2>1, <2>2, ReturnPreserves
  <2>3. CASE worker[w].op = "upload" /\ Goto(w, "put")
    <3>1. Learnt([worker[w] EXCEPT !.pc = "put"], stored')
      BY <1>4, <2>1 DEF CheckBucket, At, Learnt, ProcState
    <3> QED BY <2>1, <2>3, <3>1, GotoPreserves DEF Calls
  <2>4. CASE worker[w].op \notin {"presign", "upload"} /\ Goto(w, "create")
    <3>1. Learnt([worker[w] EXCEPT !.pc = "create"], stored')
      BY <1>4, <2>1, <2>4 DEF CheckBucket, At, Learnt, ProcState
    <3> QED BY <2>1, <2>4, <3>1, GotoPreserves DEF Calls
  <2> QED BY <1>4, <2>2, <2>3, <2>4 DEF CheckBucket
<1>5. CASE Put(w)
  <2>1. f \in FileIds
    BY <1>5 DEF Put, At, Learnt
  <2>2. stored' = stored \cup {f} /\ Stores'
    BY <1>5, <2>1 DEF Put, Store
  <2>3. Learnt([worker[w] EXCEPT !.pc = "create"], stored')
    BY <2>1, <2>2 DEF Learnt, ProcState
  <2> QED BY <1>5, <2>2, <2>3, GotoPreserves DEF Put, Calls
<1>6. CASE Create(w)
  <2>1. f \in stored
    BY <1>6 DEF Create, At, Learnt
  <2>2. stored' = stored /\ Stores'
    <3>1. raced' \subseteq FileIds
      BY <1>6, RacedAreFiles DEF Create
    <3>2. ids' \in [FileIds -> {"free", "drawn", "url", "file"}]
      BY <1>6 DEF Create, Tell
    <3>3. rows' \subseteq stored /\ stored' = stored
      BY <1>6, <2>1 DEF Create, Insert
    <3> QED BY <1>6, <3>1, <3>2, <3>3 DEF Create
  <2> QED BY <1>6, <2>2, ReturnPreserves, RefusalPreserves DEF Create, At
<1>7. CASE Undo(w)
  BY <1>7, ReturnPreserves DEF Undo, history
<1> QED BY <1>1, <1>2, <1>3, <1>4, <1>5, <1>6, <1>7

\* The calls of deletions.
LEMMA DeletionCallsPreserve ==
  ASSUME FInv, NEW w \in Procs,
         \/ Erase(w) \/ Unlist(w) \/ ListIDsByProject(w) \/ Drop(w)
         \/ \E b \in Buckets : ListObjects(w, b)
         \/ \E f \in FileIds : Wipe(w, f)
  PROVE  FInv'
<1> USE StoresHold, WorkerIsFine DEF Stores
<1>1. CASE Erase(w)
  <2>1. Stores' /\ stored' = stored
    BY <1>1 DEF Erase, history
  <2>2. Learnt([worker[w] EXCEPT !.pc = "unlist"], stored')
    BY <1>1, <2>1 DEF Erase, At, Learnt, ProcState
  <2> QED BY <1>1, <2>1, <2>2, GotoPreserves DEF Erase, Calls
<1>2. CASE Unlist(w)
  BY <1>2, ReturnPreserves DEF Unlist, history
<1>3. CASE ListIDsByProject(w)
  <2>1. [worker[w] EXCEPT !.next = buckets] \in ProcState
    BY DEF ProcState
  <2> QED BY <1>3, <2>1, SweepPreserves DEF ListIDsByProject, stores, history
<1>4. CASE Drop(w)
  <2>1. Doomed(w) \subseteq FileIds
    BY DEF Doomed
  <2>2. Stores' /\ stored' = stored
    BY <1>4, <2>1 DEF Drop
  <2> QED BY <1>4, <2>2, ReturnPreserves DEF Drop
<1>5. ASSUME NEW b \in Buckets, ListObjects(w, b) PROVE FInv'
  <2> DEFINE found == objects \cap FilesIn({b})
             s == [worker[w] EXCEPT !.next = @ \ {b}, !.todo = found, !.sees = @ \cup found]
  <2>1. found \subseteq FileIds
    BY DEF FilesIn
  <2> HIDE DEF found
  <2>2. s \in ProcState
    BY <2>1 DEF ProcState
  <2>3. Become(w, Onward(s)) /\ Stores' /\ stored' = stored
    BY <1>5 DEF ListObjects, stores, history, found
  <2> HIDE DEF s
  <2> QED BY <2>2, <2>3, SweepPreserves
<1>6. ASSUME NEW f \in FileIds, Wipe(w, f) PROVE FInv'
  <2>1. [worker[w] EXCEPT !.todo = @ \ {f}] \in ProcState
    BY DEF ProcState
  <2> QED BY <1>6, <2>1, SweepPreserves DEF Wipe, history
<1> QED BY <1>1, <1>2, <1>3, <1>4, <1>5, <1>6

\* What follows an error.
LEMMA AfterErrorPreserves ==
  ASSUME FInv, NEW w \in Procs, AfterError(w), stored \subseteq stored', Stores'
  PROVE  FInv'
<1> USE WorkerIsFine
<1>1. CASE At(w, "create")
  BY <1>1, RefusalPreserves DEF AfterError, At
<1>2. CASE At(w, "ids")
  <2>1. Goto(w, "drop")
    BY <1>2 DEF AfterError, At
  <2>2. Learnt([worker[w] EXCEPT !.pc = "drop"], stored')
    BY DEF Learnt, ProcState
  <2> QED BY <2>1, <2>2, GotoPreserves DEF Calls
<1>3. CASE At(w, "list")
  <2>1. PICK b \in worker[w].next : Become(w, Onward([worker[w] EXCEPT !.next = @ \ {b}]))
    BY <1>3 DEF AfterError, At
  <2>2. [worker[w] EXCEPT !.next = @ \ {b}] \in ProcState
    BY DEF ProcState
  <2> QED BY <2>1, <2>2, SweepPreserves
<1>4. CASE At(w, "wipe") /\ worker[w].op = "purge"
  <2>1. PICK f \in worker[w].todo : Become(w, Onward([worker[w] EXCEPT !.todo = @ \ {f}]))
    BY <1>4 DEF AfterError, At
  <2>2. [worker[w] EXCEPT !.todo = @ \ {f}] \in ProcState
    BY DEF ProcState
  <2> QED BY <2>1, <2>2, SweepPreserves
<1>5. CASE At(w, "wipe") /\ worker[w].op = "sweep"
  <2>1. Become(w, Onward([worker[w] EXCEPT !.todo = {}]))
    BY <1>5 DEF AfterError, At
  <2>2. [worker[w] EXCEPT !.todo = {}] \in ProcState
    BY DEF ProcState
  <2> QED BY <2>1, <2>2, SweepPreserves
<1>6. CASE ~(\/ At(w, "create") \/ At(w, "ids") \/ At(w, "list")
             \/ At(w, "wipe") /\ worker[w].op \in {"purge", "sweep"})
  BY <1>6, ReturnPreserves DEF AfterError
<1> QED BY <1>1, <1>2, <1>3, <1>4, <1>5, <1>6

LEMMA FailuresPreserve == ASSUME FInv, NEW w \in Procs, Fails(w) PROVE FInv'
<1> USE StoresHold, WorkerIsFine DEF Stores
<1>1. CASE CallFails(w)
  BY <1>1, AfterErrorPreserves DEF CallFails, stores, history
<1>2. CASE AnswerLost(w)
  <2> DEFINE f == worker[w].f
  <2>1. f \in FileIds /\ (At(w, "create") => f \in stored)
    BY <1>2 DEF AnswerLost, At, Learnt
  <2>2. raced' \subseteq FileIds
    BY <1>2, RacedAreFiles DEF AnswerLost
  <2>3. stored \subseteq stored' /\ Stores'
    <3>1. CASE At(w, "put") /\ Store(f) /\ UNCHANGED <<rows, raced>>
      BY <1>2, <2>1, <3>1 DEF AnswerLost, Store
    <3>2. CASE At(w, "create") /\ Insert(w, f) /\ UNCHANGED <<objects, stored>>
      <4>1. rows' = rows \cup {f}
        BY <3>2 DEF Insert
      <4> QED BY <1>2, <2>1, <2>2, <3>2, <4>1 DEF AnswerLost
    <3> QED BY <1>2, <3>1, <3>2 DEF AnswerLost
  <2> QED BY <1>2, <2>3, AfterErrorPreserves DEF AnswerLost
<1> QED BY <1>1, <1>2 DEF Fails

LEMMA CrashPreserves == ASSUME FInv, Crash PROVE FInv'
<1>1. Stores' /\ stored' = stored
  BY StoresHold DEF Crash, Stores, stores, history
<1>2. worker' = [w \in Procs |-> Idle]
  BY DEF Crash
<1> QED BY <1>1, <1>2, IdleIsFine DEF FInv, TypeOK, Stores, RowsWereStored

LEMMA ClientPreserves == ASSUME FInv, Client PROVE FInv'
<1>1. PICK f \in FileIds : ClientPut(f)
  BY DEF Client
<1>2. Stores' /\ stored \subseteq stored' /\ worker' = worker
  BY <1>1, StoresHold DEF ClientPut, Store, Stores
<1>3. \A w \in Procs : Learnt(worker'[w], stored')
  BY <1>2 DEF FInv, Learnt
<1> QED BY <1>2, <1>3 DEF FInv, TypeOK, Stores, RowsWereStored

-----------------------------------------------------------------------------
\* FInv is an invariant of Files.
THEOREM FilesInductive == Spec => []FInv
<1>1. Init => FInv
  BY FilesAssumption, IdleIsFine DEF Init, FInv, TypeOK, RowsWereStored
<1>2. FInv /\ [Next]_vars => FInv'
  <2> SUFFICES ASSUME FInv, [Next]_vars PROVE FInv'
    OBVIOUS
  <2>1. ASSUME NEW w \in Workers, Requests(w) PROVE FInv'
    BY <2>1, RequestsPreserve
  <2>2. ASSUME NEW w \in Procs, CallsOf(w) PROVE FInv'
    BY <2>2, UploadCallsPreserve, DeletionCallsPreserve DEF CallsOf
  <2>3. ASSUME NEW w \in Procs, Fails(w) PROVE FInv'
    BY <2>3, FailuresPreserve
  <2>4. CASE SelectFiles
    BY <2>4, SelectFilesPreserves
  <2>5. CASE Client
    BY <2>5, ClientPreserves
  <2>6. CASE Crash
    BY <2>6, CrashPreserves
  <2>7. CASE UNCHANGED vars
    BY <2>7 DEF vars, FInv, TypeOK, RowsWereStored
  <2> QED BY <2>1, <2>2, <2>3, <2>4, <2>5, <2>6, <2>7 DEF Next
<1> QED BY <1>1, <1>2, PTL DEF Spec

\* Every variable keeps its type.
THEOREM FilesTyped == Spec => []TypeOK
<1>1. FInv => TypeOK
  BY DEF FInv
<1> QED BY <1>1, FilesInductive, PTL

\* No handler, interleaving, lost answer or crash writes a files row for an
\* identifier whose object R2 never held.
THEOREM RowsNeedUploads == Spec => []RowsWereStored
<1>1. FInv => RowsWereStored
  BY DEF FInv
<1> QED BY <1>1, FilesInductive, PTL

=============================================================================
