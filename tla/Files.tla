-------------------------------- MODULE Files --------------------------------
(***************************************************************************)
(* One user's files in two stores: rows in PostgreSQL and objects in R2    *)
(* (internal/files, the deletions of internal/buckets and                  *)
(* internal/projects, deleteUserFiles of internal/expiry/job.go).          *)
(*                                                                         *)
(* No transaction spans the stores, and the quota is checked several calls *)
(* before the row that counts against it is written.  Each handler is a    *)
(* process; worker[w].pc names the call it is about to make.  A file       *)
(* stands for its identifier, which the server draws anew for each upload  *)
(* and which determines bucket, key and size.  All buckets belong to one   *)
(* project.                                                                *)
(***************************************************************************)
EXTENDS Integers, FiniteSets, FiniteSetsExt

CONSTANTS
  FileIds,      \* the uploads that may be requested
  Buckets,
  BucketOf,     \* the bucket of each upload
  Size,         \* its bytes
  Quota,        \* the user's quota in bytes; 0 is unlimited
  Workers,      \* request goroutines
  Job,          \* the goroutine of expiry.Job
  None,         \* no file
  MaxActive,    \* bound: processes under way at a time
  MaxFaults     \* bound: failed calls and crashes

Procs == Workers \cup {Job}

ASSUME FilesAssumption ==
  /\ BucketOf \in [FileIds -> Buckets]
  /\ Size \in [FileIds -> Nat \ {0}]
  /\ Quota \in Nat /\ MaxActive \in Nat /\ MaxFaults \in Nat
  /\ Job \notin Workers /\ None \notin FileIds

VARIABLES
  buckets,    \* buckets rows
  rows,       \* files rows
  objects,    \* objects in R2
  ids,        \* identifiers: free, drawn, and told to the client as a URL or a file
  worker,     \* the processes
  faults,     \* faults so far
  stored,     \* history: files whose object was in R2 at some time
  contested,  \* history: files confirmed while they were listed or worked on
  missed,     \* history: files whose row a bulk deletion removed without seeing them
  raced       \* history: files whose quota check another row has overtaken

stores == <<buckets, rows, objects>>
history == <<stored, contested, missed, raced>>
vars == <<buckets, rows, objects, ids, worker, faults, stored, contested, missed, raced>>

Calls == {"head", "quota", "bucket", "put", "create", "undo", "erase", "unlist",
          "ids", "list", "wipe", "drop"}
Idle == [pc |-> "idle", op |-> "none", f |-> None, scope |-> {}, next |-> {}, todo |-> {}, sees |-> {}]
\* scope: buckets a bulk deletion removes; next: those not listed yet;
\* sees: files it has listed; todo: those whose objects it has not deleted yet.
ProcState == [pc: Calls \cup {"idle"},
              op: {"none", "upload", "presign", "confirm", "delete", "sweep", "purge"},
              f: FileIds \cup {None}, scope: SUBSET Buckets, next: SUBSET Buckets,
              todo: SUBSET FileIds, sees: SUBSET FileIds]

TypeOK ==
  /\ buckets \subseteq Buckets
  /\ rows \subseteq FileIds /\ objects \subseteq FileIds
  /\ ids \in [FileIds -> {"free", "drawn", "url", "file"}]
  /\ worker \in [Procs -> ProcState]
  /\ faults \in Nat
  /\ stored \subseteq FileIds /\ contested \subseteq FileIds /\ missed \subseteq FileIds
  /\ raced \subseteq FileIds

Init ==
  /\ buckets = Buckets
  /\ rows = {} /\ objects = {}
  /\ ids = [f \in FileIds |-> "free"]
  /\ worker = [w \in Procs |-> Idle]
  /\ faults = 0
  /\ stored = {} /\ contested = {} /\ missed = {} /\ raced = {}

-----------------------------------------------------------------------------
At(w, pc) == worker[w].pc = pc
Become(w, state) == worker' = [worker EXCEPT ![w] = state]
Goto(w, pc) == Become(w, [worker[w] EXCEPT !.pc = pc])
Return(w) == Become(w, Idle)
MayBegin(w) == At(w, "idle") /\ Cardinality({v \in Procs : ~At(v, "idle")}) < MaxActive
Begin(w, op, pc, f) ==
  /\ MayBegin(w)
  /\ Become(w, [Idle EXCEPT !.op = op, !.pc = pc, !.f = f])

FilesIn(B) == {f \in FileIds : BucketOf[f] \in B}
Usage(S) == MapThenSumSet(LAMBDA f : Size[f], S)
WorkedOn(f) == \E w \in Procs : worker[w].f = f \/ f \in worker[w].sees

Draw(f) == ids[f] = "free" /\ ids' = [ids EXCEPT ![f] = "drawn"]
Tell(f, what) == ids' = [ids EXCEPT ![f] = what]
Store(f) == objects' = objects \cup {f} /\ stored' = stored \cup {f}

-----------------------------------------------------------------------------
(* The beginning of Upload, PresignUpload and ConfirmUpload.               *)

Upload(w, f) ==
  /\ Draw(f)
  /\ Begin(w, "upload", "quota", f)
  /\ UNCHANGED <<stores, faults, history>>

PresignUpload(w, f) ==
  /\ Draw(f)
  /\ Begin(w, "presign", "quota", f)
  /\ UNCHANGED <<stores, faults, history>>

\* The client may confirm any key it knows, and may do so again.
ConfirmUpload(w, f) ==
  /\ ids[f] \in {"url", "file"}
  /\ Begin(w, "confirm", "head", f)
  /\ contested' = IF f \in rows \/ WorkedOn(f) THEN contested \cup {f} ELSE contested
  /\ UNCHANGED <<stores, ids, faults, stored, missed, raced>>

\* Mutant: the client's word is taken for the upload.
Head_Trusting(w) ==
  /\ At(w, "head")
  /\ Goto(w, "quota")
  /\ UNCHANGED <<stores, ids, faults, history>>

\* GetObjectSize.
Head(w) ==
  /\ At(w, "head")
  /\ IF worker[w].f \in objects THEN Goto(w, "quota") ELSE Return(w)
  /\ UNCHANGED <<stores, ids, faults, history>>

\* Mutant: a file is uploaded whenever the quota is not used up.
Incoming_Zero(w) == 0
\* checkQuota; a presigned upload is checked with no bytes of its own.
Incoming(w) == IF worker[w].op = "presign" THEN 0 ELSE Size[worker[w].f]
Fits(w) == Quota = 0 \/ Usage(rows) + Incoming(w) <= Quota
CheckQuota(w) ==
  /\ At(w, "quota") /\ Fits(w)
  /\ Goto(w, "bucket")
  /\ UNCHANGED <<stores, ids, faults, history>>

\* Over the quota, too large for the plan, or uploads are locked.
Refuse(w) ==
  /\ At(w, "quota")
  /\ Return(w)
  /\ UNCHANGED <<stores, ids, faults, history>>

\* checkBucket; PresignUpload then signs a URL, which is no call.
CheckBucket(w) ==
  LET f == worker[w].f IN
  /\ At(w, "bucket")
  /\ \/ /\ BucketOf[f] \notin buckets
        /\ Return(w) /\ UNCHANGED ids
     \/ /\ BucketOf[f] \in buckets /\ worker[w].op = "presign"
        /\ Tell(f, "url") /\ Return(w)
     \/ /\ BucketOf[f] \in buckets /\ worker[w].op # "presign"
        /\ Goto(w, IF worker[w].op = "upload" THEN "put" ELSE "create")
        /\ UNCHANGED ids
  /\ UNCHANGED <<stores, faults, history>>

Put(w) ==
  /\ At(w, "put")
  /\ Store(worker[w].f)
  /\ Goto(w, "create")
  /\ UNCHANGED <<buckets, rows, ids, faults, contested, missed, raced>>

\* The foreign key and the primary key refuse rows of a deleted bucket and
\* second rows.
Insertable(f) == BucketOf[f] \in buckets /\ f \notin rows
Insert(w, f) ==
  /\ rows' = rows \cup {f}
  /\ raced' = raced \cup {worker[v].f : v \in {v \in Workers \ {w} : worker[v].pc \in {"bucket", "put", "create"}}}
\* Mutant: the object is left to a later clean-up.
AfterRefusal_NoUndo(w) == Return(w)
\* Only Upload then deletes the object again.
AfterRefusal(w) == IF worker[w].op = "upload" THEN Goto(w, "undo") ELSE Return(w)
Create(w) ==
  LET f == worker[w].f IN
  /\ At(w, "create")
  /\ \/ /\ Insertable(f)
        /\ Insert(w, f)
        /\ IF worker[w].op = "upload" THEN Tell(f, "file") ELSE UNCHANGED ids
        /\ Return(w)
     \/ ~Insertable(f) /\ AfterRefusal(w) /\ UNCHANGED <<rows, ids, raced>>
  /\ UNCHANGED <<buckets, objects, faults, stored, contested, missed>>

Undo(w) ==
  /\ At(w, "undo")
  /\ objects' = objects \ {worker[w].f}
  /\ Return(w)
  /\ UNCHANGED <<buckets, rows, ids, faults, history>>

\* The client uses its URL, as often as it likes.  That it is valid for 15 minutes
\* only takes behaviours away.
ClientPut(f) ==
  /\ ids[f] = "url"
  /\ Store(f)
  /\ UNCHANGED <<buckets, rows, ids, worker, faults, contested, missed, raced>>

-----------------------------------------------------------------------------
(* Delete: the object first, then the row.                                 *)

Delete(w, f) ==
  /\ f \in rows
  /\ Begin(w, "delete", "erase", f)
  /\ UNCHANGED <<stores, ids, faults, history>>

\* Mutant: the object is deleted and the row is forgotten.
Erase_KeepsRow(w) ==
  /\ At(w, "erase")
  /\ objects' = objects \ {worker[w].f}
  /\ Return(w)
  /\ UNCHANGED <<buckets, rows, ids, faults, history>>

Erase(w) ==
  /\ At(w, "erase")
  /\ objects' = objects \ {worker[w].f}
  /\ Goto(w, "unlist")
  /\ UNCHANGED <<buckets, rows, ids, faults, history>>

Unlist(w) ==
  /\ At(w, "unlist")
  /\ rows' = rows \ {worker[w].f}
  /\ Return(w)
  /\ UNCHANGED <<buckets, objects, ids, faults, history>>

-----------------------------------------------------------------------------
(* Bulk deletions: a bucket, the project, all files of an inactive user.   *)

DeleteBucket(w, b) ==
  /\ MayBegin(w) /\ b \in buckets
  /\ Become(w, [Idle EXCEPT !.op = "sweep", !.pc = "list", !.scope = {b}, !.next = {b}])
  /\ UNCHANGED <<stores, ids, faults, history>>

DeleteProject(w) ==
  /\ MayBegin(w) /\ buckets # {}
  /\ Become(w, [Idle EXCEPT !.op = "sweep", !.pc = "ids", !.scope = Buckets])
  /\ UNCHANGED <<stores, ids, faults, history>>

\* Where a bulk deletion goes on: objects, buckets, and then the rows.
Onward(state) ==
  [state EXCEPT !.pc = IF state.todo # {} THEN "wipe"
                       ELSE IF state.next # {} THEN "list" ELSE "drop"]

\* Mutant: an id that could not be scanned is listed as the zero one.
ListIDsByProject_Zero(w) ==
  /\ At(w, "ids")
  /\ Become(w, Onward([worker[w] EXCEPT !.next = buckets \cup {None}]))
  /\ UNCHANGED <<stores, ids, faults, history>>

ListIDsByProject(w) ==
  /\ At(w, "ids")
  /\ Become(w, Onward([worker[w] EXCEPT !.next = buckets]))
  /\ UNCHANGED <<stores, ids, faults, history>>

\* DeleteByPrefix lists all pages of a bucket's objects and then deletes them.
ListObjects(w, b) ==
  LET found == objects \cap FilesIn({b}) IN
  /\ At(w, "list") /\ b \in worker[w].next
  /\ Become(w, Onward([worker[w] EXCEPT !.next = @ \ {b}, !.todo = found, !.sees = @ \cup found]))
  /\ UNCHANGED <<stores, ids, faults, history>>

\* deleteUserFiles selects rows instead.
SelectFiles ==
  /\ MayBegin(Job) /\ rows # {}
  /\ Become(Job, [Idle EXCEPT !.op = "purge", !.pc = "wipe", !.todo = rows, !.sees = rows])
  /\ UNCHANGED <<stores, ids, faults, history>>

Wipe(w, f) ==
  /\ At(w, "wipe") /\ f \in worker[w].todo
  /\ objects' = objects \ {f}
  /\ Become(w, Onward([worker[w] EXCEPT !.todo = @ \ {f}]))
  /\ UNCHANGED <<buckets, rows, ids, faults, history>>

\* The rows go: with their bucket, by ON DELETE CASCADE, or all the user's.
Doomed(w) == IF worker[w].op = "purge" THEN rows ELSE rows \cap FilesIn(worker[w].scope)
Drop(w) ==
  /\ At(w, "drop")
  /\ buckets' = buckets \ worker[w].scope
  /\ rows' = rows \ Doomed(w)
  /\ missed' = missed \cup (Doomed(w) \ worker[w].sees)
  /\ Return(w)
  /\ UNCHANGED <<objects, ids, faults, stored, contested, raced>>

-----------------------------------------------------------------------------
(* Faults.                                                                 *)

\* What the handlers do with an error: Upload deletes the object, bulk deletions
\* go on with the next bucket or file, all others return it.
AfterError(w) ==
  CASE At(w, "create") -> AfterRefusal(w)
    [] At(w, "ids") -> Goto(w, "drop")
    [] At(w, "list") ->
         \E b \in worker[w].next : Become(w, Onward([worker[w] EXCEPT !.next = @ \ {b}]))
    [] At(w, "wipe") /\ worker[w].op = "purge" ->
         \E f \in worker[w].todo : Become(w, Onward([worker[w] EXCEPT !.todo = @ \ {f}]))
    [] At(w, "wipe") /\ worker[w].op = "sweep" ->
         Become(w, Onward([worker[w] EXCEPT !.todo = {}]))
    [] OTHER -> Return(w)
CallFails(w) ==
  /\ faults < MaxFaults /\ faults' = faults + 1
  /\ ~At(w, "idle")
  /\ AfterError(w)
  /\ UNCHANGED <<stores, ids, history>>

\* The write was done, but the answer is an error.
AnswerLost(w) ==
  LET f == worker[w].f IN
  /\ faults < MaxFaults /\ faults' = faults + 1
  /\ \/ At(w, "put") /\ Store(f) /\ UNCHANGED <<rows, raced>>
     \/ At(w, "create") /\ Insertable(f) /\ Insert(w, f) /\ UNCHANGED <<objects, stored>>
  /\ AfterError(w)
  /\ UNCHANGED <<buckets, ids, contested, missed>>

Crash ==
  /\ faults < MaxFaults /\ faults' = faults + 1
  /\ \E w \in Procs : ~At(w, "idle")
  /\ worker' = [w \in Procs |-> Idle]
  /\ UNCHANGED <<stores, ids, history>>

-----------------------------------------------------------------------------
Requests(w) ==
  \/ \E f \in FileIds : Upload(w, f) \/ PresignUpload(w, f) \/ ConfirmUpload(w, f) \/ Delete(w, f)
  \/ \E b \in Buckets : DeleteBucket(w, b)
  \/ DeleteProject(w)

CallsOf(w) ==
  \/ Head(w) \/ CheckQuota(w) \/ Refuse(w) \/ CheckBucket(w)
  \/ Put(w) \/ Create(w) \/ Undo(w)
  \/ Erase(w) \/ Unlist(w)
  \/ ListIDsByProject(w) \/ (\E b \in Buckets : ListObjects(w, b))
  \/ (\E f \in FileIds : Wipe(w, f)) \/ Drop(w)

Client == \E f \in FileIds : ClientPut(f)
Fails(w) == CallFails(w) \/ AnswerLost(w)

Next ==
  \/ \E w \in Workers : Requests(w)
  \/ \E w \in Procs : CallsOf(w) \/ Fails(w)
  \/ SelectFiles \/ Client \/ Crash

Spec == Init /\ [][Next]_vars

-----------------------------------------------------------------------------
(* Properties, and the invariant that proves RowsWereStored.                                                            *)

\* No row without an upload: whatever overlaps or fails, a files row is only
\* written for an identifier whose object R2 has held, as ConfirmUpload's comment
\* "This also confirms the file was actually uploaded" promises.
RowsWereStored == rows \subseteq stored

\* Rows a deletion is about to remove although their objects may be gone.
BeingDeleted(f) == \E w \in Procs :
  (worker[w].f = f /\ worker[w].op = "delete") \/ f \in worker[w].sees

\* What is listed can be downloaded: without faults, a listed file has its object,
\* unless it is being deleted or was confirmed while listed or worked on, in which
\* case the confirmation may write the row after the deletion took both.
RowHasObject ==
  faults = 0 => \A f \in rows \ contested : f \in objects \/ BeingDeleted(f)

\* The quota is checked several calls before the row that counts against it, so
\* uploads at once can exceed it.  Only those can: without the files whose check
\* another row overtook, the rows always fit.
QuotaKept == Quota # 0 => Usage(rows \ raced) <= Quota

\* Nothing stays in R2 that no row names, once all handlers are done and nothing
\* failed, but what was put through a presigned URL and what a bulk deletion did
\* not see because it was uploaded after the listing.
Quiet == \A w \in Procs : At(w, "idle")
OrphansExplained ==
  Quiet /\ faults = 0 => \A f \in objects \ rows : ids[f] = "url" \/ f \in missed

\* What a process in state s has learnt when S were stored before its next call: ConfirmUpload is past Head, and
\* whoever is about to insert a row, only with an object that was stored.
Learnt(s, S) ==
  /\ s.pc \in {"head", "quota", "bucket", "put", "create", "undo", "erase", "unlist"} => s.f \in FileIds
  /\ s.pc = "head" => s.op = "confirm"
  /\ s.pc \in {"quota", "bucket"} => s.op \in {"upload", "presign", "confirm"}
  /\ s.pc \in {"quota", "bucket"} /\ s.op = "confirm" => s.f \in S
  /\ s.pc = "create" => s.f \in S

\* The inductive invariant of FilesProofs.
FInv ==
  /\ TypeOK
  /\ objects \subseteq stored
  /\ RowsWereStored
  /\ \A w \in Procs : Learnt(worker[w], stored)

=============================================================================
