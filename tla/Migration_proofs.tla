-------------------------- MODULE Migration_proofs --------------------------
(***************************************************************************)
(* What holds of Migration for any number of tasks, requests, workers,     *)
(* videos, paths, failures and restarts: it drives its scheduler as        *)
(* JobQueue allows, it keeps its types and no task is run twice at a time; *)
(* then the life of a task.                                                *)
(*                                                                         *)
(* None of these is inductive on its own.  The invariant IInv adds what    *)
(* ties the parts of the state together: the runner and the requests work  *)
(* on tasks that have a document (so its paths are paths), a worker is     *)
(* idle exactly when it has no job, and recovery runs alone (so the plan   *)
(* it submits meets an empty runner).                                      *)
(*                                                                         *)
(* LocksHeld: where nobody cancels, a run works under the locks of its own *)
(* task.  WorksUnderLock is not inductive on its own: a request about to   *)
(* settle a cancelled task would take the lock away from under a run       *)
(* (NobodySettles rules it out), and so would a second worker with the     *)
(* same task (ExclusiveRun, part of IInv).                                 *)
(*                                                                         *)
(* SettledStays: where besides retries come one at a time, what is         *)
(* COMPLETED or CANCELLED stays so.  Every save of a run is under its lock *)
(* and an insert meets no document, so only a reset is left, and the task  *)
(* it was prepared for is FAILED still.                                    *)
(*                                                                         *)
(* NobodyIsStranded: where nobody retries and the database answers, an     *)
(* unfinished task is always in somebody's care, who keeps it until it is  *)
(* settled or hands it on.                                                 *)
(***************************************************************************)
EXTENDS Migration, JobQueue_proofs

Known(t) == doc[t].status # "NONE"

(* A document that exists has its two paths, a failed one its phase. *)
DocInv ==
  /\ doc \in [Tasks -> Document]
  /\ \A t \in Tasks :
       /\ Known(t) => doc[t].src \in Paths /\ doc[t].tgt \in Paths
       /\ doc[t].status = "FAILED" => doc[t].failed \in Active

(* The runner cares for tasks that have a document, a worker is idle       *)
(* exactly when it has no job, and a run under way has a status.           *)
Unstarted == {"idle", "load", "skipped", "save dropped"}
RunInv ==
  /\ wk \in [Workers -> Run]
  /\ \A t \in waiting \cup running : Known(t)
  /\ \A w \in Workers :
       /\ wk[w].pc = "idle" <=> job[w].task = None
       /\ wk[w].pc \notin Unstarted => wk[w].status \in Status

(* A request under way works on a task, and on a document unless it is     *)
(* about to insert it.                                                     *)
CallOK(r, d) ==
  r.op # "idle" =>
    /\ r.task \in Tasks
    /\ r.op # "insert" => d[r.task].status # "NONE"
    /\ r.op = "insert" => r.src \in Paths /\ r.tgt \in Paths
CallInv ==
  /\ client \in [Clients -> Call]
  /\ \A c \in Clients : CallOK(client[c], doc)

(* Recovery runs alone: nothing is queued, run or requested before it is   *)
(* over, what it has yet to handle is unfinished, and what it has planned  *)
(* is planned once.                                                        *)
Alone ==
  /\ waiting \cup running = {}
  /\ \A w \in Workers : wk[w].pc = "idle"
  /\ \A c \in Clients : client[c].op = "idle"
PlanInv ==
  /\ \A t \in orphans : IsLive(t)
  /\ \A t \in TasksIn(plan) : Known(t)
  /\ TasksIn(plan) \cap orphans = {}
  /\ \A i, j \in DOMAIN plan : plan[i].task = plan[j].task => i = j
BootInv == BootTypeOK /\ (booting => Alone /\ PlanInv)

DataInv == DocInv /\ StoreTypeOK /\ flags \in SUBSET Tasks
IInv == JobInv /\ DataInv /\ RunInv /\ CallInv /\ BootInv

(* Documents are written, never deleted. *)
DocsStay == \A t \in Tasks : Known(t) => (Known(t))'

-----------------------------------------------------------------------------
LEMMA InitIInv == MigrationInit => IInv
<1> SUFFICES ASSUME MigrationInit PROVE IInv
  OBVIOUS
<1> USE DEF MigrationInit
<1>1. JobInv
  BY JobInitInv
<1>2. DocInv
  BY DEF DocInv, NoDoc, Document, Known
<1>3. StoreTypeOK
  BY MigrationAssumption DEF StoreTypeOK, Content
<1>4. RunInv
  BY DEF RunInv, IdleRun, Run, Pcs, Content, JobInit, NoJob, Unstarted
<1>5. CallInv
  BY DEF CallInv, CallOK, IdleClient, Call, Ops, Phase
<1>6. BootInv
  <2>1. booting = FALSE /\ orphans = {} /\ plan = <<>> /\ restarts = 0
    OBVIOUS
  <2>2. BootTypeOK
    <3>1. <<>> \in Seq(Job) /\ FALSE \in BOOLEAN /\ 0 \in Nat
      OBVIOUS
    <3> QED BY <2>1, <3>1 DEF BootTypeOK
  <2> HIDE DEF MigrationInit
  <2> QED BY <2>1, <2>2 DEF BootInv
<1> QED BY <1>1, <1>2, <1>3, <1>4, <1>5, <1>6 DEF IInv, DataInv

-----------------------------------------------------------------------------
(* What saving a document does to the documents. *)
LEMMA PersistInv ==
  ASSUME DocInv, NEW t \in Tasks, NEW s \in Status \ {"FAILED"}, Known(t),
         Persist(t, s)
  PROVE  DocInv' /\ DocsStay
<1> DEFINE d == [doc[t] EXCEPT !.status = s, !.failed = "NONE"]
<1>1. doc[t] \in Document
  BY DEF DocInv
<1>2. /\ d \in Document /\ d.status = s /\ d.src = doc[t].src /\ d.tgt = doc[t].tgt
  BY <1>1 DEF Document
<1>3. doc' = [doc EXCEPT ![t] = d]
  BY DEF Persist
<1>4. s # "NONE" /\ s # "FAILED"
  BY DEF Status, Active, Phase, TERMINAL
<1> HIDE DEF d
<1>5. doc' \in [Tasks -> Document]
  BY <1>2, <1>3 DEF DocInv
<1>6. \A u \in Tasks : doc'[u] = IF u = t THEN d ELSE doc[u]
  BY <1>3 DEF DocInv
<1> QED BY <1>2, <1>4, <1>5, <1>6 DEF DocInv, DocsStay, Known

LEMMA SameDocs ==
  ASSUME DocInv, UNCHANGED doc
  PROVE  DocInv' /\ DocsStay
BY DEF DocInv, DocsStay, Known

LEMMA CleanupType ==
  ASSUME StoreTypeOK, NEW t \in Tasks, NEW f \in AfterCleanup(t)
  PROVE  f \in [Paths -> Content]
BY DEF StoreTypeOK, AfterCleanup, Content

(* The task a worker runs has a document. *)
LEMMA TaskOfWorker ==
  ASSUME IInv, NEW w \in Workers, wk[w].pc # "idle"
  PROVE  /\ TaskOf(w) \in Tasks /\ Known(TaskOf(w)) /\ TaskOf(w) \in running
         /\ Src(w) \in Paths /\ Tgt(w) \in Paths
         /\ ~booting
<1>1. job[w].task # None
  BY DEF IInv, RunInv
<1>2. job[w].task \in running /\ job[w].task \in Tasks
  BY <1>1 DEF IInv, JobInv, JobTypeOK, ExclusiveRun
<1>3. Known(job[w].task)
  BY <1>2 DEF IInv, RunInv
<1>4. ~booting
  BY DEF IInv, BootInv, Alone
<1> QED BY <1>2, <1>3, <1>4 DEF TaskOf, Src, Tgt, IInv, DataInv, DocInv

(* A step of the run of worker w that leaves the scheduler alone. *)
LEMMA WorkerMoves ==
  ASSUME IInv, NEW w \in Workers, wk[w].pc # "idle",
         UNCHANGED <<jobVars, client, bootVars, restarts>>,
         NEW r \in Run, wk' = [wk EXCEPT ![w] = r], r.pc # "idle",
         r.pc \notin Unstarted => r.status \in Status,
         DataInv', DocsStay
  PROVE  IInv'
<1>1. ~booting /\ ~booting'
  BY TaskOfWorker DEF bootVars
<1>2. JobInv'
  BY DEF IInv, JobInv, JobTypeOK, ExclusiveRun, TasksIn, jobVars
<1>3. RunInv'
  <2>1. wk' \in [Workers -> Run]
    BY DEF IInv, RunInv
  <2>2. \A t \in waiting' \cup running' : (Known(t))'
    BY DEF IInv, RunInv, JobInv, JobTypeOK, jobVars, DocsStay
  <2>3. ASSUME NEW v \in Workers
        PROVE  /\ wk'[v].pc = "idle" <=> job'[v].task = None
               /\ wk'[v].pc \notin Unstarted => wk'[v].status \in Status
    <3>1. wk'[v] = IF v = w THEN r ELSE wk[v]
      BY DEF IInv, RunInv
    <3> QED BY <3>1 DEF IInv, RunInv, jobVars
  <2> QED BY <2>1, <2>2, <2>3 DEF RunInv
<1>4. CallInv'
  BY DEF IInv, CallInv, CallOK, DocsStay, Known
<1>5. BootInv'
  BY <1>1 DEF IInv, BootInv, BootTypeOK, bootVars
<1> QED BY <1>2, <1>3, <1>4, <1>5 DEF IInv

(* A step of request c that leaves the scheduler and the workers alone. *)
LEMMA RequestMoves ==
  ASSUME IInv, NEW c \in Clients, ~booting,
         UNCHANGED <<jobVars, wk, bootVars, restarts>>,
         NEW r \in Call, client' = [client EXCEPT ![c] = r],
         CallOK(r, doc'), DataInv', DocsStay
  PROVE  IInv'
<1>1. ~booting'
  BY DEF bootVars
<1>2. JobInv'
  BY DEF IInv, JobInv, JobTypeOK, ExclusiveRun, TasksIn, jobVars
<1>3. RunInv'
  BY DEF IInv, RunInv, JobInv, JobTypeOK, jobVars, DocsStay
<1>4. CallInv'
  <2>1. client' \in [Clients -> Call]
    BY DEF IInv, CallInv
  <2>2. ASSUME NEW k \in Clients PROVE CallOK(client'[k], doc')
    <3>1. client'[k] = IF k = c THEN r ELSE client[k]
      BY DEF IInv, CallInv
    <3>2. CASE k = c
      BY <3>1, <3>2 DEF CallOK, Known
    <3>3. CASE k # c
      BY <3>1, <3>3 DEF IInv, CallInv, CallOK, DocsStay, Known
    <3> QED BY <3>2, <3>3
  <2> QED BY <2>1, <2>2 DEF CallInv
<1>5. BootInv'
  BY <1>1 DEF IInv, BootInv, BootTypeOK, bootVars
<1> QED BY <1>2, <1>3, <1>4, <1>5 DEF IInv

(* The run of w changes, and at most files, records and its flag with it. *)
LEMMA RunChanges ==
  ASSUME IInv, NEW w \in Workers, wk[w].pc # "idle",
         UNCHANGED <<jobVars, doc, client, bootVars, restarts>>,
         NEW r \in Run, wk' = [wk EXCEPT ![w] = r], r.pc # "idle",
         r.pc \notin Unstarted => r.status \in Status,
         StoreTypeOK', flags' \subseteq flags
  PROVE  IInv'
<1>1. DataInv' /\ DocsStay
  BY SameDocs DEF IInv, DataInv
<1> QED BY <1>1, WorkerMoves

(* The run of w goes on at pc x. *)
LEMMA GoesOn ==
  ASSUME IInv, NEW w \in Workers, wk[w].pc \notin Unstarted,
         UNCHANGED <<jobVars, doc, client, bootVars, restarts>>,
         NEW x \in Pcs \ {"idle"}, wk' = [wk EXCEPT ![w].pc = x],
         StoreTypeOK', flags' \subseteq flags
  PROVE  IInv'
<1> DEFINE r == [wk[w] EXCEPT !.pc = x]
<1>1. wk[w] \in Run /\ wk[w].status \in Status /\ wk[w].pc # "idle"
  BY DEF IInv, RunInv, Unstarted
<1>2. r \in Run /\ r.pc = x /\ r.status = wk[w].status
  BY <1>1 DEF Run
<1>3. wk' = [wk EXCEPT ![w] = r]
  OBVIOUS
<1> HIDE DEF r
<1> QED BY <1>1, <1>2, <1>3, RunChanges

(* The types of what is copied, removed and repointed. *)
LEMMA SameStore ==
  ASSUME StoreTypeOK, UNCHANGED <<file, rec>>
  PROVE  StoreTypeOK'
BY DEF StoreTypeOK

LEMMA FileType ==
  ASSUME StoreTypeOK, NEW p \in Paths, NEW x \in Content,
         file' = [file EXCEPT ![p] = x], UNCHANGED rec
  PROVE  StoreTypeOK'
BY DEF StoreTypeOK

LEMMA CleanedType ==
  ASSUME StoreTypeOK, NEW t \in Tasks, file' \in AfterCleanup(t), UNCHANGED rec
  PROVE  StoreTypeOK'
BY CleanupType DEF StoreTypeOK

-----------------------------------------------------------------------------
(* run_task's checks and _run_state_machine's saves keep the invariant. *)
LEMMA LoadInv ==
  ASSUME IInv, NEW w \in Workers, SkipSettled(w) \/ DropQueued(w) \/ StartRun(w)
  PROVE  IInv'
<1>1. wk[w].pc = "load" /\ wk[w] \in Run
  BY DEF SkipSettled, DropQueued, StartRun, At, IInv, RunInv
<1>2. StoreTypeOK'
  BY SameStore DEF SkipSettled, DropQueued, StartRun, IInv, DataInv, dataVars
<1>3. ASSUME NEW x \in {"skipped", "save dropped"},
             Resume(w, x), UNCHANGED <<jobVars, doc, client, bootVars, restarts>>,
             flags' \subseteq flags
      PROVE  IInv'
  <2> DEFINE r == [wk[w] EXCEPT !.pc = x]
  <2>1. r \in Run /\ r.pc = x /\ x \in Unstarted /\ x # "idle"
    BY <1>1 DEF Run, Pcs, Unstarted
  <2>2. wk' = [wk EXCEPT ![w] = r]
    BY <1>3 DEF Resume
  <2> HIDE DEF r
  <2> QED BY <1>1, <1>2, <1>3, <2>1, <2>2, RunChanges
<1>4. CASE SkipSettled(w)
  BY <1>3, <1>4 DEF SkipSettled, dataVars
<1>5. CASE DropQueued(w)
  BY <1>3, <1>5 DEF DropQueued, dataVars
<1>6. CASE StartRun(w)
  <2> DEFINE r == [wk[w] EXCEPT !.pc = EntryPoint(job[w].start),
                                !.status = doc[TaskOf(w)].status]
  <2>1. EntryPoint(job[w].start) \in Pcs \ {"idle"}
    BY DEF EntryPoint, Pcs, SavedStatus
  <2>2. doc[TaskOf(w)].status \in Status
    BY <1>6 DEF StartRun, IsLive, Status
  <2>3. r \in Run /\ r.pc # "idle" /\ r.status \in Status
    BY <1>1, <2>1, <2>2 DEF Run
  <2>4. /\ wk' = [wk EXCEPT ![w] = r]
        /\ UNCHANGED <<jobVars, doc, client, bootVars, restarts, flags>>
    BY <1>6 DEF StartRun, dataVars
  <2> HIDE DEF r
  <2> QED BY <1>1, <1>2, <2>3, <2>4, RunChanges
<1> QED BY <1>4, <1>5, <1>6

LEMMA SaveStatusInv ==
  ASSUME IInv, NEW w \in Workers, NEW pc \in Pcs \ {"idle"},
         NEW s \in Status \ {"FAILED"}, NEW next \in Pcs \ {"idle"},
         SaveStatus(w, pc, s, next)
  PROVE  IInv'
<1> DEFINE r == [wk[w] EXCEPT !.pc = next, !.status = s]
<1>1. wk[w].pc # "idle" /\ wk[w] \in Run
  BY DEF SaveStatus, At, IInv, RunInv
<1>2. r \in Run /\ r.pc # "idle" /\ r.status \in Status
  BY <1>1 DEF Run
<1>3. /\ wk' = [wk EXCEPT ![w] = r]
      /\ UNCHANGED <<jobVars, client, bootVars, restarts>>
  BY DEF SaveStatus
<1>4. DataInv' /\ DocsStay
  <2>1. DocInv' /\ DocsStay
    BY <1>1, TaskOfWorker, PersistInv DEF SaveStatus, IInv, DataInv
  <2>2. StoreTypeOK'
    BY SameStore DEF SaveStatus, IInv, DataInv
  <2> QED BY <2>1, <2>2 DEF SaveStatus, IInv, DataInv
<1> HIDE DEF r
<1> QED BY <1>1, <1>2, <1>3, <1>4, WorkerMoves

LEMMA SavesInv ==
  ASSUME IInv, NEW w \in Workers,
         \/ SaveProcessing(w) \/ SaveProcessDone(w) \/ SaveUpdating(w)
         \/ SaveDbUpdated(w) \/ SaveDeleting(w) \/ SaveCompleted(w)
         \/ SaveDropped(w) \/ SaveCancelled(w)
  PROVE  IInv'
<1>1. /\ {"save processing", "open", "copied", "save updating", "find",
          "save db updated", "save deleting", "delete source",
          "save completed", "end", "save dropped", "skipped",
          "save cancelled"} \subseteq Pcs \ {"idle"}
      /\ {"PROCESSING", "PROCESS_DONE", "UPDATING_DB", "DB_UPDATED",
          "DELETING_SOURCE", "COMPLETED", "CANCELLED"} \subseteq Status \ {"FAILED"}
  BY DEF Pcs, SavedStatus, Status, Active, Phase, TERMINAL
<1>2. CASE SaveProcessing(w)
  BY <1>1, <1>2, SaveStatusInv DEF SaveProcessing
<1>3. CASE SaveProcessDone(w)
  BY <1>1, <1>3, SaveStatusInv DEF SaveProcessDone
<1>4. CASE SaveUpdating(w)
  BY <1>1, <1>4, SaveStatusInv DEF SaveUpdating
<1>5. CASE SaveDbUpdated(w)
  BY <1>1, <1>5, SaveStatusInv DEF SaveDbUpdated
<1>6. CASE SaveDeleting(w)
  BY <1>1, <1>6, SaveStatusInv DEF SaveDeleting
<1>7. CASE SaveCompleted(w)
  BY <1>1, <1>7, SaveStatusInv DEF SaveCompleted
<1>8. CASE SaveDropped(w)
  BY <1>1, <1>8, SaveStatusInv DEF SaveDropped
<1>9. CASE SaveCancelled(w)
  BY <1>1, <1>9, SaveStatusInv DEF SaveCancelled
<1> QED BY <1>2, <1>3, <1>4, <1>5, <1>6, <1>7, <1>8, <1>9

(* What a save had put in memory is a status, so is what breaks it.        *)
LEMMA SavedStatuses ==
  /\ \A pc \in DOMAIN SavedStatus : SavedStatus[pc] \in Status
  /\ DOMAIN SavedStatus \subseteq Pcs \ Unstarted
<1>1. DOMAIN SavedStatus =
        {"save processing", "copied", "save updating", "save db updated",
         "save deleting", "save completed", "save cancelled"}
  BY DEF SavedStatus
<1>2. ASSUME NEW pc \in DOMAIN SavedStatus PROVE SavedStatus[pc] \in Status
  BY <1>1 DEF SavedStatus, Status, Active, Phase, TERMINAL
<1>3. DOMAIN SavedStatus \cap Unstarted = {}
  BY <1>1 DEF Unstarted
<1> QED BY <1>2, <1>3 DEF Pcs

LEMMA SaveRaisesInv ==
  ASSUME IInv, NEW w \in Workers, SaveRaises(w)
  PROVE  IInv'
<1> DEFINE r == [wk[w] EXCEPT !.pc = "save failed",
                              !.status = SavedStatus[wk[w].pc]]
<1>1. wk[w].pc # "idle" /\ wk[w] \in Run /\ SavedStatus[wk[w].pc] \in Status
  BY SavedStatuses DEF SaveRaises, IInv, RunInv, Unstarted
<1>2. r \in Run /\ r.pc = "save failed" /\ r.status \in Status
  BY <1>1 DEF Run, Pcs
<1>3. /\ wk' = [wk EXCEPT ![w] = r]
      /\ UNCHANGED <<jobVars, doc, client, bootVars, restarts, flags>>
  BY DEF SaveRaises, dataVars
<1>4. StoreTypeOK'
  BY SameStore DEF SaveRaises, dataVars, IInv, DataInv
<1> HIDE DEF r
<1> QED BY <1>1, <1>2, <1>3, <1>4, RunChanges

LEMMA SaveFailedInv ==
  ASSUME IInv, NEW w \in Workers, SaveFailed(w)
  PROVE  IInv'
<1> DEFINE t == TaskOf(w)
           d == [doc[t] EXCEPT !.status = "FAILED",
                               !.failed = FailedStep(wk[w].status)]
           r == [wk[w] EXCEPT !.pc = "end"]
<1>1. wk[w].pc = "save failed" /\ wk[w] \in Run /\ wk[w].status \in Status
  BY DEF SaveFailed, At, IInv, RunInv, Unstarted
<1>2. FailedStep(wk[w].status) \in Active
  BY <1>1 DEF FailedStep, Status, Active, Phase
<1>3. t \in Tasks /\ Known(t) /\ doc[t] \in Document
  BY <1>1, TaskOfWorker DEF IInv, DataInv, DocInv
<1>4. /\ d \in Document /\ d.status = "FAILED" /\ d.failed \in Active
      /\ d.src = doc[t].src /\ d.tgt = doc[t].tgt
  BY <1>2, <1>3 DEF Document, Status, TERMINAL
<1>5. doc' = [doc EXCEPT ![t] = d]
  BY DEF SaveFailed
<1>6. r \in Run /\ r.pc = "end" /\ r.status \in Status
  BY <1>1 DEF Run, Pcs
<1>7. /\ wk' = [wk EXCEPT ![w] = r]
      /\ UNCHANGED <<jobVars, client, bootVars, restarts, flags, file, rec>>
  BY DEF SaveFailed, Resume
<1> HIDE DEF t, d, r
<1>8. \A u \in Tasks : doc'[u] = IF u = t THEN d ELSE doc[u]
  BY <1>5 DEF IInv, DataInv, DocInv
<1>9. DocInv' /\ DocsStay
  <2>1. doc' \in [Tasks -> Document]
    BY <1>4, <1>5 DEF IInv, DataInv, DocInv
  <2> QED BY <1>3, <1>4, <1>8, <2>1 DEF IInv, DataInv, DocInv, DocsStay, Known
<1>10. DataInv'
  BY <1>7, <1>9, SameStore DEF IInv, DataInv
<1> QED BY <1>1, <1>6, <1>7, <1>9, <1>10, WorkerMoves

LEMMA RunCrashesInv ==
  ASSUME IInv, NEW w \in Workers, RunCrashes(w)
  PROVE  IInv'
<1> DEFINE x == IF At(w, "save failed") THEN "end" ELSE "skipped"
           r == [wk[w] EXCEPT !.pc = x]
<1>1. wk[w].pc # "idle" /\ wk[w] \in Run
  BY DEF RunCrashes, IInv, RunInv
<1>2. x = "end" => wk[w].status \in Status
  BY DEF At, IInv, RunInv, Unstarted
<1>3. x \in {"end", "skipped"}
  OBVIOUS
<1>4. r \in Run /\ r.pc = x /\ r.status = wk[w].status
  BY <1>1 DEF Run, Pcs
<1>5. /\ wk' = [wk EXCEPT ![w] = r]
      /\ UNCHANGED <<jobVars, doc, client, bootVars, restarts, flags, file, rec>>
  BY DEF RunCrashes, Resume, dataVars
<1> HIDE DEF x, r
<1>6. StoreTypeOK'
  BY <1>5, SameStore DEF IInv, DataInv
<1> QED BY <1>1, <1>2, <1>3, <1>4, <1>5, <1>6, RunChanges DEF Unstarted

-----------------------------------------------------------------------------
(* The copy and the database update keep the invariant. *)
LEMMA CopyInv ==
  ASSUME IInv, NEW w \in Workers, CopyStep(w)
  PROVE  IInv'
<1>1. ASSUME wk[w].pc \notin Unstarted
      PROVE  /\ TaskOf(w) \in Tasks /\ Known(TaskOf(w))
             /\ Src(w) \in Paths /\ Tgt(w) \in Paths
             /\ wk[w] \in Run /\ wk[w].status \in Status
             /\ StoreTypeOK
  BY <1>1, TaskOfWorker DEF Unstarted, IInv, RunInv, DataInv
<1>2. {"read", "write", "copied", "save cancelled", "save failed"}
        \subseteq Pcs \ {"idle"}
  BY DEF Pcs, SavedStatus
<1>3. CASE CopyOpen(w)
  <2>1. wk[w].pc \notin Unstarted
    BY <1>3 DEF CopyOpen, At, Unstarted
  <2>2. StoreTypeOK'
    BY <1>1, <1>3, <2>1, FileType, SameStore DEF CopyOpen, Content
  <2> QED BY <1>2, <1>3, <2>1, <2>2, GoesOn DEF CopyOpen, Resume
<1>4. CASE CopyRead(w)
  <2> DEFINE r == [wk[w] EXCEPT !.pc = "write", !.data = file[Src(w)]]
  <2>1. wk[w].pc \notin Unstarted /\ wk[w].pc # "idle"
    BY <1>4 DEF CopyRead, At, Unstarted
  <2>2. file[Src(w)] \in Content
    BY <1>1, <2>1 DEF StoreTypeOK
  <2>3. r \in Run /\ r.pc = "write" /\ r.status \in Status
    BY <1>1, <2>1, <2>2 DEF Run, Pcs
  <2>4. /\ wk' = [wk EXCEPT ![w] = r]
        /\ UNCHANGED <<jobVars, doc, client, bootVars, restarts, flags, file, rec>>
    BY <1>4 DEF CopyRead, dataVars
  <2> HIDE DEF r
  <2>5. StoreTypeOK'
    BY <1>1, <2>1, <2>4, SameStore
  <2> QED BY <2>1, <2>3, <2>4, <2>5, RunChanges
<1>5. CASE CopyWrite(w)
  <2>1. wk[w].pc \notin Unstarted
    BY <1>5 DEF CopyWrite, At, Unstarted
  <2>2. PICK x \in {wk[w].data} \cup {Partial} : file' = [file EXCEPT ![Tgt(w)] = x]
    BY <1>5 DEF CopyWrite
  <2>3. x \in Content
    BY <1>1, <2>1 DEF Run, Content
  <2>4. StoreTypeOK'
    BY <1>1, <1>5, <2>1, <2>2, <2>3, FileType DEF CopyWrite
  <2> QED BY <1>2, <1>5, <2>1, <2>4, GoesOn DEF CopyWrite, Resume
<1>6. CASE CopyCancelled(w)
  <2>1. wk[w].pc \notin Unstarted
    BY <1>6 DEF CopyCancelled, At, Unstarted
  <2>2. StoreTypeOK'
    BY <1>1, <1>6, <2>1, CleanedType DEF CopyCancelled
  <2> QED BY <1>2, <1>6, <2>1, <2>2, GoesOn DEF CopyCancelled, Resume
<1>7. CASE CopyFails(w)
  <2>1. wk[w].pc \notin Unstarted
    BY <1>7 DEF CopyFails, At, Copying, Unstarted
  <2>2. StoreTypeOK'
    BY <1>1, <1>7, <2>1, CleanedType DEF CopyFails
  <2> QED BY <1>2, <1>7, <2>1, <2>2, GoesOn DEF CopyFails, Raise, Resume
<1>8. CASE FlushProgress(w)
  <2>1. wk[w].pc \notin Unstarted /\ wk[w].pc # "idle"
    BY <1>8 DEF FlushProgress, InLoop, Copying, Unstarted
  <2>2. "PROCESSING" \in Status \ {"FAILED"}
    BY DEF Status, Active, Phase
  <2>3. DocInv' /\ DocsStay
    BY <1>1, <1>8, <2>1, <2>2, PersistInv DEF FlushProgress, IInv, DataInv
  <2>4. DataInv'
    BY <1>1, <1>8, <2>1, <2>3, SameStore DEF FlushProgress, IInv, DataInv
  <2>5. /\ wk' = [wk EXCEPT ![w] = wk[w]]
        /\ UNCHANGED <<jobVars, client, bootVars, restarts>>
    BY <1>8 DEF FlushProgress, IInv, RunInv
  <2> QED BY <1>1, <2>1, <2>3, <2>4, <2>5, WorkerMoves
<1>9. CASE FlushRaises(w)
  <2>1. wk[w].pc \notin Unstarted
    BY <1>9 DEF FlushRaises, InLoop, Copying, Unstarted
  <2>2. StoreTypeOK'
    BY <1>1, <1>9, <2>1, SameStore DEF FlushRaises, dataVars
  <2> QED BY <1>2, <1>9, <2>1, <2>2, GoesOn DEF FlushRaises, Raise, Resume, dataVars
<1> QED BY <1>3, <1>4, <1>5, <1>6, <1>7, <1>8, <1>9 DEF CopyStep

LEMMA UpdateInv ==
  ASSUME IInv, NEW w \in Workers, UpdateStep(w)
  PROVE  IInv'
<1> DEFINE Pc == {"find", "find moved", "find conflict", "delete conflict",
                  "repoint", "delete source"}
<1>1. wk[w].pc \in Pc
  BY DEF UpdateStep, FindRecord, FindMissing, FindMoved, FindConflict,
         DeleteConflict, Repoint, UpdateRaises, DeleteSource, At
<1>2. /\ wk[w].pc \notin Unstarted /\ wk[w].pc # "idle" /\ wk[w] \in Run
      /\ wk[w].status \in Status
  BY <1>1 DEF Unstarted, IInv, RunInv
<1>3. Src(w) \in Paths /\ Tgt(w) \in Paths /\ StoreTypeOK
  BY <1>2, TaskOfWorker DEF IInv, DataInv
<1>4. Pc \cup {"save db updated", "save failed", "save completed"} \subseteq Pcs \ {"idle"}
  BY DEF Pcs, SavedStatus
<1> HIDE DEF Pc
<1>5. CASE FindRecord(w)
  <2>1. PICK v \in RecordsAt(Src(w)) :
          wk' = [wk EXCEPT ![w].pc = IF doc[TaskOf(w)].overwrite
                                     THEN "find conflict" ELSE "repoint",
                           ![w].video = v]
    BY <1>5 DEF FindRecord
  <2> DEFINE x == IF doc[TaskOf(w)].overwrite THEN "find conflict" ELSE "repoint"
             r == [wk[w] EXCEPT !.pc = x, !.video = v]
  <2>2. x \in Pcs \ Unstarted
    BY DEF Pcs, Unstarted
  <2>3. wk' = [wk EXCEPT ![w] = r]
    BY <2>1
  <2> HIDE DEF x
  <2>4. r \in Run /\ r.pc # "idle" /\ r.status \in Status
    BY <1>2, <2>2 DEF Run, RecordsAt, Unstarted
  <2>5. StoreTypeOK' /\ UNCHANGED <<jobVars, doc, client, bootVars, restarts, flags>>
    BY <1>3, <1>5, SameStore DEF FindRecord, dataVars
  <2> HIDE DEF r
  <2> QED BY <1>2, <2>3, <2>4, <2>5, RunChanges
<1>6. CASE FindMissing(w)
  <2>1. StoreTypeOK'
    BY <1>3, <1>6, SameStore DEF FindMissing, dataVars
  <2> QED BY <1>2, <1>4, <1>6, <2>1, GoesOn DEF FindMissing, Resume, dataVars, Pc
<1>7. CASE FindMoved(w)
  <2>1. StoreTypeOK'
    BY <1>3, <1>7, SameStore DEF FindMoved, dataVars
  <2> QED BY <1>2, <1>4, <1>7, <2>1, GoesOn DEF FindMoved, Raise, Resume, dataVars
<1>8. CASE FindConflict(w)
  <2>1. StoreTypeOK'
    BY <1>3, <1>8, SameStore DEF FindConflict, dataVars
  <2>2. UNCHANGED <<jobVars, doc, client, bootVars, restarts, flags>>
    BY <1>8 DEF FindConflict, dataVars
  <2>3. CASE Resume(w, "repoint")
    BY <1>2, <1>4, <2>1, <2>2, <2>3, GoesOn DEF Resume, Pc
  <2>4. ASSUME NEW v \in Videos,
               wk' = [wk EXCEPT ![w].pc = "delete conflict", ![w].conflict = v]
        PROVE  IInv'
    <3> DEFINE r == [wk[w] EXCEPT !.pc = "delete conflict", !.conflict = v]
    <3>1. wk' = [wk EXCEPT ![w] = r]
      BY <2>4
    <3>2. r \in Run /\ r.pc # "idle" /\ r.status \in Status
      BY <1>2, <1>4 DEF Run, Pc
    <3> HIDE DEF r
    <3> QED BY <1>2, <2>1, <2>2, <3>1, <3>2, RunChanges
  <2> QED BY <1>8, <2>3, <2>4 DEF FindConflict, RecordsAt
<1>9. CASE DeleteConflict(w)
  <2>1. StoreTypeOK'
    BY <1>3, <1>9 DEF DeleteConflict, StoreTypeOK
  <2> QED BY <1>2, <1>4, <1>9, <2>1, GoesOn DEF DeleteConflict, Resume, Pc
<1>10. CASE Repoint(w)
  <2>1. StoreTypeOK'
    BY <1>3, <1>10 DEF Repoint, StoreTypeOK
  <2> QED BY <1>2, <1>4, <1>10, <2>1, GoesOn DEF Repoint, Resume
<1>11. CASE UpdateRaises(w)
  <2>1. StoreTypeOK'
    BY <1>3, <1>11, SameStore DEF UpdateRaises, dataVars
  <2> QED BY <1>2, <1>4, <1>11, <2>1, GoesOn DEF UpdateRaises, Raise, Resume, dataVars
<1>12. CASE DeleteSource(w)
  <2>1. StoreTypeOK'
    <3>1. PICK f \in {[file EXCEPT ![Src(w)] = None], file} : file' = f /\ rec' = rec
      BY <1>12 DEF DeleteSource
    <3>2. None \in Content
      BY DEF Content
    <3> QED BY <1>3, <3>1, <3>2 DEF StoreTypeOK
  <2> QED BY <1>2, <1>4, <1>12, <2>1, GoesOn DEF DeleteSource, Resume
<1> QED BY <1>5, <1>6, <1>7, <1>8, <1>9, <1>10, <1>11, <1>12 DEF UpdateStep

-----------------------------------------------------------------------------
(* The requests that leave the scheduler alone keep the invariant. *)
LEMMA CallsInv ==
  ASSUME IInv, NEW c \in Clients,
         \/ \E t \in Tasks : CreateTask(c, t) \/ CancelTask(c, t) \/ PrepareRetry(c, t)
         \/ InsertTask(c) \/ SettleCancel(c) \/ RequestCancel(c)
         \/ ResetTask(c) \/ WriteRefused(c) \/ HangUp(c)
  PROVE  IInv'
<1>1. client[c] \in Call /\ CallOK(client[c], doc) /\ DocInv /\ StoreTypeOK
  BY DEF IInv, CallInv, DataInv
<1>2. client[c].op # "idle" => ~booting
  BY DEF IInv, BootInv, Alone
<1>3. IdleClient \in Call /\ IdleClient.op = "idle"
  BY DEF IdleClient, Call, Ops, Phase
<1>4. ASSUME NEW t \in Tasks, CreateTask(c, t) PROVE IInv'
  <2>1. PICK tgt \in TargetFor(Request[t]) :
          client' = [client EXCEPT ![c] =
            [op |-> "insert", task |-> t, start |-> "PROCESSING",
             src |-> rec[Request[t].video], tgt |-> tgt]]
    BY <1>4 DEF CreateTask
  <2> DEFINE r == [op |-> "insert", task |-> t, start |-> "PROCESSING",
                   src |-> rec[Request[t].video], tgt |-> tgt]
  <2>2. Request[t].video \in Videos /\ Request[t].dest \in Paths
    BY MigrationAssumption
  <2>3. rec[Request[t].video] \in Paths
    BY <1>1, <1>4, <2>2 DEF CreateTask, StoreTypeOK
  <2>4. tgt \in Paths
    BY <2>2, MigrationAssumption DEF TargetFor
  <2>5. r \in Call /\ CallOK(r, doc')
    BY <2>3, <2>4 DEF Call, CallOK, Ops, Phase
  <2>6. /\ ~booting /\ UNCHANGED <<jobVars, doc, file, rec, wk, flags, bootVars, restarts>>
        /\ client' = [client EXCEPT ![c] = r]
    BY <1>4, <2>1 DEF CreateTask, Idle, dataVars
  <2> HIDE DEF r
  <2>7. DataInv' /\ DocsStay
    BY <2>6, SameDocs, SameStore DEF IInv, DataInv
  <2> QED BY <2>5, <2>6, <2>7, RequestMoves
<1>5. CASE InsertTask(c)
  <2> DEFINE t == client[c].task
             d == [status |-> "PENDING", failed |-> "NONE", src |-> client[c].src,
                   tgt |-> client[c].tgt,
                   overwrite |-> Request[t].strategy = "overwrite"]
             r == [IdleClient EXCEPT !.op = "submit", !.task = t]
  <2>1. t \in Tasks /\ client[c].src \in Paths /\ client[c].tgt \in Paths
    BY <1>1, <1>5 DEF InsertTask, CallOK
  <2>2. /\ d \in Document /\ d.status = "PENDING"
        /\ d.src \in Paths /\ d.tgt \in Paths
    BY <2>1 DEF Document, Status, Active
  <2>3. r \in Call /\ r.op = "submit" /\ r.task = t
    BY <2>1 DEF IdleClient, Call, Ops, Phase
  <2>4. /\ ~booting /\ UNCHANGED <<jobVars, file, rec, wk, flags, bootVars, restarts>>
        /\ doc' = [doc EXCEPT ![t] = d] /\ client' = [client EXCEPT ![c] = r]
    BY <1>2, <1>5 DEF InsertTask
  <2> HIDE DEF t, d, r
  <2>5. \A u \in Tasks : doc'[u] = IF u = t THEN d ELSE doc[u]
    BY <1>1, <2>4 DEF DocInv
  <2>6. DocInv' /\ DocsStay
    <3>1. doc' \in [Tasks -> Document]
      BY <1>1, <2>2, <2>4 DEF DocInv
    <3> QED BY <1>1, <2>2, <2>5, <3>1 DEF DocInv, DocsStay, Known
  <2>7. DataInv'
    BY <2>4, <2>6, SameStore DEF IInv, DataInv
  <2>8. CallOK(r, doc')
    BY <2>1, <2>2, <2>3, <2>5 DEF CallOK, Known
  <2> QED BY <2>3, <2>4, <2>6, <2>7, <2>8, RequestMoves
<1>6. ASSUME NEW t \in Tasks, NEW op \in Ops \ {"idle", "insert"}, NEW s \in Phase,
             Await(c, op, t, s), ~booting, Known(t), file' = file \/ file' \in AfterCleanup(t),
             UNCHANGED <<jobVars, doc, rec, wk, flags, bootVars, restarts>>
      PROVE  IInv'
  <2> DEFINE r == [client[c] EXCEPT !.op = op, !.task = t, !.start = s]
  <2>1. r \in Call /\ r.op = op /\ r.task = t
    BY <1>1 DEF Call
  <2>2. client' = [client EXCEPT ![c] = r]
    BY <1>6 DEF Await
  <2> HIDE DEF r
  <2>3. DataInv' /\ DocsStay
    BY <1>6, SameDocs, SameStore, CleanedType DEF IInv, DataInv
  <2>4. CallOK(r, doc')
    BY <1>6, <2>1 DEF CallOK, Known
  <2> QED BY <1>6, <2>1, <2>2, <2>3, <2>4, RequestMoves
<1>7. ASSUME NEW t \in Tasks, CancelTask(c, t) PROVE IInv'
  <2>1. Known(t) /\ ~booting /\ "PROCESSING" \in Phase
        /\ {"settle", "flag"} \subseteq Ops \ {"idle", "insert"}
    BY <1>7 DEF CancelTask, Known, Idle, Phase, Ops
  <2> QED BY <1>6, <1>7, <2>1 DEF CancelTask, dataVars
<1>8. ASSUME NEW t \in Tasks, PrepareRetry(c, t) PROVE IInv'
  <2>1. doc[t].failed \in Active
    BY <1>1, <1>8 DEF PrepareRetry, DocInv
  <2>2. RESUME_POINT[doc[t].failed] \in Phase
    BY <2>1 DEF RESUME_POINT, Active, Phase
  <2>3. Known(t) /\ ~booting /\ "reset" \in Ops \ {"idle", "insert"}
    BY <1>8 DEF PrepareRetry, Known, Idle, Ops
  <2>4. /\ Await(c, "reset", t, RESUME_POINT[doc[t].failed])
        /\ file' = file \/ file' \in AfterCleanup(t)
        /\ UNCHANGED <<jobVars, doc, rec, wk, flags, bootVars, restarts>>
    BY <1>8 DEF PrepareRetry
  <2> QED BY <1>6, <2>2, <2>3, <2>4
<1>9. ASSUME NEW op \in {"flag", "resubmit"}, NEW s \in Status \ {"FAILED"},
             client[c].op \notin {"idle", "insert"}, Persist(client[c].task, s),
             client' = [client EXCEPT ![c].op = op],
             UNCHANGED <<jobVars, file, rec, wk, flags, bootVars, restarts>>
      PROVE  IInv'
  <2> DEFINE r == [client[c] EXCEPT !.op = op]
  <2>1. client[c].task \in Tasks /\ Known(client[c].task) /\ ~booting
    BY <1>1, <1>2, <1>9 DEF CallOK, Known
  <2>2. DocInv' /\ DocsStay
    BY <1>1, <1>9, <2>1, PersistInv
  <2>3. DataInv'
    BY <1>9, <2>2, SameStore DEF IInv, DataInv
  <2>4. r \in Call /\ r.op = op /\ r.task = client[c].task
    BY <1>1 DEF Call, Ops
  <2>5. client' = [client EXCEPT ![c] = r]
    BY <1>9
  <2> HIDE DEF r
  <2>6. CallOK(r, doc')
    BY <2>1, <2>2, <2>4 DEF CallOK, DocsStay, Known
  <2> QED BY <1>9, <2>1, <2>2, <2>3, <2>4, <2>5, <2>6, RequestMoves
<1>10. CASE SettleCancel(c)
  BY <1>9, <1>10 DEF SettleCancel, Status, TERMINAL
<1>11. CASE ResetTask(c)
  BY <1>9, <1>11 DEF ResetTask, Status, Active
<1>12. ASSUME client[c].op # "idle", Leave(c), flags' \in SUBSET Tasks,
              UNCHANGED <<jobVars, dataVars, wk, bootVars, restarts>>
       PROVE  IInv'
  <2>1. CallOK(IdleClient, doc')
    BY <1>3 DEF CallOK
  <2>2. DataInv' /\ DocsStay
    BY <1>12, SameDocs, SameStore DEF IInv, DataInv, dataVars
  <2> QED BY <1>2, <1>3, <1>12, <2>1, <2>2, RequestMoves DEF Leave
<1>13. CASE RequestCancel(c)
  <2>1. client[c].task \in Tasks
    BY <1>1, <1>13 DEF RequestCancel, CallOK
  <2> QED BY <1>12, <1>13, <2>1 DEF RequestCancel, IInv, DataInv
<1>14. CASE WriteRefused(c) \/ HangUp(c)
  BY <1>12, <1>14 DEF WriteRefused, HangUp, IInv, DataInv
<1> QED BY <1>4, <1>5, <1>7, <1>8, <1>10, <1>11, <1>13, <1>14

-----------------------------------------------------------------------------
(* Every step of Migration is a step of its scheduler, or leaves it alone. *)
(* recover() is why the invariant is needed: it submits a whole plan, and  *)
(* only a runner that is empty may be given one.                           *)
LEMMA SchedulerStep ==
  ASSUME IInv, Next
  PROVE  [JobNext]_jobVars
<1>1. ASSUME NEW c \in Clients, RequestStep(c) PROVE [JobNext]_jobVars
  <2>1. CASE SubmitTask(c)
    <3>1. client[c].task \in Tasks /\ client[c].start \in Phase
      BY <2>1 DEF SubmitTask, IInv, CallInv, CallOK, Call
    <3> QED BY <2>1, <3>1 DEF SubmitTask, JobNext
  <2>2. CASE ~SubmitTask(c)
    BY <1>1, <2>2 DEF RequestStep, CreateTask, CancelTask, PrepareRetry,
       InsertTask, SettleCancel, RequestCancel, ResetTask, WriteRefused, HangUp
  <2> QED BY <2>1, <2>2
<1>2. ASSUME NEW w \in Workers, TakeJob(w) PROVE JobNext
  BY <1>2 DEF TakeJob, JobNext
<1>3. ASSUME NEW w \in Workers, RunStep(w) PROVE [JobNext]_jobVars
  <2>1. CASE EndRun(w)
    BY <2>1 DEF EndRun, JobNext
  <2>2. CASE ~EndRun(w)
    BY <1>3, <2>2 DEF RunStep, SkipSettled, DropQueued, StartRun, SaveStatus,
       SaveProcessing, SaveProcessDone, SaveUpdating, SaveDbUpdated, SaveDeleting,
       SaveCompleted, SaveDropped, SaveCancelled, SaveRaises, SaveFailed, RunCrashes
  <2> QED BY <2>1, <2>2
<1>4. ASSUME NEW w \in Workers, CopyStep(w) PROVE UNCHANGED jobVars
  BY <1>4 DEF CopyStep, CopyOpen, CopyRead, CopyWrite, CopyCancelled, CopyFails,
     FlushProgress, FlushRaises
<1>5. ASSUME NEW w \in Workers, UpdateStep(w) PROVE UNCHANGED jobVars
  BY <1>5 DEF UpdateStep, FindRecord, FindMissing, FindMoved, FindConflict,
     DeleteConflict, Repoint, UpdateRaises, DeleteSource
<1>6. CASE Restart
  BY <1>6 DEF Restart, JobNext
<1>7. CASE \E t \in Tasks : PlanOrphan(t) \/ RecoveryFails(t)
  BY <1>7 DEF PlanOrphan, RecoveryFails
<1>8. CASE RecoverPlan
  <2>1. waiting \cup running = {} /\ IsPlan(plan)
    BY <1>8 DEF RecoverPlan, IInv, BootInv, BootTypeOK, Alone, PlanInv, IsPlan
  <2>2. queue = <<>>
    BY <2>1, NothingQueued DEF IInv
  <2>3. queue' = plan
    BY <1>8, <2>2 DEF RecoverPlan, SubmitPlan, IInv, BootInv, BootTypeOK
  <2>4. SubmitPlan(queue')
    BY <1>8, <2>2, <2>3 DEF RecoverPlan, SubmitPlan, IInv, BootInv, BootTypeOK
  <2> QED BY <2>1, <2>3, <2>4 DEF JobNext
<1> QED BY <1>1, <1>2, <1>3, <1>4, <1>5, <1>6, <1>7, <1>8 DEF Next, BootStep

(* The steps that move a task in or out of the scheduler. *)
LEMMA SubmitTaskInv ==
  ASSUME IInv, NEW c \in Clients, SubmitTask(c), JobInv'
  PROVE  IInv'
<1> DEFINE t == client[c].task
<1>1. t \in Tasks /\ Known(t) /\ ~booting /\ ~booting'
  BY DEF SubmitTask, IInv, CallInv, CallOK, Known, BootInv, Alone, bootVars
<1>2. UNCHANGED <<dataVars, wk, flags, running, job>> /\ waiting' \subseteq waiting \cup {t}
  BY DEF SubmitTask, Submit
<1>3. DataInv' /\ DocsStay
  BY <1>2, SameDocs, SameStore DEF IInv, DataInv, dataVars
<1>4. RunInv'
  BY <1>1, <1>2 DEF IInv, RunInv, dataVars, Known
<1>5. CallInv'
  <2>1. IdleClient \in Call /\ IdleClient.op = "idle"
    BY DEF IdleClient, Call, Ops, Phase
  <2>2. \A k \in Clients : client'[k] = IF k = c THEN IdleClient ELSE client[k]
    BY DEF SubmitTask, Leave, IInv, CallInv
  <2>3. client' \in [Clients -> Call]
    BY <2>1 DEF SubmitTask, Leave, IInv, CallInv
  <2> QED BY <1>2, <2>1, <2>2, <2>3 DEF IInv, CallInv, CallOK, dataVars
<1>6. BootInv'
  BY <1>1 DEF SubmitTask, IInv, BootInv, BootTypeOK, bootVars
<1> QED BY <1>3, <1>4, <1>5, <1>6 DEF IInv

LEMMA TakeJobInv ==
  ASSUME IInv, NEW w \in Workers, TakeJob(w), JobInv'
  PROVE  IInv'
<1>1. queue \in Seq(Job) /\ queue # <<>> /\ waiting = TasksIn(queue)
  BY DEF TakeJob, Take, IInv, JobInv, JobTypeOK, ExclusiveRun
<1>2. Head(queue).task \in waiting /\ Head(queue).task \in Tasks
  BY <1>1, TasksInTail DEF Job
<1>3. ~booting /\ ~booting'
  BY <1>2 DEF TakeJob, IInv, BootInv, Alone, bootVars
<1>4. DataInv' /\ DocsStay
  BY SameDocs, SameStore DEF TakeJob, IInv, DataInv, dataVars
<1>5. RunInv'
  <2>1. \A t \in waiting' \cup running' : (Known(t))'
    BY <1>2, <1>4 DEF TakeJob, Take, IInv, RunInv, dataVars, Known
  <2>2. wk' \in [Workers -> Run]
    BY ZenonT(40) DEF TakeJob, IInv, RunInv, Run, Pcs
  <2>3. ASSUME NEW v \in Workers
        PROVE  /\ wk'[v].pc = "idle" <=> job'[v].task = None
               /\ wk'[v].pc \notin Unstarted => wk'[v].status \in Status
    <3>1. CASE v = w
      <4>1. wk'[v].pc = "load"
        BY <3>1 DEF TakeJob, IInv, RunInv, Run
      <4>2. job'[v] = Head(queue)
        BY <3>1 DEF TakeJob, Take, IInv, JobInv, JobTypeOK
      <4> QED BY <1>2, <4>1, <4>2, NoneAssumption DEF Unstarted
    <3>2. CASE v # w
      BY <3>2 DEF TakeJob, Take, IInv, RunInv, JobInv, JobTypeOK
    <3> QED BY <3>1, <3>2
  <2> QED BY <2>1, <2>2, <2>3 DEF RunInv
<1>6. CallInv'
  BY <1>4 DEF TakeJob, IInv, CallInv, CallOK, dataVars
<1>7. BootInv'
  BY <1>3 DEF TakeJob, IInv, BootInv, BootTypeOK, bootVars
<1> QED BY <1>4, <1>5, <1>6, <1>7 DEF IInv

LEMMA EndRunInv ==
  ASSUME IInv, NEW w \in Workers, EndRun(w), JobInv'
  PROVE  IInv'
<1>1. wk[w].pc # "idle" /\ ~booting /\ ~booting'
  BY TaskOfWorker DEF EndRun, bootVars
<1>2. DataInv' /\ DocsStay
  BY SameDocs, SameStore DEF EndRun, IInv, DataInv, dataVars
<1>3. IdleRun \in Run /\ IdleRun.pc = "idle" /\ NoJob.task = None
  BY DEF IdleRun, Run, Pcs, Content, NoJob
<1>4. RunInv'
  <2>1. \A t \in waiting' \cup running' : (Known(t))'
    BY DEF EndRun, Finish, IInv, RunInv, dataVars, Known
  <2>2. wk' \in [Workers -> Run]
    BY <1>3 DEF EndRun, IInv, RunInv
  <2>3. \A v \in Workers : /\ wk'[v] = IF v = w THEN IdleRun ELSE wk[v]
                           /\ job'[v] = IF v = w THEN NoJob ELSE job[v]
    BY DEF EndRun, Finish, IInv, RunInv, JobInv, JobTypeOK
  <2> QED BY <1>3, <2>1, <2>2, <2>3 DEF IInv, RunInv, Unstarted
<1>5. CallInv'
  BY DEF EndRun, IInv, CallInv, CallOK, dataVars
<1>6. BootInv'
  BY <1>1 DEF EndRun, IInv, BootInv, BootTypeOK, bootVars
<1> QED BY <1>2, <1>4, <1>5, <1>6 DEF IInv

(* The process stops and boots: the orphans are the unfinished tasks. *)
LEMMA RestartInv ==
  ASSUME IInv, Restart, JobInv'
  PROVE  IInv'
<1>1. DataInv'
  BY SameDocs, SameStore DEF Restart, IInv, DataInv, dataVars
<1>2. /\ IdleRun \in Run /\ IdleRun.pc = "idle" /\ NoJob.task = None
      /\ IdleClient \in Call /\ IdleClient.op = "idle"
  BY DEF IdleRun, Run, Pcs, Content, NoJob, IdleClient, Call, Ops, Phase
<1>3. RunInv'
  BY <1>2 DEF Restart, Forget, RunInv, Unstarted
<1>4. CallInv'
  BY <1>2 DEF Restart, CallInv, CallOK
<1>5. Alone'
  BY <1>2 DEF Restart, Forget, Alone
<1>6. plan' = <<>> /\ orphans' = {t \in Tasks : IsLive(t)} /\ doc' = doc
  BY DEF Restart, dataVars
<1>7. PlanInv'
  BY <1>6 DEF PlanInv, TasksIn, IsLive
<1>8. BootTypeOK'
  <2>1. <<>> \in Seq(Job)
    OBVIOUS
  <2> QED BY <1>6, <2>1 DEF Restart, IInv, BootInv, BootTypeOK
<1> QED BY <1>1, <1>3, <1>4, <1>5, <1>7, <1>8 DEF IInv, BootInv

(* plan_recovery moves a task from the orphans to the end of the plan. *)
LEMMA PlanOrphanInv ==
  ASSUME IInv, NEW t \in Tasks, PlanOrphan(t), JobInv'
  PROVE  IInv'
<1> DEFINE e == JobOf(t, RESUME_POINT[doc[t].status])
<1>1. /\ booting /\ booting' /\ Alone /\ PlanInv /\ BootTypeOK
      /\ t \in orphans /\ IsLive(t) /\ Known(t)
  BY DEF PlanOrphan, IInv, BootInv, PlanInv, IsLive, Known, Active, Phase
<1>2. e \in Job /\ e.task = t
  BY <1>1 DEF JobOf, Job, IsLive, RESUME_POINT, Active, Phase
<1>3. /\ plan' = Append(plan, e) /\ orphans' = orphans \ {t}
      /\ UNCHANGED <<jobVars, rec, wk, flags, client, booting, restarts>>
  BY DEF PlanOrphan
<1> HIDE DEF e
<1>4. "PENDING" \in Status \ {"FAILED"}
  BY DEF Status, Active
<1>5. DocInv' /\ DocsStay
  BY <1>1, <1>4, PersistInv DEF PlanOrphan, IInv, DataInv
<1>6. StoreTypeOK'
  BY SameStore, CleanedType DEF PlanOrphan, IInv, DataInv
<1>7. RunInv'
  BY <1>3, <1>5 DEF IInv, RunInv, JobInv, JobTypeOK, jobVars, DocsStay
<1>8. CallInv'
  BY <1>1, <1>3 DEF IInv, CallInv, CallOK, Alone
<1>9. Alone'
  BY <1>1, <1>3 DEF Alone, jobVars
<1>10. plan \in Seq(Job) /\ plan' \in Seq(Job) /\ TasksIn(plan') = TasksIn(plan) \cup {t}
  BY <1>1, <1>2, <1>3, TasksInAppend DEF BootTypeOK
<1>11. PlanInv'
  <2>1. \A u \in orphans' : (IsLive(u))'
    <3>1. \A u \in Tasks : u # t => doc'[u] = doc[u]
      BY DEF PlanOrphan, Persist, IInv, DataInv, DocInv
    <3> QED BY <1>1, <1>3, <3>1 DEF PlanInv, IsLive, BootTypeOK
  <2>2. TasksIn(plan') \subseteq Tasks
    BY <1>10, TasksInTasks
  <2>3. \A u \in TasksIn(plan') : (Known(u))'
    BY <1>1, <1>5, <1>10, <2>2 DEF PlanInv, DocsStay
  <2>4. TasksIn(plan') \cap orphans' = {}
    BY <1>1, <1>3, <1>10 DEF PlanInv
  <2>5. t \notin TasksIn(plan)
    BY <1>1 DEF PlanInv
  <2>6. ASSUME NEW i \in DOMAIN plan', NEW j \in DOMAIN plan',
               plan'[i].task = plan'[j].task
        PROVE  i = j
    <3>1. \A k \in DOMAIN plan' :
             \/ k \in DOMAIN plan /\ plan'[k] = plan[k]
             \/ k = Len(plan) + 1 /\ plan'[k] = e
      BY <1>2, <1>3, <1>10
    <3>2. \A k \in DOMAIN plan : plan[k].task # t
      BY <2>5 DEF TasksIn
    <3> QED BY <1>1, <1>2, <2>6, <3>1, <3>2 DEF PlanInv
  <2>7. TasksIn(plan') = TasksIn(plan)'
    BY DEF TasksIn
  <2> QED BY <2>1, <2>3, <2>4, <2>6, <2>7 DEF PlanInv
<1>12. BootTypeOK'
  BY <1>1, <1>3, <1>10 DEF BootTypeOK
<1> QED BY <1>3, <1>5, <1>6, <1>7, <1>8, <1>9, <1>11, <1>12
        DEF IInv, DataInv, BootInv

(* recover() hands the plan over; a failing recovery drops it. *)
LEMMA BootEndInv ==
  ASSUME IInv, RecoverPlan \/ \E t \in Tasks : RecoveryFails(t), JobInv'
  PROVE  IInv'
<1>1. /\ booting /\ Alone /\ PlanInv /\ BootTypeOK /\ booting' = FALSE /\ plan' = <<>>
      /\ orphans' \subseteq orphans
      /\ UNCHANGED <<doc, rec, wk, flags, client, restarts, running, job>>
  BY DEF RecoverPlan, RecoveryFails, SubmitPlan, IInv, BootInv, dataVars, jobVars
<1>2. DocInv' /\ DocsStay
  BY <1>1, SameDocs DEF IInv, DataInv
<1>3. StoreTypeOK'
  <2>1. CASE RecoverPlan
    BY <2>1, SameStore DEF RecoverPlan, dataVars, IInv, DataInv
  <2>2. ASSUME NEW t \in Tasks, RecoveryFails(t) PROVE StoreTypeOK'
    BY <2>2, SameStore, CleanedType DEF RecoveryFails, IInv, DataInv
  <2> QED BY <2>1, <2>2
<1>4. waiting' \subseteq TasksIn(plan)
  BY <1>1 DEF RecoverPlan, RecoveryFails, SubmitPlan, jobVars, Alone
<1>5. RunInv'
  BY <1>1, <1>4 DEF IInv, RunInv, Alone, PlanInv, Known
<1>6. CallInv'
  BY <1>1 DEF IInv, CallInv, CallOK
<1>7. BootInv'
  <2>1. <<>> \in Seq(Job)
    OBVIOUS
  <2> QED BY <1>1, <2>1 DEF BootInv, BootTypeOK
<1> QED BY <1>1, <1>2, <1>3, <1>5, <1>6, <1>7 DEF IInv, DataInv

-----------------------------------------------------------------------------
LEMMA StepIInv == IInv /\ [Next]_vars => IInv' /\ [JobNext]_jobVars
<1> SUFFICES ASSUME IInv, [Next]_vars PROVE IInv' /\ [JobNext]_jobVars
  OBVIOUS
<1>1. CASE UNCHANGED vars
  <2>1. DataInv' /\ DocsStay /\ UNCHANGED jobVars
    BY <1>1, SameDocs, SameStore DEF vars, dataVars, IInv, DataInv
  <2>2. JobInv' /\ RunInv'
    BY <1>1 DEF vars, jobVars, dataVars, IInv, JobInv, JobTypeOK, ExclusiveRun,
       TasksIn, RunInv, Known
  <2>3. CallInv'
    BY <1>1 DEF vars, dataVars, IInv, CallInv, CallOK
  <2>4. BootInv'
    BY <1>1 DEF vars, jobVars, bootVars, dataVars, IInv, BootInv, BootTypeOK, Alone,
       PlanInv, TasksIn, IsLive, Known
  <2> QED BY <2>1, <2>2, <2>3, <2>4 DEF IInv
<1>2. CASE Next
  <2>1. [JobNext]_jobVars
    BY <1>2, SchedulerStep
  <2>2. JobInv'
    BY <2>1, JobStepInv DEF IInv
  <2>3. ASSUME NEW c \in Clients, RequestStep(c) PROVE IInv'
    BY <2>2, <2>3, SubmitTaskInv, CallsInv DEF RequestStep
  <2>4. ASSUME NEW w \in Workers, RunStep(w) PROVE IInv'
    BY <2>2, <2>4, EndRunInv, LoadInv, SavesInv, SaveRaisesInv, SaveFailedInv,
       RunCrashesInv DEF RunStep
  <2>5. ASSUME NEW w \in Workers, TakeJob(w) \/ CopyStep(w) \/ UpdateStep(w) PROVE IInv'
    BY <2>2, <2>5, TakeJobInv, CopyInv, UpdateInv
  <2>6. ASSUME NEW t \in Tasks, PlanOrphan(t) PROVE IInv'
    BY <2>2, <2>6, PlanOrphanInv
  <2>7. ASSUME Restart PROVE IInv'
    BY <2>2, <2>7, RestartInv
  <2>8. ASSUME RecoverPlan \/ \E t \in Tasks : RecoveryFails(t) PROVE IInv'
    BY <2>2, <2>8, BootEndInv
  <2> QED BY <1>2, <2>1, <2>3, <2>4, <2>5, <2>6, <2>7, <2>8 DEF Next, BootStep
<1> QED BY <1>1, <1>2

(* Every behaviour of the whole system is one of its scheduler: requests,  *)
(* runs and recovery use submit(), the queue and the pool as TaskRunner    *)
(* allows, recover() included.                                             *)
THEOREM DrivesScheduler == Spec => JobSpec
<1>1. Spec => []IInv
  BY InitIInv, StepIInv, PTL DEF Spec
<1>2. MigrationInit => JobInit
  BY DEF MigrationInit
<1> QED BY <1>1, <1>2, StepIInv, PTL DEF Spec, JobSpec

(* Whatever is requested, fails or restarts, every status, pc, path and    *)
(* record stays one the code can write.                                    *)
THEOREM TypesKept == Spec => []TypeOK
<1>1. Spec => []IInv
  BY InitIInv, StepIInv, PTL DEF Spec
<1>2. IInv => TypeOK
  BY DEF IInv, TypeOK, JobInv, DataInv, DocInv, RunInv, CallInv, BootInv
<1> QED BY <1>1, <1>2, PTL

(* No migration is queued twice, run by two workers, or queued while it    *)
(* runs: not by a create, a retry and a recovery that all want it started  *)
(* (submit, recover, _worker).                                             *)
THEOREM NoTaskRunsTwice == Spec => []ExclusiveRun
<1>1. JobSpec => []ExclusiveRun
  BY JobQueueCorrect, PTL
<1> QED BY <1>1, DrivesScheduler, PTL

-----------------------------------------------------------------------------
(* The life of a task. *)

NobodySettles == \A c \in Clients : client[c].op # "settle"
LockInv == WorksUnderLock /\ NobodySettles

(* The pcs at which a run holds no lock it needs. *)
Free == {"idle", "load", "save dropped", "skipped", "end"}

(* Other workers run other tasks. *)
LEMMA OtherTask ==
  ASSUME IInv, NEW v \in Workers, NEW w \in Workers, v # w, wk[v].pc # "idle"
  PROVE  TaskOf(v) # TaskOf(w) /\ TaskOf(v) \in Tasks
BY TaskOfWorker DEF IInv, JobInv, ExclusiveRun, RunInv, TaskOf

(* A step of worker w may unlock its own task, provided it is done with it.*)
LEMMA WorkerKeepsLocks ==
  ASSUME IInv, LockInv, NEW w \in Workers, UNCHANGED <<jobVars, client>>,
         NEW r \in Run, wk' = [wk EXCEPT ![w] = r],
         \A t \in Tasks \ {TaskOf(w)} : IsLive(t) => (IsLive(t))',
         r.pc \in Free \/ doc'[TaskOf(w)].status \in Active
  PROVE  LockInv'
<1>1. ASSUME NEW v \in Workers, wk'[v].pc \notin Free
      PROVE  doc'[job'[v].task].status \in Active
  <2>1. wk'[v] = IF v = w THEN r ELSE wk[v]
    BY DEF IInv, RunInv
  <2>2. CASE v = w
    BY <1>1, <2>1, <2>2 DEF jobVars, TaskOf
  <2>3. CASE v # w
    <3>1. wk[v].pc # "idle" /\ IsLive(TaskOf(v))
      BY <1>1, <2>1, <2>3 DEF Free, LockInv, WorksUnderLock
    <3>2. TaskOf(v) \in Tasks \ {TaskOf(w)}
      BY <2>3, <3>1, OtherTask
    <3> QED BY <3>1, <3>2 DEF IsLive, TaskOf, jobVars
  <2> QED BY <2>2, <2>3
<1> QED BY <1>1 DEF LockInv, WorksUnderLock, NobodySettles, Free, IsLive, TaskOf

(* A step that unlocks no task and starts no run. *)
LEMMA OthersKeepLocks ==
  ASSUME IInv, LockInv, UNCHANGED wk, NobodySettles',
         \A w \in Workers : wk[w].pc # "idle" => job'[w] = job[w],
         \A t \in Tasks : IsLive(t) => (IsLive(t))'
  PROVE  LockInv'
<1>1. ASSUME NEW w \in Workers, wk[w].pc \notin Free
      PROVE  doc'[job'[w].task].status \in Active
  <2>1. wk[w].pc # "idle" /\ IsLive(TaskOf(w)) /\ TaskOf(w) \in Tasks
    BY <1>1, TaskOfWorker DEF Free, LockInv, WorksUnderLock
  <2> QED BY <2>1 DEF IsLive, TaskOf
<1> QED BY <1>1 DEF LockInv, WorksUnderLock, Free, IsLive, TaskOf

-----------------------------------------------------------------------------
(* Requests: none of them settles a task unless somebody cancels. *)
LEMMA RequestLocks ==
  ASSUME "cancel" \notin Events, IInv, LockInv, NEW c \in Clients, RequestStep(c)
  PROVE  LockInv'
<1>1. ASSUME NEW op \in Ops \ {"settle"}, client'[c].op = op,
             \A k \in Clients \ {c} : client'[k] = client[k],
             UNCHANGED <<wk, job>>,
             \A t \in Tasks : IsLive(t) => doc'[t].status \in Active
      PROVE  LockInv'
  <2>1. NobodySettles'
    BY <1>1 DEF LockInv, NobodySettles
  <2> QED BY <1>1, <2>1, OthersKeepLocks DEF IsLive
<1>2. client \in [Clients -> Call] /\ {"insert", "submit", "reset", "resubmit", "idle"} \subseteq Ops
  BY DEF IInv, CallInv, Ops
<1>3. ASSUME NEW t \in Tasks, CreateTask(c, t) PROVE LockInv'
  <2>1. UNCHANGED <<wk, job, doc>> /\ \A k \in Clients \ {c} : client'[k] = client[k]
    BY <1>2, <1>3 DEF CreateTask, dataVars, jobVars
  <2>2. client'[c].op = "insert"
    BY <1>2, <1>3 DEF CreateTask
  <2> QED BY <1>1, <1>2, <2>1, <2>2 DEF IsLive
<1>4. ASSUME NEW t \in Tasks, PrepareRetry(c, t) PROVE LockInv'
  <2>1. UNCHANGED <<wk, job, doc>> /\ \A k \in Clients \ {c} : client'[k] = client[k]
    BY <1>2, <1>4 DEF PrepareRetry, Await, jobVars
  <2>2. client'[c].op = "reset"
    BY <1>2, <1>4 DEF PrepareRetry, Await, Call
  <2> QED BY <1>1, <1>2, <2>1, <2>2 DEF IsLive
<1>5. ASSUME Leave(c), UNCHANGED <<wk, job, doc>> PROVE LockInv'
  <2>1. client'[c].op = "idle" /\ \A k \in Clients \ {c} : client'[k] = client[k]
    BY <1>2, <1>5 DEF Leave, IdleClient
  <2> QED BY <1>1, <1>2, <1>5, <2>1 DEF IsLive
<1>6. CASE SubmitTask(c) \/ RequestCancel(c) \/ WriteRefused(c) \/ HangUp(c)
  BY <1>5, <1>6 DEF SubmitTask, Submit, RequestCancel, WriteRefused, HangUp,
     dataVars, jobVars
<1>7. CASE InsertTask(c)
  <2>1. UNCHANGED <<wk, job>> /\ \A k \in Clients \ {c} : client'[k] = client[k]
    BY <1>2, <1>7 DEF InsertTask, jobVars
  <2>2. client'[c].op = "submit"
    BY <1>2, <1>7 DEF InsertTask, IdleClient
  <2>3. \A t \in Tasks : IsLive(t) => doc'[t].status \in Active
    BY <1>7 DEF InsertTask, IsLive, Active, IInv, DataInv, DocInv
  <2> QED BY <1>1, <1>2, <2>1, <2>2, <2>3
<1>8. CASE ResetTask(c)
  <2>1. UNCHANGED <<wk, job>> /\ \A k \in Clients \ {c} : client'[k] = client[k]
    BY <1>2, <1>8 DEF ResetTask, jobVars
  <2>2. client'[c].op = "resubmit"
    BY <1>2, <1>8 DEF ResetTask, Call
  <2>3. \A t \in Tasks : IsLive(t) => doc'[t].status \in Active
    BY <1>8 DEF ResetTask, Persist, IsLive, Active, IInv, DataInv, DocInv, Document
  <2> QED BY <1>1, <1>2, <2>1, <2>2, <2>3
<1>9. ~SettleCancel(c) /\ \A t \in Tasks : ~CancelTask(c, t)
  BY DEF SettleCancel, CancelTask, LockInv, NobodySettles
<1> QED BY <1>3, <1>4, <1>6, <1>7, <1>8, <1>9 DEF RequestStep

(* A worker's steps: it saves its own task only, and a settled status only *)
(* when it is done.                                                        *)
LEMMA SaveLocks ==
  ASSUME IInv, LockInv, NEW w \in Workers, NEW pc \in Pcs \ {"idle"},
         NEW s \in Status, NEW next \in Pcs, SaveStatus(w, pc, s, next),
         next \in Free \/ s \in Active
  PROVE  LockInv'
<1> DEFINE r == [wk[w] EXCEPT !.pc = next, !.status = s]
<1>1. wk[w] \in Run /\ wk[w].pc # "idle" /\ doc \in [Tasks -> Document]
  BY DEF SaveStatus, At, IInv, RunInv, DataInv, DocInv
<1>2. r \in Run /\ r.pc = next
  BY <1>1 DEF Run
<1>3. wk' = [wk EXCEPT ![w] = r] /\ UNCHANGED <<jobVars, client>>
  BY DEF SaveStatus
<1> HIDE DEF r
<1>4. TaskOf(w) \in Tasks
  BY <1>1, TaskOfWorker
<1>5. \A t \in Tasks : doc'[t].status = IF t = TaskOf(w) THEN s ELSE doc[t].status
  BY <1>1, <1>4 DEF SaveStatus, Persist, Document
<1> QED BY <1>2, <1>3, <1>4, <1>5, WorkerKeepsLocks DEF IsLive

LEMMA RunLocks ==
  ASSUME IInv, LockInv, NEW w \in Workers, RunStep(w)
  PROVE  LockInv'
<1>1. /\ {"save processing", "open", "copied", "save updating", "find",
          "save db updated", "save deleting", "delete source",
          "save completed", "end", "save dropped", "skipped",
          "save cancelled"} \subseteq Pcs
      /\ {"PROCESSING", "PROCESS_DONE", "UPDATING_DB", "DB_UPDATED",
          "DELETING_SOURCE", "COMPLETED", "CANCELLED"} \subseteq Status
      /\ {"PROCESSING", "PROCESS_DONE", "UPDATING_DB", "DB_UPDATED",
          "DELETING_SOURCE"} \subseteq Active
      /\ {"end", "skipped"} \subseteq Free
      /\ "idle" \in Free
  BY DEF Pcs, SavedStatus, Status, Active, Phase, TERMINAL, Free
<1>2. CASE SaveProcessing(w) \/ SaveProcessDone(w) \/ SaveUpdating(w)
           \/ SaveDbUpdated(w) \/ SaveDeleting(w)
  BY <1>1, <1>2, SaveLocks DEF SaveProcessing, SaveProcessDone, SaveUpdating,
     SaveDbUpdated, SaveDeleting
<1>3. CASE SaveCompleted(w) \/ SaveDropped(w) \/ SaveCancelled(w)
  BY <1>1, <1>3, SaveLocks DEF SaveCompleted, SaveDropped, SaveCancelled
<1>4. wk[w] \in Run /\ wk' \in [Workers -> Run]
  BY StepIInv DEF IInv, RunInv, Next
<1>5. CASE SkipSettled(w) \/ DropQueued(w) \/ RunCrashes(w)
  <2>1. UNCHANGED <<jobVars, doc, client>>
    BY <1>5 DEF SkipSettled, DropQueued, RunCrashes, dataVars
  <2>2. PICK x \in {"end", "skipped", "save dropped"} : Resume(w, x)
    BY <1>5 DEF SkipSettled, DropQueued, RunCrashes
  <2> DEFINE r == [wk[w] EXCEPT !.pc = x]
  <2>3. r \in Run /\ r.pc \in Free
    BY <1>4 DEF Run, Pcs, Free
  <2>4. wk' = [wk EXCEPT ![w] = r]
    BY <2>2 DEF Resume
  <2> HIDE DEF r
  <2> QED BY <2>1, <2>3, <2>4, WorkerKeepsLocks DEF IsLive
<1>6. CASE StartRun(w) \/ SaveRaises(w)
  <2>1. IsLive(TaskOf(w))
    <3>1. SaveRaises(w) => wk[w].pc \notin Free
      BY SavedStatuses DEF SaveRaises, SavedStatus, Free
    <3> QED BY <1>6, <3>1 DEF StartRun, LockInv, WorksUnderLock, Free
  <2>2. /\ UNCHANGED <<jobVars, doc, client>> /\ wk'[w] \in Run
        /\ wk' = [wk EXCEPT ![w] = wk'[w]]
    BY <1>4, <1>6 DEF StartRun, SaveRaises, dataVars, IInv, RunInv
  <2> QED BY <2>1, <2>2, WorkerKeepsLocks DEF IsLive
<1>7. CASE SaveFailed(w)
  <2>1. /\ UNCHANGED <<jobVars, client>> /\ wk'[w] \in Run
        /\ wk' = [wk EXCEPT ![w] = wk'[w]] /\ wk'[w].pc \in Free
    BY <1>1, <1>4, <1>7 DEF SaveFailed, Resume, Run, IInv, RunInv
  <2>2. \A t \in Tasks \ {TaskOf(w)} : doc'[t] = doc[t]
    BY <1>7 DEF SaveFailed, IInv, DataInv, DocInv
  <2> QED BY <2>1, <2>2, WorkerKeepsLocks DEF IsLive
<1>8. CASE EndRun(w)
  <2>1. \A v \in Workers : /\ wk'[v] = IF v = w THEN IdleRun ELSE wk[v]
                           /\ v # w => job'[v] = job[v]
    BY <1>8 DEF EndRun, Finish, IInv, RunInv, JobInv, JobTypeOK
  <2>2. IdleRun.pc = "idle" /\ UNCHANGED <<doc, client>>
    BY <1>8 DEF EndRun, IdleRun, dataVars
  <2> QED BY <2>1, <2>2 DEF LockInv, WorksUnderLock, NobodySettles, IsLive, TaskOf
<1> QED BY <1>2, <1>3, <1>5, <1>6, <1>7, <1>8 DEF RunStep

(* The copy and the update write no settled status. *)
LEMMA WorkLocks ==
  ASSUME IInv, LockInv, NEW w \in Workers, CopyStep(w) \/ UpdateStep(w)
  PROVE  LockInv'
<1>1. wk[w].pc \notin Free
  BY DEF CopyStep, CopyOpen, CopyRead, CopyWrite, CopyCancelled, CopyFails,
     FlushProgress, FlushRaises, UpdateStep, FindRecord, FindMissing, FindMoved,
     FindConflict, DeleteConflict, Repoint, UpdateRaises, DeleteSource, At,
     InLoop, Copying, Free
<1>2. IsLive(TaskOf(w)) /\ TaskOf(w) \in Tasks
  BY <1>1, TaskOfWorker DEF LockInv, WorksUnderLock, Free
<1>3. /\ UNCHANGED <<jobVars, client>>
      /\ \A v \in Workers \ {w} : wk'[v] = wk[v]
      /\ UNCHANGED doc \/ Persist(TaskOf(w), "PROCESSING")
  BY DEF CopyStep, CopyOpen, CopyRead, CopyWrite, CopyCancelled, CopyFails,
     FlushProgress, FlushRaises, UpdateStep, FindRecord, FindMissing, FindMoved,
     FindConflict, DeleteConflict, Repoint, UpdateRaises, DeleteSource, Raise,
     Resume, dataVars, IInv, RunInv
<1>4. \A t \in Tasks : IsLive(t) => doc'[t].status \in Active
  BY <1>2, <1>3 DEF Persist, IsLive, Active, Phase, IInv, DataInv, DocInv, Document
<1>5. wk \in [Workers -> Run] /\ wk' \in [Workers -> Run]
  BY StepIInv DEF IInv, RunInv, Next
<1>6. wk' = [wk EXCEPT ![w] = wk'[w]] /\ wk'[w] \in Run
  BY <1>3, <1>5
<1> QED BY <1>2, <1>3, <1>4, <1>6, WorkerKeepsLocks DEF IsLive

LEMMA BootLocks ==
  ASSUME IInv, LockInv, Restart \/ BootStep
  PROVE  LockInv'
<1>1. CASE Restart
  BY <1>1 DEF Restart, LockInv, WorksUnderLock, NobodySettles, IdleRun, IdleClient
<1>2. ASSUME NEW t \in Tasks, PlanOrphan(t) PROVE LockInv'
  <2>1. UNCHANGED <<wk, job, client>>
    BY <1>2 DEF PlanOrphan, jobVars
  <2>2. \A u \in Tasks : IsLive(u) => doc'[u].status \in Active
    BY <1>2 DEF PlanOrphan, Persist, IsLive, Active, IInv, DataInv, DocInv, Document
  <2> QED BY <2>1, <2>2, OthersKeepLocks DEF IsLive, LockInv, NobodySettles
<1>3. ASSUME RecoverPlan \/ \E t \in Tasks : RecoveryFails(t) PROVE LockInv'
  <2>1. UNCHANGED <<wk, job, client, doc>>
    BY <1>3 DEF RecoverPlan, SubmitPlan, RecoveryFails, jobVars, dataVars
  <2> QED BY <2>1, OthersKeepLocks DEF IsLive, LockInv, NobodySettles
<1> QED BY <1>1, <1>2, <1>3 DEF BootStep

LEMMA StepLockInv ==
  ASSUME "cancel" \notin Events
  PROVE  IInv /\ LockInv /\ [Next]_vars => LockInv'
<1> SUFFICES ASSUME IInv, LockInv, [Next]_vars PROVE LockInv'
  OBVIOUS
<1>1. CASE UNCHANGED vars
  BY <1>1 DEF vars, jobVars, dataVars, LockInv, WorksUnderLock, NobodySettles,
     IsLive, TaskOf
<1>2. ASSUME NEW w \in Workers, TakeJob(w) PROVE LockInv'
  <2>1. \A v \in Workers : v # w => wk'[v] = wk[v] /\ job'[v] = job[v]
    BY <1>2 DEF TakeJob, Take, IInv, RunInv, JobInv, JobTypeOK
  <2>2. wk'[w].pc = "load" /\ UNCHANGED <<doc, client>>
    BY <1>2 DEF TakeJob, IInv, RunInv, Run, dataVars
  <2> QED BY <2>1, <2>2 DEF LockInv, WorksUnderLock, NobodySettles, IsLive, TaskOf
<1> QED BY <1>1, <1>2, RequestLocks, RunLocks, WorkLocks, BootLocks DEF Next

(* Where nobody cancels, a run that touches files or records does so while *)
(* its own document is unfinished, so both its paths are locked: whatever  *)
(* is created, retried, fails or restarts, no other step settles it.       *)
THEOREM LocksHeld ==
  ASSUME "cancel" \notin Events
  PROVE  Spec => []WorksUnderLock
<1>1. MigrationInit => LockInv
  <2> SUFFICES ASSUME MigrationInit PROVE LockInv
    OBVIOUS
  <2>1. /\ \A w \in Workers : wk[w].pc = "idle"
        /\ \A c \in Clients : client[c].op = "idle"
    BY DEF MigrationInit, IdleRun, IdleClient
  <2> QED BY <2>1 DEF LockInv, WorksUnderLock, NobodySettles
<1>2. IInv /\ LockInv /\ [Next]_vars => LockInv'
  BY StepLockInv
<1>3. LockInv => WorksUnderLock
  BY DEF LockInv
<1> QED BY <1>1, <1>2, <1>3, InitIInv, StepIInv, PTL DEF Spec

-----------------------------------------------------------------------------
(* Who writes the document of task t. *)
Saves(w) ==
  \/ SaveProcessing(w) \/ SaveProcessDone(w) \/ SaveUpdating(w)
  \/ SaveDbUpdated(w) \/ SaveDeleting(w) \/ SaveCompleted(w)
  \/ SaveDropped(w) \/ SaveCancelled(w) \/ SaveFailed(w) \/ FlushProgress(w)
CallSaves(c) == InsertTask(c) \/ SettleCancel(c) \/ ResetTask(c)

LEMMA WhoWrites ==
  ASSUME IInv, Next, NEW t \in Tasks, doc'[t] # doc[t]
  PROVE  \/ \E c \in Clients : client[c].task = t /\ CallSaves(c)
         \/ \E w \in Workers : TaskOf(w) = t /\ Saves(w)
         \/ PlanOrphan(t)
<1>1. doc \in [Tasks -> Document]
  BY DEF IInv, DataInv, DocInv
<1>2. ASSUME NEW c \in Clients, RequestStep(c) PROVE client[c].task = t /\ CallSaves(c)
  <2>1. CallSaves(c)
    BY <1>2 DEF RequestStep, CallSaves, CreateTask, CancelTask, PrepareRetry,
       SubmitTask, RequestCancel, WriteRefused, HangUp, dataVars
  <2>2. client[c].task = t
    BY <1>1, <2>1 DEF CallSaves, InsertTask, SettleCancel, ResetTask, Persist
  <2> QED BY <2>1, <2>2
<1>3. ASSUME NEW w \in Workers, TakeJob(w) \/ RunStep(w) \/ CopyStep(w) \/ UpdateStep(w)
      PROVE  TaskOf(w) = t /\ Saves(w)
  <2>1. Saves(w)
    BY <1>3 DEF Saves, TakeJob, RunStep, SkipSettled, DropQueued, StartRun,
       SaveRaises, RunCrashes, EndRun, CopyStep, CopyOpen, CopyRead, CopyWrite,
       CopyCancelled, CopyFails, FlushRaises, UpdateStep, FindRecord, FindMissing,
       FindMoved, FindConflict, DeleteConflict, Repoint, UpdateRaises, DeleteSource,
       dataVars
  <2>2. TaskOf(w) = t
    BY <1>1, <2>1 DEF Saves, SaveProcessing, SaveProcessDone, SaveUpdating,
       SaveDbUpdated, SaveDeleting, SaveCompleted, SaveDropped, SaveCancelled,
       SaveStatus, SaveFailed, FlushProgress, Persist
  <2> QED BY <2>1, <2>2
<1>4. CASE Restart \/ BootStep
  <2>1. PICK u \in Tasks : PlanOrphan(u)
    BY <1>4 DEF Restart, BootStep, RecoverPlan, RecoveryFails, dataVars
  <2>2. u = t
    BY <1>1, <2>1 DEF PlanOrphan, Persist
  <2> QED BY <2>1, <2>2
<1> QED BY <1>2, <1>3, <1>4 DEF Next

(* A run changes by its own steps, or goes with the process. *)
WorkStep(w) == TakeJob(w) \/ RunStep(w) \/ CopyStep(w) \/ UpdateStep(w)

LEMMA WhoRuns ==
  ASSUME IInv, Next, NEW w \in Workers, wk'[w] # wk[w], wk'[w] # IdleRun
  PROVE  WorkStep(w)
<1>1. wk \in [Workers -> Run]
  BY DEF IInv, RunInv
<1>2. ASSUME NEW v \in Workers, WorkStep(v) PROVE v = w
  BY <1>1, <1>2 DEF WorkStep, TakeJob, RunStep, SkipSettled, DropQueued, StartRun,
     SaveProcessing, SaveProcessDone, SaveUpdating, SaveDbUpdated, SaveDeleting,
     SaveCompleted, SaveDropped, SaveCancelled, SaveStatus, SaveRaises, SaveFailed,
     RunCrashes, EndRun, CopyStep, CopyOpen, CopyRead, CopyWrite, CopyCancelled,
     CopyFails, FlushProgress, FlushRaises, UpdateStep, FindRecord, FindMissing,
     FindMoved, FindConflict, DeleteConflict, Repoint, UpdateRaises, DeleteSource,
     Resume, Raise
<1>3. ASSUME NEW c \in Clients, RequestStep(c) PROVE wk' = wk
  BY <1>3 DEF RequestStep, CreateTask, CancelTask, PrepareRetry, InsertTask,
     SubmitTask, SettleCancel, RequestCancel, ResetTask, WriteRefused, HangUp
<1>4. ~Restart
  BY DEF Restart
<1>5. ~BootStep
  BY DEF BootStep, PlanOrphan, RecoverPlan, RecoveryFails
<1> QED BY <1>2, <1>3, <1>4, <1>5 DEF Next, WorkStep

(* Where a run may be next. *)
Settles(w) ==
  SaveCompleted(w) \/ SaveDropped(w) \/ SaveCancelled(w) \/ SaveFailed(w)

LEMMA NextPcs ==
  ASSUME IInv, NEW w \in Workers, WorkStep(w), wk'[w] # wk[w]
  PROVE  /\ wk'[w].pc = "save dropped" => DropQueued(w)
         /\ wk'[w].pc \in {"end", "skipped"} =>
              Settles(w) \/ SkipSettled(w) \/ RunCrashes(w)
<1>1. wk \in [Workers -> Run] /\ wk[w] \in Run
  BY DEF IInv, RunInv
<1>2. ASSUME NEW x, NEW y, wk' = [wk EXCEPT ![w].pc = x, ![w].status = y]
      PROVE  wk'[w].pc = x
  <2> DEFINE r == [wk[w] EXCEPT !.pc = x, !.status = y]
  <2>1. wk'[w] = r
    BY <1>1, <1>2
  <2> QED BY <1>1, <2>1 DEF Run
<1>3. ASSUME wk'[w].pc \in {"save dropped", "end", "skipped"},
             ~DropQueued(w), ~Settles(w), ~SkipSettled(w), ~RunCrashes(w)
      PROVE  FALSE
  <2>1. ~TakeJob(w)
    BY <1>1, <1>3 DEF TakeJob, Run
  <2>2. ~StartRun(w)
    <3>1. EntryPoint(job[w].start) \in {"save processing", "save updating", "save deleting"}
      BY DEF EntryPoint
    <3> QED BY <1>2, <1>3, <3>1 DEF StartRun
  <2>3. ~SaveRaises(w)
    BY <1>2, <1>3 DEF SaveRaises
  <2>4. ~EndRun(w)
    <3>1. EndRun(w) => wk'[w] = IdleRun
      BY <1>1 DEF EndRun
    <3>2. IdleRun.pc = "idle"
      BY DEF IdleRun
    <3> QED BY <1>3, <3>1, <3>2
  <2>5. ~SaveProcessing(w) /\ ~SaveProcessDone(w) /\ ~SaveUpdating(w)
        /\ ~SaveDbUpdated(w) /\ ~SaveDeleting(w)
    BY <1>2, <1>3 DEF SaveProcessing, SaveProcessDone, SaveUpdating, SaveDbUpdated,
       SaveDeleting, SaveStatus
  <2>6. ~CopyStep(w)
    <3>1. ~CopyRead(w)
      BY <1>1, <1>3 DEF CopyRead, Run
    <3>2. ~FlushProgress(w)
      BY DEF FlushProgress
    <3>3. ASSUME NEW x \in {"read", "copied", "save cancelled", "save failed"}
          PROVE  ~Resume(w, x)
      BY <1>1, <1>3 DEF Resume, Run
    <3>4. ~CopyOpen(w) /\ ~CopyWrite(w) /\ ~CopyCancelled(w)
      BY <3>3 DEF CopyOpen, CopyWrite, CopyCancelled
    <3>5. ~CopyFails(w) /\ ~FlushRaises(w)
      BY <3>3 DEF CopyFails, FlushRaises, Raise
    <3> QED BY <3>1, <3>2, <3>4, <3>5 DEF CopyStep
  <2>7. ~FindRecord(w)
    <3> SUFFICES ASSUME NEW v \in RecordsAt(Src(w)),
                        wk' = [wk EXCEPT ![w].pc = IF doc[TaskOf(w)].overwrite
                                                   THEN "find conflict" ELSE "repoint",
                                         ![w].video = v]
                 PROVE  FALSE
      BY DEF FindRecord
    <3> DEFINE r == [wk[w] EXCEPT !.pc = IF doc[TaskOf(w)].overwrite
                                         THEN "find conflict" ELSE "repoint",
                                  !.video = v]
    <3>1. wk'[w] = r
      BY <1>1
    <3> QED BY <1>1, <1>3, <3>1 DEF Run
  <2>8. ~UpdateRaises(w) /\ ~FindMissing(w) /\ ~FindMoved(w)
    BY <1>1, <1>3 DEF UpdateRaises, FindMissing, FindMoved, Resume, Raise, Run
  <2>9. ~FindConflict(w)
    <3>1. ~Resume(w, "repoint")
      BY <1>1, <1>3 DEF Resume, Run
    <3>2. ASSUME NEW v, wk' = [wk EXCEPT ![w].pc = "delete conflict", ![w].conflict = v]
          PROVE  FALSE
      BY <1>1, <1>3, <3>2 DEF Run
    <3> QED BY <3>1, <3>2 DEF FindConflict
  <2>10. ~DeleteConflict(w) /\ ~Repoint(w) /\ ~DeleteSource(w)
    BY <1>1, <1>3 DEF DeleteConflict, Repoint, DeleteSource, Resume, Run
  <2> QED BY <1>3, <2>1, <2>2, <2>3, <2>4, <2>5, <2>6, <2>7, <2>8, <2>9, <2>10
          DEF WorkStep, RunStep, UpdateStep, Settles
<1>4. Settles(w) => wk'[w].pc # "save dropped"
  <2>1. SaveCompleted(w) \/ SaveDropped(w) \/ SaveCancelled(w) =>
          \E x \in {"end", "skipped"} : wk'[w].pc = x
    BY <1>2 DEF SaveCompleted, SaveDropped, SaveCancelled, SaveStatus
  <2>2. SaveFailed(w) => Resume(w, "end")
    BY DEF SaveFailed
  <2> QED BY <1>1, <2>1, <2>2 DEF Settles, Resume, Run
<1>5. SkipSettled(w) \/ RunCrashes(w) => wk'[w].pc # "save dropped"
  <2>1. SkipSettled(w) \/ RunCrashes(w) => \E x \in {"end", "skipped"} : Resume(w, x)
    BY DEF SkipSettled, RunCrashes
  <2> QED BY <1>1, <2>1 DEF Resume, Run
<1>6. DropQueued(w) => wk'[w].pc = "save dropped"
  <2> SUFFICES ASSUME Resume(w, "save dropped") PROVE wk'[w].pc = "save dropped"
    BY DEF DropQueued
  <2> QED BY <1>1 DEF Resume, Run
<1> QED BY <1>3, <1>4, <1>5, <1>6

(* A request that is about to insert a document inserts a new one, and no  *)
(* other request is about to insert the same.                              *)
InsertInv ==
  \A c \in Clients : client[c].op = "insert" =>
    /\ ~Known(client[c].task)
    /\ \A k \in Clients \ {c} :
         client[k].op = "insert" => client[k].task # client[c].task

(* A request changes by its own steps, or goes with the process. *)
LEMMA WhoCalls ==
  ASSUME IInv, Next, NEW c \in Clients, client'[c] # client[c], client'[c] # IdleClient
  PROVE  RequestStep(c)
<1>1. client \in [Clients -> Call]
  BY DEF IInv, CallInv
<1>2. ASSUME NEW k \in Clients, RequestStep(k) PROVE k = c
  BY <1>1, <1>2 DEF RequestStep, CreateTask, CancelTask, PrepareRetry, InsertTask,
     SubmitTask, SettleCancel, RequestCancel, ResetTask, WriteRefused, HangUp,
     Await, Leave
<1>3. ASSUME NEW w \in Workers, TakeJob(w) \/ RunStep(w) \/ CopyStep(w) \/ UpdateStep(w)
      PROVE  client' = client
  BY <1>3 DEF TakeJob, RunStep, SkipSettled, DropQueued, StartRun, SaveProcessing,
     SaveProcessDone, SaveUpdating, SaveDbUpdated, SaveDeleting, SaveCompleted,
     SaveDropped, SaveCancelled, SaveStatus, SaveRaises, SaveFailed, RunCrashes, EndRun,
     CopyStep, CopyOpen, CopyRead, CopyWrite, CopyCancelled, CopyFails, FlushProgress,
     FlushRaises, UpdateStep, FindRecord, FindMissing, FindMoved, FindConflict,
     DeleteConflict, Repoint, UpdateRaises, DeleteSource
<1>4. ~Restart
  BY DEF Restart
<1>5. CASE BootStep
  BY <1>5 DEF BootStep, PlanOrphan, RecoverPlan, RecoveryFails
<1> QED BY <1>2, <1>3, <1>4, <1>5 DEF Next

(* What a request does next, by what it is about to do. *)
LEMMA NextOps ==
  ASSUME IInv, NEW c \in Clients, RequestStep(c)
  PROVE  /\ client'[c].op = "insert" => \E t \in Tasks : CreateTask(c, t)
         /\ client'[c].op = "reset" => \E t \in Tasks : PrepareRetry(c, t)
         /\ client'[c].op = "submit" => InsertTask(c)
         /\ client'[c].op = "resubmit" => ResetTask(c)
         /\ client'[c].op = "settle" => "cancel" \in Events
         /\ client'[c].op = "flag" => "cancel" \in Events \/ SettleCancel(c)
<1>1. client \in [Clients -> Call]
  BY DEF IInv, CallInv
<1>2. ASSUME Leave(c) PROVE client'[c].op = "idle"
  BY <1>1, <1>2 DEF Leave, IdleClient
<1>3. ASSUME NEW t \in Tasks, CreateTask(c, t) PROVE client'[c].op = "insert"
  BY <1>1, <1>3 DEF CreateTask
<1>4. ASSUME NEW t \in Tasks, CancelTask(c, t)
      PROVE  client'[c].op \in {"settle", "flag"} /\ "cancel" \in Events
  BY <1>1, <1>4 DEF CancelTask, Await, Call
<1>5. ASSUME NEW t \in Tasks, PrepareRetry(c, t) PROVE client'[c].op = "reset"
  BY <1>1, <1>5 DEF PrepareRetry, Await, Call
<1>6. InsertTask(c) => client'[c].op = "submit"
  BY <1>1 DEF InsertTask, IdleClient
<1>7. /\ SettleCancel(c) => client'[c].op = "flag"
      /\ ResetTask(c) => client'[c].op = "resubmit"
  BY <1>1 DEF SettleCancel, ResetTask, Call
<1>8. CASE SubmitTask(c) \/ RequestCancel(c) \/ WriteRefused(c) \/ HangUp(c)
  BY <1>2, <1>8 DEF SubmitTask, RequestCancel, WriteRefused, HangUp
<1> QED BY <1>3, <1>4, <1>5, <1>6, <1>7, <1>8 DEF RequestStep

LEMMA WhoInserts ==
  ASSUME IInv, Next, NEW c \in Clients, client'[c].op = "insert"
  PROVE  client'[c] = client[c] \/ \E t \in Tasks : CreateTask(c, t)
BY WhoCalls, NextOps DEF IdleClient

LEMMA StepInsertInv ==
  ASSUME IInv, InsertInv, [Next]_vars
  PROVE  InsertInv'
<1>1. CASE UNCHANGED vars
  BY <1>1 DEF vars, dataVars, InsertInv, Known
<1>2. CASE Next
  <2>1. ASSUME NEW c \in Clients, client'[c].op = "insert",
               NEW t \in Tasks, CreateTask(c, t)
        PROVE  /\ client'[c].task = t /\ doc'[t].status = "NONE"
               /\ \A k \in Clients \ {c} : client'[k] = client[k] /\ client[k].task # t
    BY <2>1 DEF CreateTask, dataVars, NoDoc, IInv, CallInv
  <2>2. ASSUME NEW c \in Clients, client'[c].op = "insert", client'[c] = client[c]
        PROVE  doc'[client'[c].task].status = "NONE"
    <3>1. PICK t \in Tasks : client[c].task = t
      BY <2>2 DEF IInv, CallInv, CallOK
    <3>2. ~Known(t) /\ client[c].op = "insert"
      BY <2>2, <3>1 DEF InsertInv
    <3>3. CASE doc'[t] = doc[t]
      BY <3>1, <3>2, <3>3, <2>2 DEF Known
    <3>4. ASSUME NEW k \in Clients, client[k].task = t, CallSaves(k) PROVE FALSE
      <4>1. client[k].op = "insert"
        BY <3>2, <3>4 DEF CallSaves, InsertTask, SettleCancel, ResetTask, IInv, CallInv,
           CallOK, Known
      <4>2. k = c
        BY <2>2, <3>1, <3>2, <3>4, <4>1 DEF InsertInv
      <4>3. InsertTask(c)
        BY <3>4, <4>1, <4>2 DEF CallSaves, SettleCancel, ResetTask
      <4>4. client'[c].op = "submit"
        BY <4>3 DEF InsertTask, IdleClient, IInv, CallInv
      <4> QED BY <2>2, <4>4
    <3>5. ASSUME NEW w \in Workers, TaskOf(w) = t, Saves(w) PROVE FALSE
      <4>1. wk[w].pc # "idle"
        BY <3>5 DEF Saves, SaveProcessing, SaveProcessDone, SaveUpdating,
           SaveDbUpdated, SaveDeleting, SaveCompleted, SaveDropped, SaveCancelled,
           SaveStatus, SaveFailed, FlushProgress, At, InLoop, Copying
      <4> QED BY <3>2, <3>5, <4>1, TaskOfWorker
    <3>6. ~PlanOrphan(t)
      BY <3>2 DEF PlanOrphan, IInv, BootInv, PlanInv, IsLive, Known, Active, Phase
    <3> QED BY <1>2, <3>3, <3>4, <3>5, <3>6, WhoWrites
  <2>3. ASSUME NEW c \in Clients, client'[c].op = "insert"
        PROVE  /\ doc'[client'[c].task].status = "NONE"
               /\ \A k \in Clients \ {c} :
                    client'[k].op = "insert" => client'[k].task # client'[c].task
    <3>1. CASE client'[c] = client[c]
      <4>1. ASSUME NEW k \in Clients \ {c}, client'[k].op = "insert"
            PROVE  client'[k].task # client'[c].task
        <5>1. CASE client'[k] = client[k]
          BY <2>3, <3>1, <4>1, <5>1 DEF InsertInv
        <5>2. CASE \E t \in Tasks : CreateTask(k, t)
          BY <2>1, <3>1, <4>1, <5>2
        <5> QED BY <1>2, <4>1, <5>1, <5>2, WhoInserts
      <4> QED BY <2>2, <2>3, <3>1, <4>1
    <3>2. CASE \E t \in Tasks : CreateTask(c, t)
      BY <2>1, <2>3, <3>2
    <3> QED BY <1>2, <2>3, <3>1, <3>2, WhoInserts
  <2> QED BY <2>3 DEF InsertInv, Known
<1> QED BY <1>1, <1>2

LEMMA InitTasks == MigrationInit => LockInv /\ InsertInv
<1> SUFFICES ASSUME MigrationInit PROVE LockInv /\ InsertInv
  OBVIOUS
<1>1. /\ \A w \in Workers : wk[w].pc = "idle"
      /\ \A c \in Clients : client[c].op = "idle"
  BY DEF MigrationInit, IdleRun, IdleClient
<1> QED BY <1>1 DEF LockInv, WorksUnderLock, NobodySettles, InsertInv

-----------------------------------------------------------------------------
(* Where nobody cancels and retries come one at a time, a request that is  *)
(* about to put a task back works on one that is FAILED still, and nothing *)
(* is dropped by a run that has not looked at it.                          *)
OneRetry == "retry" \in Events => \A c, k \in Clients : c = k
FinalInv ==
  /\ LockInv
  /\ InsertInv
  /\ flags = {}
  /\ \A w \in Workers : wk[w].pc # "save dropped"
  /\ \A c \in Clients :
       /\ client[c].op # "flag"
       /\ client[c].op = "reset" =>
            "retry" \in Events /\ doc[client[c].task].status = "FAILED"

(* A run that saves its document does so while it is unfinished. *)
LEMMA SavesLocked ==
  ASSUME IInv, FinalInv, NEW w \in Workers, Saves(w)
  PROVE  IsLive(TaskOf(w))
<1>1. wk[w].pc \notin Free
  BY DEF FinalInv, Saves, SaveProcessing, SaveProcessDone, SaveUpdating, SaveDbUpdated,
     SaveDeleting, SaveCompleted, SaveDropped, SaveCancelled, SaveStatus, SaveFailed,
     FlushProgress, At, InLoop, Copying, Free
<1> QED BY <1>1 DEF FinalInv, LockInv, WorksUnderLock, Free

(* Whoever writes a settled document resets a FAILED one. *)
LEMMA SettledWritten ==
  ASSUME IInv, FinalInv, Next, NEW t \in Tasks, Known(t), ~IsLive(t), doc'[t] # doc[t]
  PROVE  \E c \in Clients : client[c].task = t /\ ResetTask(c)
<1>1. \A w \in Workers : TaskOf(w) = t => ~Saves(w)
  BY SavesLocked
<1>2. ~PlanOrphan(t)
  BY DEF PlanOrphan, IInv, BootInv, PlanInv
<1>3. PICK c \in Clients : client[c].task = t /\ CallSaves(c)
  BY <1>1, <1>2, WhoWrites
<1>4. ~InsertTask(c) /\ ~SettleCancel(c)
  BY <1>3 DEF InsertTask, SettleCancel, FinalInv, LockInv, NobodySettles, InsertInv
<1> QED BY <1>3, <1>4 DEF CallSaves

LEMMA StepFinalInv ==
  ASSUME "cancel" \notin Events, OneRetry, IInv, FinalInv, [Next]_vars
  PROVE  FinalInv'
<1>1. LockInv' /\ InsertInv'
  BY StepLockInv, StepInsertInv DEF FinalInv
<1>2. CASE UNCHANGED vars
  BY <1>1, <1>2 DEF vars, dataVars, FinalInv
<1>3. CASE Next
  <2>1. flags' = {}
    BY <1>3 DEF Next, RequestStep, CreateTask, CancelTask, PrepareRetry, InsertTask,
       SubmitTask, SettleCancel, RequestCancel, ResetTask, WriteRefused, HangUp,
       TakeJob, RunStep, SkipSettled, DropQueued, StartRun, SaveProcessing,
       SaveProcessDone, SaveUpdating, SaveDbUpdated, SaveDeleting, SaveCompleted,
       SaveDropped, SaveCancelled, SaveStatus, SaveRaises, SaveFailed, RunCrashes, EndRun,
       CopyStep, CopyOpen, CopyRead, CopyWrite, CopyCancelled, CopyFails, FlushProgress,
       FlushRaises, UpdateStep, FindRecord, FindMissing, FindMoved, FindConflict,
       DeleteConflict, Repoint, UpdateRaises, DeleteSource, Restart, BootStep,
       PlanOrphan, RecoverPlan, RecoveryFails, FinalInv
  <2>2. ASSUME NEW w \in Workers PROVE wk'[w].pc # "save dropped"
    <3>1. CASE wk'[w] = wk[w]
      BY <3>1 DEF FinalInv
    <3>2. CASE wk'[w] = IdleRun
      BY <3>2 DEF IdleRun
    <3>3. CASE WorkStep(w) /\ wk'[w] # wk[w]
      BY <3>3, NextPcs DEF FinalInv, DropQueued
    <3> QED BY <1>3, <3>1, <3>2, <3>3, WhoRuns
  <2>3. ASSUME NEW c \in Clients PROVE client'[c].op # "flag"
    <3>1. CASE client'[c] = client[c]
      BY <3>1 DEF FinalInv
    <3>2. CASE client'[c] = IdleClient
      BY <3>2 DEF IdleClient
    <3>3. CASE RequestStep(c)
      BY <3>3, NextOps DEF FinalInv, LockInv, NobodySettles, SettleCancel
    <3> QED BY <1>3, <3>1, <3>2, <3>3, WhoCalls
  <2>4. ASSUME NEW c \in Clients, client'[c].op = "reset"
        PROVE  "retry" \in Events /\ doc'[client'[c].task].status = "FAILED"
    <3>1. CASE \E t \in Tasks : PrepareRetry(c, t)
      BY <2>4, <3>1 DEF PrepareRetry, Await, IInv, CallInv, Call
    <3>2. CASE client'[c] = client[c]
      <4>1. PICK t \in Tasks : /\ client[c].task = t /\ client[c].op = "reset"
                               /\ doc[t].status = "FAILED" /\ "retry" \in Events
        BY <2>4, <3>2 DEF FinalInv, IInv, CallInv, CallOK
      <4>2. Known(t) /\ ~IsLive(t)
        BY <4>1 DEF Known, IsLive, Active, Phase
      <4>3. ~ResetTask(c)
        BY <2>4, <3>2 DEF ResetTask, IInv, CallInv, Call
      <4>4. doc'[t] = doc[t]
        BY <1>3, <4>1, <4>2, <4>3, SettledWritten DEF OneRetry
      <4> QED BY <3>2, <4>1, <4>4
    <3>3. client'[c] # IdleClient
      BY <2>4 DEF IdleClient
    <3> QED BY <1>3, <2>4, <3>1, <3>2, <3>3, WhoCalls, NextOps
  <2> QED BY <1>1, <2>1, <2>2, <2>3, <2>4 DEF FinalInv
<1> QED BY <1>2, <1>3

(* A task that has been COMPLETED or CANCELLED stays so, whatever fails,   *)
(* restarts or is tried again: only a FAILED one is ever put back.         *)
THEOREM SettledStays ==
  ASSUME "cancel" \notin Events, OneRetry
  PROVE  Spec => SettledIsFinal
<1>1. MigrationInit => FinalInv
  <2> SUFFICES ASSUME MigrationInit PROVE FinalInv
    OBVIOUS
  <2>1. /\ \A w \in Workers : wk[w].pc = "idle"
        /\ \A c \in Clients : client[c].op = "idle"
        /\ flags = {}
    BY DEF MigrationInit, IdleRun, IdleClient
  <2> QED BY <2>1, InitTasks DEF FinalInv
<1>2. IInv /\ FinalInv /\ [Next]_vars => FinalInv'
  BY StepFinalInv
<1>3. ASSUME IInv, FinalInv, [Next]_vars
      PROVE  [\A t \in Tasks : doc[t].status \in {"COMPLETED", "CANCELLED"}
                                 => doc'[t].status = doc[t].status]_vars
  <2> SUFFICES ASSUME Next, NEW t \in Tasks, doc[t].status \in {"COMPLETED", "CANCELLED"}
               PROVE  doc'[t] = doc[t]
    BY <1>3
  <2>1. Known(t) /\ ~IsLive(t)
    BY DEF Known, IsLive, Active, Phase
  <2>2. \A c \in Clients : client[c].task = t => ~ResetTask(c)
    BY <1>3 DEF ResetTask, FinalInv
  <2> QED BY <1>3, <2>1, <2>2, SettledWritten
<1> QED BY <1>1, <1>2, <1>3, InitIInv, StepIInv, PTL DEF Spec, SettledIsFinal

-----------------------------------------------------------------------------
(* Where no call of the database fails and nobody retries, an unfinished   *)
(* task is always in somebody's care: while the process boots it is still  *)
(* to be planned or is planned, and otherwise the runner has it or the     *)
(* request that has just inserted it.                                      *)
InHand(t) ==
  \/ t \in waiting \cup running
  \/ \E c \in Clients : client[c].op = "submit" /\ client[c].task = t
Cared(t) ==
  \/ booting /\ t \in orphans \cup TasksIn(plan)
  \/ ~booting /\ InHand(t)
CareInv ==
  /\ InsertInv
  /\ \A t \in Tasks : IsLive(t) => Cared(t)
  /\ \A w \in Workers : wk[w].pc \in {"end", "skipped"} => ~IsLive(TaskOf(w))
  /\ \A c \in Clients : client[c].op \notin {"reset", "resubmit"}

(* A worker keeps its job until its run ends. *)
LEMMA SameJob ==
  ASSUME IInv, Next, NEW w \in Workers, wk'[w].pc \notin {"idle", "load"}
  PROVE  job'[w] = job[w]
<1>1. /\ wk \in [Workers -> Run] /\ wk[w] \in Run
      /\ job \in [Workers -> [task : Tasks \cup {None}, start : Phase]]
  BY DEF IInv, RunInv, JobInv, JobTypeOK
<1>2. ASSUME NEW c \in Clients, RequestStep(c) PROVE job' = job
  BY <1>2 DEF RequestStep, CreateTask, CancelTask, PrepareRetry, InsertTask,
     SubmitTask, Submit, SettleCancel, RequestCancel, ResetTask, WriteRefused, HangUp,
     jobVars
<1>3. ASSUME NEW v \in Workers, TakeJob(v) PROVE job'[w] = job[w]
  <2>1. v # w
    BY <1>1, <1>3 DEF TakeJob, Run
  <2> QED BY <1>1, <1>3, <2>1 DEF TakeJob, Take
<1>4. ASSUME NEW v \in Workers, EndRun(v) PROVE job'[w] = job[w]
  <2>1. v # w
    <3>1. EndRun(w) => wk'[w] = IdleRun
      BY <1>1 DEF EndRun
    <3>2. IdleRun.pc = "idle"
      BY DEF IdleRun
    <3> QED BY <1>4, <3>1, <3>2
  <2> QED BY <1>1, <1>4, <2>1 DEF EndRun, Finish
<1>5. ASSUME NEW v \in Workers, WorkStep(v), ~TakeJob(v), ~EndRun(v) PROVE job' = job
  BY <1>5 DEF WorkStep, RunStep, SkipSettled, DropQueued, StartRun,
     SaveProcessing, SaveProcessDone, SaveUpdating, SaveDbUpdated, SaveDeleting,
     SaveCompleted, SaveDropped, SaveCancelled, SaveStatus, SaveRaises, SaveFailed,
     RunCrashes, CopyStep, CopyOpen, CopyRead, CopyWrite, CopyCancelled,
     CopyFails, FlushProgress, FlushRaises, UpdateStep, FindRecord, FindMissing,
     FindMoved, FindConflict, DeleteConflict, Repoint, UpdateRaises, DeleteSource,
     jobVars
<1>6. ~Restart
  BY DEF Restart, IdleRun
<1>7. CASE BootStep
  BY <1>7 DEF BootStep, PlanOrphan, RecoverPlan, SubmitPlan, RecoveryFails, jobVars
<1> QED BY <1>2, <1>3, <1>4, <1>5, <1>6, <1>7 DEF Next, WorkStep

(* A run is over when its task is settled ... *)
LEMMA EndsSettled ==
  ASSUME "db fault" \notin Events, IInv, CareInv, Next,
         NEW w \in Workers, wk'[w].pc \in {"end", "skipped"}
  PROVE  ~IsLive(TaskOf(w))'
<1>1. doc \in [Tasks -> Document] /\ wk'[w] # IdleRun
  <2>1. IdleRun.pc = "idle"
    BY DEF IdleRun
  <2> QED BY <2>1 DEF IInv, DataInv, DocInv
<1>2. CASE wk'[w] = wk[w]
  <2>1. PICK t \in Tasks : TaskOf(w) = t /\ Known(t) /\ ~IsLive(t) /\ t \in running
                           /\ ~booting
    BY <1>2, TaskOfWorker DEF CareInv
  <2>2. job'[w] = job[w]
    BY SameJob
  <2>3. CASE doc'[t] = doc[t]
    BY <2>1, <2>2, <2>3 DEF TaskOf, IsLive
  <2>4. ASSUME NEW c \in Clients, client[c].task = t, CallSaves(c)
        PROVE  doc'[t].status = "CANCELLED"
    <3>1. SettleCancel(c)
      BY <2>1, <2>4 DEF CallSaves, InsertTask, ResetTask, CareInv, InsertInv
    <3> QED BY <1>1, <2>1, <2>4, <3>1 DEF SettleCancel, Persist, Document
  <2>5. ASSUME NEW v \in Workers, TaskOf(v) = t, Saves(v) PROVE FALSE
    <3>1. wk[v].pc \notin {"end", "skipped"}
      BY <2>5 DEF Saves, SaveProcessing, SaveProcessDone, SaveUpdating,
         SaveDbUpdated, SaveDeleting, SaveCompleted, SaveDropped, SaveCancelled,
         SaveStatus, SaveFailed, FlushProgress, At, InLoop, Copying
    <3>2. v = w
      BY <2>1, <2>5, NoneAssumption DEF IInv, JobInv, ExclusiveRun, TaskOf
    <3> QED BY <1>2, <3>1, <3>2
  <2>6. ~PlanOrphan(t)
    BY <2>1 DEF PlanOrphan
  <2>7. doc'[t] # doc[t] => doc'[t].status = "CANCELLED"
    BY <2>4, <2>5, <2>6, WhoWrites
  <2> QED BY <2>1, <2>2, <2>3, <2>7 DEF TaskOf, IsLive, Active, Phase
<1>3. CASE WorkStep(w) /\ wk'[w] # wk[w]
  <2>1. Settles(w) \/ SkipSettled(w)
    BY <1>3, NextPcs DEF RunCrashes
  <2>2. wk[w].pc # "idle" /\ UNCHANGED job
    BY <2>1 DEF Settles, SkipSettled, SaveCompleted, SaveDropped, SaveCancelled,
       SaveStatus, SaveFailed, At, jobVars
  <2>3. TaskOf(w) \in Tasks
    BY <2>2, TaskOfWorker
  <2>4. doc'[TaskOf(w)].status \in TERMINAL
    BY <1>1, <2>1, <2>3 DEF Settles, SkipSettled, SaveCompleted, SaveDropped,
       SaveCancelled, SaveStatus, SaveFailed, Persist, Document, TERMINAL, dataVars
  <2> QED BY <2>2, <2>4 DEF IsLive, TaskOf, TERMINAL, Active, Phase
<1> QED BY <1>1, <1>2, <1>3, WhoRuns

(* ... and until then whoever cares for a task hands it on. *)
LEMMA CareKept ==
  ASSUME "db fault" \notin Events, IInv, CareInv, Next, NEW t \in Tasks, IsLive(t)
  PROVE  Cared(t)'
<1>1. Cared(t)
  BY DEF CareInv
<1>2. ASSUME NEW c \in Clients, RequestStep(c) PROVE Cared(t)'
  <2>1. ~booting /\ ~booting'
    <3>1. ~booting
      BY <1>2 DEF RequestStep, CreateTask, CancelTask, PrepareRetry, InsertTask,
         SubmitTask, SettleCancel, RequestCancel, ResetTask, WriteRefused, HangUp,
         Idle, IInv, BootInv, Alone
    <3>2. UNCHANGED booting
      BY <1>2 DEF RequestStep, CreateTask, CancelTask, PrepareRetry, InsertTask,
         SubmitTask, SettleCancel, RequestCancel, ResetTask, WriteRefused, HangUp,
         bootVars
    <3> QED BY <3>1, <3>2
  <2>2. UNCHANGED running /\ waiting \subseteq waiting'
    BY <1>2 DEF RequestStep, CreateTask, CancelTask, PrepareRetry, InsertTask,
       SubmitTask, Submit, SettleCancel, RequestCancel, ResetTask, WriteRefused, HangUp,
       jobVars
  <2>3. ASSUME NEW k \in Clients, client[k].op = "submit", client[k].task = t
        PROVE  client'[k] = client[k] \/ t \in waiting' \cup running'
    <3>1. CASE k = c
      <4>1. SubmitTask(c)
        BY <1>2, <2>3, <3>1 DEF RequestStep, CreateTask, CancelTask, PrepareRetry,
           InsertTask, SettleCancel, RequestCancel, ResetTask, WriteRefused, HangUp, Idle
      <4> QED BY <2>3, <3>1, <4>1 DEF SubmitTask, Submit, IsActive
    <3>2. CASE k # c
      BY <1>2, <3>2 DEF RequestStep, CreateTask, CancelTask, PrepareRetry, InsertTask,
         SubmitTask, SettleCancel, RequestCancel, ResetTask, WriteRefused, HangUp,
         Await, Leave, IInv, CallInv
    <3> QED BY <3>1, <3>2
  <2>4. t \in waiting' \cup running'
          \/ \E k \in Clients : client'[k].op = "submit" /\ client'[k].task = t
    BY <1>1, <2>1, <2>2, <2>3 DEF Cared, InHand
  <2> QED BY <2>1, <2>4 DEF Cared, InHand
<1>3. ASSUME NEW w \in Workers, WorkStep(w)
      PROVE  /\ ~booting /\ UNCHANGED <<client, booting>>
             /\ ~EndRun(w) /\ ~TakeJob(w) => UNCHANGED jobVars
  <2>1. UNCHANGED <<client, booting>>
    BY <1>3 DEF WorkStep, TakeJob, RunStep, SkipSettled, DropQueued, StartRun,
       SaveProcessing, SaveProcessDone, SaveUpdating, SaveDbUpdated, SaveDeleting,
       SaveCompleted, SaveDropped, SaveCancelled, SaveStatus, SaveRaises, SaveFailed,
       RunCrashes, EndRun, CopyStep, CopyOpen, CopyRead, CopyWrite, CopyCancelled,
       CopyFails, FlushProgress, FlushRaises, UpdateStep, FindRecord, FindMissing,
       FindMoved, FindConflict, DeleteConflict, Repoint, UpdateRaises, DeleteSource,
       bootVars
  <2>2. ~EndRun(w) /\ ~TakeJob(w) => UNCHANGED jobVars
    BY <1>3 DEF WorkStep, RunStep, SkipSettled, DropQueued, StartRun,
       SaveProcessing, SaveProcessDone, SaveUpdating, SaveDbUpdated, SaveDeleting,
       SaveCompleted, SaveDropped, SaveCancelled, SaveStatus, SaveRaises, SaveFailed,
       RunCrashes, CopyStep, CopyOpen, CopyRead, CopyWrite, CopyCancelled,
       CopyFails, FlushProgress, FlushRaises, UpdateStep, FindRecord, FindMissing,
       FindMoved, FindConflict, DeleteConflict, Repoint, UpdateRaises, DeleteSource
  <2>3. ASSUME TakeJob(w) PROVE Head(queue).task \in waiting
    <3>1. queue \in Seq(Job) /\ queue # <<>> /\ waiting = TasksIn(queue)
      BY <2>3 DEF TakeJob, Take, IInv, JobInv, JobTypeOK, ExclusiveRun
    <3> QED BY <3>1, TasksInTail
  <2>4. ~TakeJob(w) => wk[w].pc # "idle"
    BY <1>3 DEF WorkStep, RunStep, SkipSettled, DropQueued, StartRun,
       SaveProcessing, SaveProcessDone, SaveUpdating, SaveDbUpdated, SaveDeleting,
       SaveCompleted, SaveDropped, SaveCancelled, SaveStatus, SaveRaises, SavedStatus,
       SaveFailed, RunCrashes, EndRun, CopyStep, CopyOpen, CopyRead, CopyWrite,
       CopyCancelled, CopyFails, FlushProgress, FlushRaises, UpdateStep, FindRecord,
       FindMissing, FindMoved, FindConflict, DeleteConflict, Repoint, UpdateRaises,
       DeleteSource, At, InLoop, Copying
  <2> QED BY <2>1, <2>2, <2>3, <2>4, TaskOfWorker DEF IInv, BootInv, Alone
<1>4. ASSUME ~booting, UNCHANGED <<client, booting>>,
             t \in waiting \cup running => t \in waiting' \cup running'
      PROVE  Cared(t)'
  <2>1. t \in waiting' \cup running'
          \/ \E k \in Clients : client'[k].op = "submit" /\ client'[k].task = t
    BY <1>1, <1>4 DEF Cared, InHand
  <2> QED BY <1>4, <2>1 DEF Cared, InHand
<1>5. ASSUME NEW w \in Workers, WorkStep(w) PROVE Cared(t)'
  <2>1. CASE TakeJob(w)
    <3>1. waiting \cup running \subseteq waiting' \cup running'
      BY <2>1 DEF TakeJob, Take
    <3> QED BY <1>3, <1>5, <1>4, <3>1
  <2>2. CASE EndRun(w)
    <3>1. TaskOf(w) # t
      BY <2>2 DEF EndRun, CareInv
    <3>2. waiting' = waiting /\ running' = running \ {TaskOf(w)}
      BY <2>2 DEF EndRun, Finish, TaskOf
    <3> QED BY <1>3, <1>5, <1>4, <3>1, <3>2
  <2>3. CASE ~TakeJob(w) /\ ~EndRun(w)
    BY <1>3, <1>5, <1>4, <2>3 DEF jobVars
  <2> QED BY <2>1, <2>2, <2>3
<1>6. CASE Restart
  BY <1>6 DEF Restart, Cared
<1>7. ASSUME NEW u \in Tasks, PlanOrphan(u) PROVE Cared(t)'
  <2>1. booting /\ booting' /\ orphans' = orphans \ {u} /\ plan \in Seq(Job)
    BY <1>7 DEF PlanOrphan, IInv, BootInv, BootTypeOK
  <2>2. PICK e \in Job : e.task = u /\ plan' = Append(plan, e)
    <3>1. RESUME_POINT[doc[u].status] \in Phase
      BY <1>7 DEF PlanOrphan, IInv, BootInv, PlanInv, IsLive, RESUME_POINT, Active, Phase
    <3> QED BY <1>7, <3>1 DEF PlanOrphan, JobOf, Job
  <2>3. TasksIn(plan') = TasksIn(plan) \cup {u}
    BY <2>1, <2>2, TasksInAppend
  <2>4. TasksIn(plan)' = TasksIn(plan')
    BY DEF TasksIn
  <2> QED BY <1>1, <2>1, <2>3, <2>4 DEF Cared
<1>8. CASE RecoverPlan
  <2>1. booting /\ ~booting' /\ orphans = {} /\ waiting' = waiting \cup TasksIn(plan)
    BY <1>8 DEF RecoverPlan, SubmitPlan
  <2> QED BY <1>1, <2>1 DEF Cared, InHand
<1>9. \A u \in Tasks : ~RecoveryFails(u)
  BY DEF RecoveryFails
<1> QED BY <1>2, <1>5, <1>6, <1>7, <1>8, <1>9 DEF Next, BootStep, WorkStep

(* A task that becomes unfinished is in somebody's care at once. *)
LEMMA CareTaken ==
  ASSUME "db fault" \notin Events, IInv, CareInv, Next,
         NEW t \in Tasks, ~IsLive(t), IsLive(t)'
  PROVE  Cared(t)'
<1>1. /\ doc \in [Tasks -> Document] /\ doc'[t] # doc[t]
      /\ plan \in Seq(Job) /\ booting \in BOOLEAN
  BY DEF IsLive, IInv, DataInv, DocInv, BootInv, BootTypeOK
<1>2. ASSUME NEW c \in Clients, client[c].task = t, CallSaves(c)
      PROVE  Cared(t)'
  <2>1. doc'[t].status \in Active
    BY DEF IsLive
  <2>2. ~SettleCancel(c) /\ ~ResetTask(c)
    <3>1. "CANCELLED" \notin Active
      BY DEF Active, Phase
    <3>2. SettleCancel(c) => doc'[t].status = "CANCELLED"
      <4>1. SettleCancel(c) => Persist(t, "CANCELLED")
        BY <1>2 DEF SettleCancel
      <4>2. doc[t] \in Document
        BY <1>1
      <4>3. Persist(t, "CANCELLED") => doc'[t].status = "CANCELLED"
        BY <1>1, <4>2 DEF Persist, Document
      <4> QED BY <4>1, <4>3
    <3> QED BY <2>1, <3>1, <3>2 DEF ResetTask, CareInv
  <2>3. InsertTask(c)
    BY <1>2, <2>2 DEF CallSaves
  <2>4. ~booting /\ ~booting'
    BY <2>3 DEF InsertTask, IInv, BootInv, Alone, bootVars
  <2>5. client'[c].op = "submit" /\ client'[c].task = t
    BY <1>2, <2>3 DEF InsertTask, IdleClient, IInv, CallInv
  <2> QED BY <2>4, <2>5 DEF Cared, InHand
<1>3. ASSUME NEW w \in Workers, TaskOf(w) = t, Saves(w)
      PROVE  Cared(t)'
  <2>1. wk[w].pc # "idle"
    BY <1>3 DEF Saves, SaveProcessing, SaveProcessDone, SaveUpdating,
       SaveDbUpdated, SaveDeleting, SaveCompleted, SaveDropped, SaveCancelled,
       SaveStatus, SaveFailed, FlushProgress, At, InLoop, Copying
  <2>2. UNCHANGED <<running, booting>>
    BY <1>3 DEF Saves, SaveProcessing, SaveProcessDone, SaveUpdating,
       SaveDbUpdated, SaveDeleting, SaveCompleted, SaveDropped, SaveCancelled,
       SaveStatus, SaveFailed, FlushProgress, jobVars, bootVars
  <2> QED BY <1>3, <2>1, <2>2, TaskOfWorker DEF Cared, InHand
<1>4. CASE PlanOrphan(t)
  <2>1. t \in orphans /\ IsLive(t)
    BY <1>4 DEF PlanOrphan, IInv, BootInv, PlanInv
  <2> QED BY <2>1
<1> QED BY <1>1, <1>2, <1>3, <1>4, WhoWrites

LEMMA StepCareInv ==
  ASSUME "retry" \notin Events, "db fault" \notin Events, IInv, CareInv, [Next]_vars
  PROVE  CareInv'
<1>1. CASE UNCHANGED vars
  <2>1. /\ UNCHANGED <<waiting, running, job, doc, wk, client, booting, orphans>>
        /\ TasksIn(plan)' = TasksIn(plan)
    BY <1>1 DEF vars, jobVars, dataVars, bootVars, TasksIn
  <2>2. InsertInv'
    BY StepInsertInv DEF CareInv
  <2>3. \A t \in Tasks : (Cared(t))' = Cared(t)
    BY <2>1 DEF Cared, InHand
  <2> QED BY <2>1, <2>2, <2>3 DEF CareInv, IsLive, TaskOf
<1>2. CASE Next
  <2>1. InsertInv'
    BY StepInsertInv DEF CareInv
  <2>2. ASSUME NEW t \in Tasks, IsLive(t)' PROVE Cared(t)'
    BY <1>2, <2>2, CareKept, CareTaken
  <2>3. ASSUME NEW w \in Workers, wk'[w].pc \in {"end", "skipped"}
        PROVE  ~IsLive(TaskOf(w))'
    BY <1>2, <2>3, EndsSettled
  <2>4. ASSUME NEW c \in Clients, client'[c].op \in {"reset", "resubmit"}
        PROVE  FALSE
    <3>1. client'[c] # client[c] /\ client'[c] # IdleClient
      <4>1. client[c].op \notin {"reset", "resubmit"}
        BY DEF CareInv
      <4>2. IdleClient.op = "idle"
        BY DEF IdleClient
      <4> QED BY <2>4, <4>1, <4>2
    <3>2. RequestStep(c)
      BY <1>2, <3>1, WhoCalls
    <3> QED BY <2>4, <3>2, NextOps DEF PrepareRetry, ResetTask, CareInv
  <2> QED BY <2>1, <2>2, <2>3, <2>4 DEF CareInv
<1> QED BY <1>1, <1>2

(* Where no call of the database fails and nobody retries, an unfinished   *)
(* task never waits for a worker that will not come: it is queued or run,  *)
(* unless its request, or the recovery, has yet to submit it.              *)
THEOREM NobodyIsStranded ==
  ASSUME "retry" \notin Events, "db fault" \notin Events
  PROVE  Spec => []NobodyStranded
<1>1. MigrationInit => CareInv
  <2> SUFFICES ASSUME MigrationInit PROVE CareInv
    OBVIOUS
  <2>1. /\ \A w \in Workers : wk[w].pc = "idle"
        /\ \A c \in Clients : client[c].op = "idle"
        /\ \A t \in Tasks : ~IsLive(t)
    BY DEF MigrationInit, IdleRun, IdleClient, NoDoc, IsLive, Active, Phase
  <2> QED BY <2>1, InitTasks DEF CareInv
<1>2. IInv /\ CareInv /\ [Next]_vars => CareInv'
  BY StepCareInv
<1>3. IInv /\ CareInv => NobodyStranded
  <2> SUFFICES ASSUME CareInv, NEW t \in Tasks, IsLive(t), ~booting,
                      \A c \in Clients : client[c].task # t
               PROVE  IsActive(t)
    BY DEF NobodyStranded
  <2> QED BY DEF CareInv, Cared, InHand, IsActive
<1> QED BY <1>1, <1>2, <1>3, InitIInv, StepIInv, PTL DEF Spec
==============================================================================
