----------------------------- MODULE Migration -----------------------------
(***************************************************************************)
(* A video file moving from one place to another: the task documents in    *)
(* MongoDB, the files, the video records, the workers that run the three   *)
(* phases of a migration, the GraphQL requests that create, cancel and     *)
(* retry one, and the recovery of interrupted tasks after a restart        *)
(* (features/migration/migration_service.py on the template of             *)
(* platform/jobs/state_machine.py, scheduled by JobQueue).                 *)
(*                                                                         *)
(* Granularity.  A step is what a coroutine does between two awaits.  A    *)
(* database read and the code after its reply are one step; a write takes  *)
(* effect in a step of its own, and the code after its reply is the next:  *)
(* others may see what was saved before the writer goes on.  The pc of a   *)
(* worker, and the op of a request, name the call that is under way.       *)
(*                                                                         *)
(* Data.  The content of a file is the video it belongs to, Partial for    *)
(* bytes that are no whole video, or None for no file.  Of a document only *)
(* the fields that steer the code are kept: beanie's save() replaces the   *)
(* whole document, so the fields others changed meanwhile are overwritten. *)
(***************************************************************************)
EXTENDS JobQueue, FiniteSets

CONSTANTS
  Clients,   \* concurrent GraphQL requests
  Videos, Paths,
  Home,      \* where each video lies at the start
  Request,   \* the create request that makes each task
  Variant,   \* the free name "rename" finds for a taken path
  Buckets,   \* paths in object storage: a write shows when it is complete
  Partial,
  Events,      \* what the environment may do, out of Event
  MaxRestarts  \* bound: how many times the process stops and starts again

(* What may come from outside: a user cancels, a user retries, a client    *)
(* closes its subscription, a storage operation fails, a database call     *)
(* fails.                                                                  *)
Event == {"cancel", "retry", "hangup", "io fault", "db fault"}

Strategies == {"overwrite", "rename", "skip", "none"}

ASSUME MigrationAssumption ==
  /\ None \notin Videos \cup Paths
  /\ Partial \notin Videos \cup {None}
  /\ Home \in [Videos -> Paths]
  /\ \A u, v \in Videos : Home[u] = Home[v] => u = v
  /\ Request \in [Tasks -> [video : Videos, dest : Paths, strategy : Strategies]]
  /\ Variant \in [Paths -> Paths]
  /\ Buckets \subseteq Paths
  /\ Events \subseteq Event
  /\ MaxRestarts \in Nat

VARIABLES
  doc,       \* MigrationTaskModel documents
  file,      \* what lies at each path
  rec,       \* the path in each video's record; None: no record
  wk,        \* each worker's run of the state machine
  flags,     \* _cancel_requested
  client,    \* what each request is about to do
  booting,   \* the lifespan is in init_task_runner: no request is served
  orphans,   \* documents plan_recovery has found and not yet handled
  plan,      \* what plan_recovery has put together so far
  restarts   \* how many restarts there have been

dataVars == <<doc, file, rec>>
bootVars == <<booting, orphans, plan>>
vars == <<jobVars, dataVars, wk, flags, client, bootVars, restarts>>

NoDoc == [status |-> "NONE", failed |-> "NONE",
          src |-> None, tgt |-> None, overwrite |-> FALSE]
Content == Videos \cup {Partial, None}

(* A worker's coroutine: the call it waits for, its own copy of the task's *)
(* status, the bytes it has read, the record it has found, and the one it  *)
(* has found in its way.                                                   *)
IdleRun == [pc |-> "idle", status |-> "NONE", data |-> None, video |-> None,
            conflict |-> None]
IdleClient == [op |-> "idle", task |-> None, start |-> "PROCESSING",
               src |-> None, tgt |-> None]

MigrationInit ==
  /\ JobInit
  /\ doc = [t \in Tasks |-> NoDoc]
  /\ file = [p \in Paths |->
               IF \E v \in Videos : Home[v] = p
               THEN CHOOSE v \in Videos : Home[v] = p ELSE None]
  /\ rec = Home
  /\ wk = [w \in Workers |-> IdleRun]
  /\ flags = {}
  /\ client = [c \in Clients |-> IdleClient]
  /\ booting = FALSE /\ orphans = {} /\ plan = <<>>
  /\ restarts = 0

IsLive(t) == doc[t].status \in Active
RecordsAt(p) == {v \in Videos : rec[v] = p}

(* The paths locked_paths() reports as held by unfinished tasks. *)
LockedPaths ==
  UNION {{doc[t].src, doc[t].tgt} : t \in {u \in Tasks : IsLive(u)}}

(* The two partial unique indexes of MigrationTaskModel: a write that puts *)
(* document t in status s with these paths raises DuplicateKeyError.       *)
Clashes(t, s, src, tgt) ==
  /\ s \in Active
  /\ \E u \in Tasks \ {t} : IsLive(u) /\ (doc[u].src = src \/ doc[u].tgt = tgt)
Duplicate(t, s) == Clashes(t, s, doc[t].src, doc[t].tgt)

Persist(t, s) == doc' = [doc EXCEPT ![t].status = s, ![t].failed = "NONE"]

(* Bug: the cleanup of a broken copy takes the wrong end of it. *)
AfterCleanup_Source(t) == {[file EXCEPT ![doc[t].src] = None]}

(* _cleanup_target: best effort, a failure leaves the file where it is.    *)
AfterCleanup(t) ==
  {[file EXCEPT ![doc[t].tgt] = None]}
    \cup {f \in {file} : "io fault" \in Events}

-----------------------------------------------------------------------------
(* GraphQL requests.  None is served while the lifespan is booting. *)

Idle(c) == ~booting /\ client[c].op = "idle"
Leave(c) == client' = [client EXCEPT ![c] = IdleClient]

(* Request c waits, on behalf of task t, for the call named op. *)
Await(c, op, t, start) ==
  client' = [client EXCEPT ![c].op = op, ![c].task = t, ![c].start = start]

(* create_task for request r: the final target path, once the conflict     *)
(* strategy is applied.  None of them when the strategy refuses.           *)
TargetFor(r) ==
  IF file[r.dest] = None THEN {r.dest}
  ELSE CASE r.strategy = "overwrite" -> {r.dest}
         [] r.strategy = "rename" -> {p \in {Variant[r.dest]} : file[p] = None}
         [] OTHER -> {}

(* resolve_create_migration_task up to the insert: the source path comes   *)
(* from the video's record, the file has to exist, the target is chosen.   *)
CreateTask(c, t) ==
  LET r == Request[t]
      src == rec[r.video] IN
  /\ Idle(c)
  /\ doc[t] = NoDoc /\ \A k \in Clients : client[k].task # t
  /\ src # None /\ file[src] # None
  /\ \E tgt \in TargetFor(r) :
       client' = [client EXCEPT ![c] =
         [op |-> "insert", task |-> t, start |-> "PROCESSING", src |-> src, tgt |-> tgt]]
  /\ UNCHANGED <<jobVars, dataVars, wk, flags, bootVars, restarts>>

(* create_task: the insert takes effect. *)
InsertTask(c) ==
  LET t == client[c].task IN
  /\ client[c].op = "insert"
  /\ ~Clashes(t, "PENDING", client[c].src, client[c].tgt)
  /\ doc' = [doc EXCEPT ![t] =
       [status |-> "PENDING", failed |-> "NONE", src |-> client[c].src,
        tgt |-> client[c].tgt, overwrite |-> Request[t].strategy = "overwrite"]]
  /\ client' = [client EXCEPT ![c] = [IdleClient EXCEPT !.op = "submit", !.task = t]]
  /\ UNCHANGED <<jobVars, file, rec, wk, flags, bootVars, restarts>>

(* resolve_create_migration_task, resolve_migration_retry: runner.submit. *)
SubmitTask(c) ==
  /\ client[c].op \in {"submit", "resubmit"}
  /\ Submit(client[c].task, client[c].start)
  /\ Leave(c)
  /\ UNCHANGED <<dataVars, wk, flags, bootVars, restarts>>

(* cancel_task: the document is read, and decides what is done. *)
CancelTask(c, t) ==
  /\ Idle(c)
  /\ "cancel" \in Events
  /\ doc[t].status \in {"PENDING", "PROCESSING"}
  /\ Await(c, IF doc[t].status = "PENDING" THEN "settle" ELSE "flag",
           t, "PROCESSING")
  /\ UNCHANGED <<jobVars, dataVars, wk, flags, bootVars, restarts>>

(* cancel_task of a task read as PENDING: the copy read earlier is saved   *)
(* as CANCELLED, over whatever the document has become.                    *)
SettleCancel(c) ==
  /\ client[c].op = "settle"
  /\ Persist(client[c].task, "CANCELLED")
  /\ client' = [client EXCEPT ![c].op = "flag"]
  /\ UNCHANGED <<jobVars, file, rec, wk, flags, bootVars, restarts>>

(* request_cancel *)
RequestCancel(c) ==
  /\ client[c].op = "flag"
  /\ flags' = flags \cup {client[c].task}
  /\ Leave(c)
  /\ UNCHANGED <<jobVars, dataVars, wk, bootVars, restarts>>

(* Bug: whatever has settled may be retried. *)
PrepareRetry_AnySettled(c, t) ==
  /\ Idle(c)
  /\ "retry" \in Events
  /\ doc[t].status \in TERMINAL
  /\ Await(c, "reset", t, "PROCESSING")
  /\ UNCHANGED <<jobVars, dataVars, wk, flags, bootVars, restarts>>

(* prepare_retry up to the save: a FAILED task, its resume point, and the  *)
(* rewind, which removes the target file when the copy is to run again.    *)
PrepareRetry(c, t) ==
  /\ Idle(c)
  /\ "retry" \in Events
  /\ doc[t].status = "FAILED"
  /\ LET start == RESUME_POINT[doc[t].failed] IN
       /\ file' \in IF start = "PROCESSING" THEN AfterCleanup(t) ELSE {file}
       /\ Await(c, "reset", t, start)
  /\ UNCHANGED <<jobVars, doc, rec, wk, flags, bootVars, restarts>>

(* prepare_retry: the save that puts the task back to PENDING. *)
ResetTask(c) ==
  /\ client[c].op = "reset"
  /\ ~Duplicate(client[c].task, "PENDING")
  /\ Persist(client[c].task, "PENDING")
  /\ client' = [client EXCEPT ![c].op = "resubmit"]
  /\ UNCHANGED <<jobVars, file, rec, wk, flags, bootVars, restarts>>

(* A request's write is refused by an index, or fails: the request ends.   *)
WriteRefused(c) ==
  /\ \/ client[c].op = "reset" /\ Duplicate(client[c].task, "PENDING")
     \/ client[c].op = "insert"
          /\ Clashes(client[c].task, "PENDING", client[c].src, client[c].tgt)
     \/ client[c].op \in {"insert", "reset", "settle"} /\ "db fault" \in Events
  /\ Leave(c)
  /\ UNCHANGED <<jobVars, dataVars, wk, flags, bootVars, restarts>>

(* A retry runs inside a subscription: when its client goes away the       *)
(* server cancels the operation at the await it has reached.               *)
HangUp(c) ==
  /\ client[c].op \in {"reset", "resubmit"}
  /\ "hangup" \in Events
  /\ Leave(c)
  /\ UNCHANGED <<jobVars, dataVars, wk, flags, bootVars, restarts>>

-----------------------------------------------------------------------------
(* A worker runs a task. *)

TaskOf(w) == job[w].task
At(w, pc) == wk[w].pc = pc
Resume(w, pc) == wk' = [wk EXCEPT ![w].pc = pc]

(* Bug: the exception is logged, and the task left as it is. *)
Raise_Unsaved(w) == Resume(w, "end")

(* An exception reaches _run_state_machine: FAILED is to be saved. *)
Raise(w) == Resume(w, "save failed")

(* _worker, up to run_task's first await. *)
TakeJob(w) ==
  /\ Take(w)
  /\ wk' = [wk EXCEPT ![w].pc = "load"]
  /\ UNCHANGED <<dataVars, flags, client, bootVars, restarts>>

(* _run_state_machine: the first phase to run, and the save it opens with. *)
EntryPoint(start) ==
  IF ShouldRunPhase(start, "PROCESSING") THEN "save processing"
  ELSE IF ShouldRunPhase(start, "UPDATING_DB") THEN "save updating"
  ELSE "save deleting"

(* run_task: the document is loaded.  A settled task is skipped, a task    *)
(* cancelled while it was queued is settled, any other is run.             *)
SkipSettled(w) ==
  /\ At(w, "load")
  /\ doc[TaskOf(w)].status \in TERMINAL
  /\ flags' = flags \ {TaskOf(w)}
  /\ Resume(w, "skipped")
  /\ UNCHANGED <<jobVars, dataVars, client, bootVars, restarts>>

DropQueued(w) ==
  /\ At(w, "load")
  /\ IsLive(TaskOf(w))
  /\ TaskOf(w) \in flags
  /\ flags' = flags \ {TaskOf(w)}
  /\ Resume(w, "save dropped")
  /\ UNCHANGED <<jobVars, dataVars, client, bootVars, restarts>>

StartRun(w) ==
  /\ At(w, "load")
  /\ IsLive(TaskOf(w))
  /\ TaskOf(w) \notin flags
  /\ wk' = [wk EXCEPT ![w].pc = EntryPoint(job[w].start),
                      ![w].status = doc[TaskOf(w)].status]
  /\ UNCHANGED <<jobVars, dataVars, flags, client, bootVars, restarts>>

(* _update_task_status of a run: the status is set in memory, the whole    *)
(* document is saved, the run goes on at pc next.                          *)
SaveStatus(w, pc, s, next) ==
  /\ At(w, pc)
  /\ ~Duplicate(TaskOf(w), s)
  /\ Persist(TaskOf(w), s)
  /\ wk' = [wk EXCEPT ![w].pc = next, ![w].status = s]
  /\ UNCHANGED <<jobVars, file, rec, flags, client, bootVars, restarts>>

SaveProcessing(w) == SaveStatus(w, "save processing", "PROCESSING", "open")
SaveProcessDone(w) ==
  SaveStatus(w, "copied", "PROCESS_DONE", "save updating")
SaveUpdating(w) == SaveStatus(w, "save updating", "UPDATING_DB", "find")
SaveDbUpdated(w) ==
  SaveStatus(w, "save db updated", "DB_UPDATED", "save deleting")
(* Bug: the task is reported done before the source is deleted. *)
SaveDeleting_Completed(w) ==
  SaveStatus(w, "save deleting", "COMPLETED", "delete source")
SaveDeleting(w) ==
  SaveStatus(w, "save deleting", "DELETING_SOURCE", "delete source")
SaveCompleted(w) == SaveStatus(w, "save completed", "COMPLETED", "end")
SaveDropped(w) == SaveStatus(w, "save dropped", "CANCELLED", "skipped")
SaveCancelled(w) == SaveStatus(w, "save cancelled", "CANCELLED", "end")

(* The status each of those saves had already put in the task in memory.   *)
SavedStatus ==
  [pc \in {"save processing", "copied", "save updating",
           "save db updated", "save deleting", "save completed",
           "save cancelled"} |->
     CASE pc = "save processing"   -> "PROCESSING"
       [] pc = "copied" -> "PROCESS_DONE"
       [] pc = "save updating"     -> "UPDATING_DB"
       [] pc = "save db updated"   -> "DB_UPDATED"
       [] pc = "save deleting"     -> "DELETING_SOURCE"
       [] pc = "save completed"    -> "COMPLETED"
       [] OTHER                    -> "CANCELLED"]

(* One of those saves raises: an index refuses it or the database fails.   *)
SaveRaises(w) ==
  /\ wk[w].pc \in DOMAIN SavedStatus
  /\ \/ Duplicate(TaskOf(w), SavedStatus[wk[w].pc])
     \/ "db fault" \in Events
  /\ wk' = [wk EXCEPT ![w].pc = "save failed",
                      ![w].status = SavedStatus[wk[w].pc]]
  /\ UNCHANGED <<jobVars, dataVars, flags, client, bootVars, restarts>>

(* _run_state_machine's except clause: FAILED, and the phase that broke. *)
SaveFailed(w) ==
  /\ At(w, "save failed")
  /\ doc' = [doc EXCEPT ![TaskOf(w)].status = "FAILED",
                        ![TaskOf(w)].failed = FailedStep(wk[w].status)]
  /\ Resume(w, "end")
  /\ UNCHANGED <<jobVars, file, rec, flags, client, bootVars, restarts>>

(* A call outside the try raises: the worker logs it and goes on. *)
RunCrashes(w) ==
  /\ wk[w].pc \in {"load", "save failed", "save dropped"}
  /\ "db fault" \in Events
  /\ Resume(w, IF At(w, "save failed") THEN "end" ELSE "skipped")
  /\ UNCHANGED <<jobVars, dataVars, flags, client, bootVars, restarts>>

(* The last reply arrives: _worker's finally clause, and run_task's for a  *)
(* run that got past its checks.                                           *)
EndRun(w) ==
  /\ wk[w].pc \in {"end", "skipped"}
  /\ flags' = IF At(w, "end") THEN flags \ {TaskOf(w)} ELSE flags
  /\ Finish(w)
  /\ wk' = [wk EXCEPT ![w] = IdleRun]
  /\ UNCHANGED <<dataVars, client, bootVars, restarts>>

-----------------------------------------------------------------------------
(* Phase PROCESSING: the copy, a task of its own that feeds the writer of  *)
(* the target from a reader of the source.                                 *)

Src(w) == doc[TaskOf(w)].src
Tgt(w) == doc[TaskOf(w)].tgt
Copying == {"open", "read", "write"}
InLoop == Copying \cup {"copied"}

(* write_file_streaming opens the target: on a disk it is truncated there  *)
(* and then, in a bucket nothing shows before the upload is complete.      *)
CopyOpen(w) ==
  /\ At(w, "open")
  /\ file' = IF Tgt(w) \in Buckets THEN file
             ELSE [file EXCEPT ![Tgt(w)] = Partial]
  /\ Resume(w, "read")
  /\ UNCHANGED <<jobVars, doc, rec, flags, client, bootVars, restarts>>

(* counting_reader delivers the last chunk: no cancel flag was seen.       *)
CopyRead(w) ==
  /\ At(w, "read")
  /\ TaskOf(w) \notin flags
  /\ file[Src(w)] # None
  /\ wk' = [wk EXCEPT ![w].pc = "write", ![w].data = file[Src(w)]]
  /\ UNCHANGED <<jobVars, dataVars, flags, client, bootVars, restarts>>

(* The writer returns.  Bytes read while somebody else was writing the     *)
(* source are no whole video.                                              *)
CopyWrite(w) ==
  /\ At(w, "write")
  /\ \E bytes \in {wk[w].data}
                 \cup {x \in {Partial} : file[Src(w)] \notin {None, wk[w].data}} :
       file' = [file EXCEPT ![Tgt(w)] = bytes]
  /\ Resume(w, "copied")
  /\ UNCHANGED <<jobVars, doc, rec, flags, client, bootVars, restarts>>

(* counting_reader sees the flag: the target is removed. *)
CopyCancelled(w) ==
  /\ At(w, "read")
  /\ TaskOf(w) \in flags
  /\ file[Src(w)] # None
  /\ file' \in AfterCleanup(TaskOf(w))
  /\ Resume(w, "save cancelled")
  /\ UNCHANGED <<jobVars, doc, rec, flags, client, bootVars, restarts>>

(* Bug: the failure is logged and forgotten. *)
CopyFails_Swallowed(w) ==
  /\ \/ At(w, "read") /\ file[Src(w)] = None
     \/ wk[w].pc \in Copying /\ "io fault" \in Events
  /\ file' \in AfterCleanup(TaskOf(w))
  /\ Resume(w, "copied")
  /\ UNCHANGED <<jobVars, doc, rec, flags, client, bootVars, restarts>>

(* The source is gone, or storage fails: the target is removed as well. *)
CopyFails(w) ==
  /\ \/ At(w, "read") /\ file[Src(w)] = None
     \/ wk[w].pc \in Copying /\ "io fault" \in Events
  /\ file' \in AfterCleanup(TaskOf(w))
  /\ Raise(w)
  /\ UNCHANGED <<jobVars, doc, rec, flags, client, bootVars, restarts>>

(* _maybe_flush_progress saves the run's own copy of the document. *)
FlushProgress(w) ==
  /\ wk[w].pc \in InLoop
  /\ ~Duplicate(TaskOf(w), "PROCESSING")
  /\ Persist(TaskOf(w), "PROCESSING")
  /\ UNCHANGED <<jobVars, file, rec, wk, flags, client, bootVars, restarts>>

(* That save raises: the copy is cancelled, its target stays behind. *)
FlushRaises(w) ==
  /\ wk[w].pc \in InLoop
  /\ Duplicate(TaskOf(w), "PROCESSING") \/ "db fault" \in Events
  /\ Raise(w)
  /\ UNCHANGED <<jobVars, dataVars, flags, client, bootVars, restarts>>

-----------------------------------------------------------------------------
(* Phase UPDATING_DB: the video's record is pointed at the target.         *)

(* find_one at the source path. *)
FindRecord(w) ==
  /\ At(w, "find")
  /\ RecordsAt(Src(w)) # {}
  /\ \E v \in RecordsAt(Src(w)) :
       wk' = [wk EXCEPT ![w].pc = IF doc[TaskOf(w)].overwrite
                                  THEN "find conflict" ELSE "repoint",
                        ![w].video = v]
  /\ UNCHANGED <<jobVars, dataVars, flags, client, bootVars, restarts>>

FindMissing(w) ==
  /\ At(w, "find")
  /\ RecordsAt(Src(w)) = {}
  /\ Resume(w, "find moved")
  /\ UNCHANGED <<jobVars, dataVars, flags, client, bootVars, restarts>>

(* No record at the source: one at the target means the work is done.      *)
FindMoved(w) ==
  /\ At(w, "find moved")
  /\ IF RecordsAt(Tgt(w)) # {} THEN Resume(w, "save db updated") ELSE Raise(w)
  /\ UNCHANGED <<jobVars, dataVars, flags, client, bootVars, restarts>>

(* overwrite: the record that holds the target path is looked for ... *)
FindConflict(w) ==
  /\ At(w, "find conflict")
  /\ LET others == RecordsAt(Tgt(w)) \ {wk[w].video} IN
       \/ others = {} /\ Resume(w, "repoint")
       \/ \E v \in others :
            wk' = [wk EXCEPT ![w].pc = "delete conflict", ![w].conflict = v]
  /\ UNCHANGED <<jobVars, dataVars, flags, client, bootVars, restarts>>

(* ... and deleted by its id, wherever it is by then.  Leaving its series  *)
(* touches neither paths nor files.                                        *)
DeleteConflict(w) ==
  /\ At(w, "delete conflict")
  /\ rec' = [rec EXCEPT ![wk[w].conflict] = None]
  /\ Resume(w, "repoint")
  /\ UNCHANGED <<jobVars, doc, file, flags, client, bootVars, restarts>>

(* video.save(): the path of a record is unique. *)
Repoint(w) ==
  /\ At(w, "repoint")
  /\ RecordsAt(Tgt(w)) \subseteq {wk[w].video}
  /\ rec' = [rec EXCEPT ![wk[w].video] = Tgt(w)]
  /\ Resume(w, "save db updated")
  /\ UNCHANGED <<jobVars, doc, file, flags, client, bootVars, restarts>>

(* A call of this phase raises. *)
UpdateRaises(w) ==
  /\ \/ At(w, "repoint") /\ ~(RecordsAt(Tgt(w)) \subseteq {wk[w].video})
     \/ /\ wk[w].pc \in {"find", "find moved", "find conflict",
                          "delete conflict", "repoint"}
        /\ "db fault" \in Events
  /\ Raise(w)
  /\ UNCHANGED <<jobVars, dataVars, flags, client, bootVars, restarts>>

-----------------------------------------------------------------------------
(* Phase DELETING_SOURCE: the original goes.  A failure is a warning.      *)

DeleteSource(w) ==
  /\ At(w, "delete source")
  /\ file' \in {[file EXCEPT ![Src(w)] = None]}
               \cup {f \in {file} : "io fault" \in Events}
  /\ Resume(w, "save completed")
  /\ UNCHANGED <<jobVars, doc, rec, flags, client, bootVars, restarts>>

-----------------------------------------------------------------------------
(* The process stops, by shutdown() or otherwise, and the next one boots.  *)
(* A cancelled run leaves documents and files as they are.                 *)
Restart ==
  /\ restarts < MaxRestarts
  /\ restarts' = restarts + 1
  /\ Forget
  /\ wk' = [w \in Workers |-> IdleRun]
  /\ flags' = {}
  /\ client' = [c \in Clients |-> IdleClient]
  /\ booting' = TRUE
  /\ orphans' = {t \in Tasks : IsLive(t)}
  /\ plan' = <<>>
  /\ UNCHANGED dataVars

(* Bug: the target is removed whichever phase the task resumes at. *)
PlanOrphan_AlwaysCleans(t) ==
  /\ booting
  /\ t \in orphans
  /\ file' \in AfterCleanup(t)
  /\ Persist(t, "PENDING")
  /\ orphans' = orphans \ {t}
  /\ plan' = Append(plan, JobOf(t, RESUME_POINT[doc[t].status]))
  /\ UNCHANGED <<jobVars, rec, wk, flags, client, booting, restarts>>

(* plan_recovery, one orphan: rewind it, put it back to PENDING, plan it.  *)
PlanOrphan(t) ==
  LET start == RESUME_POINT[doc[t].status] IN
  /\ booting
  /\ t \in orphans
  /\ file' \in IF start = "PROCESSING" THEN AfterCleanup(t) ELSE {file}
  /\ Persist(t, "PENDING")
  /\ orphans' = orphans \ {t}
  /\ plan' = Append(plan, JobOf(t, start))
  /\ UNCHANGED <<jobVars, rec, wk, flags, client, booting, restarts>>

(* Bug: recovery stops after the first task of the plan. *)
RecoverPlan_First ==
  /\ booting
  /\ orphans = {}
  /\ SubmitPlan(IF plan = <<>> THEN plan ELSE <<Head(plan)>>)
  /\ booting' = FALSE
  /\ plan' = <<>>
  /\ UNCHANGED <<dataVars, wk, flags, client, orphans, restarts>>

(* Bug: two executors plan the same tasks. *)
RecoverPlan_Twice ==
  /\ booting
  /\ orphans = {}
  /\ SubmitPlan(plan \o plan)
  /\ booting' = FALSE
  /\ plan' = <<>>
  /\ UNCHANGED <<dataVars, wk, flags, client, orphans, restarts>>

(* recover(): the whole plan is queued, and requests are served.           *)
RecoverPlan ==
  /\ booting
  /\ orphans = {}
  /\ SubmitPlan(plan)
  /\ booting' = FALSE
  /\ plan' = <<>>
  /\ UNCHANGED <<dataVars, wk, flags, client, orphans, restarts>>

(* A save of plan_recovery raises, after the rewind: the plan is dropped,  *)
(* and the application boots without it.                                   *)
RecoveryFails(t) ==
  /\ booting
  /\ t \in orphans
  /\ "db fault" \in Events
  /\ file' \in IF RESUME_POINT[doc[t].status] = "PROCESSING"
               THEN AfterCleanup(t) ELSE {file}
  /\ booting' = FALSE
  /\ orphans' = {}
  /\ plan' = <<>>
  /\ UNCHANGED <<jobVars, doc, rec, wk, flags, client, restarts>>

-----------------------------------------------------------------------------
RequestStep(c) ==
  \/ \E t \in Tasks : CreateTask(c, t) \/ CancelTask(c, t) \/ PrepareRetry(c, t)
  \/ InsertTask(c) \/ SubmitTask(c) \/ SettleCancel(c) \/ RequestCancel(c)
  \/ ResetTask(c) \/ WriteRefused(c) \/ HangUp(c)

RunStep(w) ==
  \/ SkipSettled(w) \/ DropQueued(w) \/ StartRun(w)
  \/ SaveProcessing(w) \/ SaveProcessDone(w) \/ SaveUpdating(w)
  \/ SaveDbUpdated(w) \/ SaveDeleting(w) \/ SaveCompleted(w)
  \/ SaveDropped(w) \/ SaveCancelled(w)
  \/ SaveRaises(w) \/ SaveFailed(w) \/ RunCrashes(w) \/ EndRun(w)

CopyStep(w) ==
  \/ CopyOpen(w) \/ CopyRead(w) \/ CopyWrite(w) \/ CopyCancelled(w)
  \/ CopyFails(w) \/ FlushProgress(w) \/ FlushRaises(w)

UpdateStep(w) ==
  \/ FindRecord(w) \/ FindMissing(w) \/ FindMoved(w)
  \/ FindConflict(w) \/ DeleteConflict(w) \/ Repoint(w) \/ UpdateRaises(w)
  \/ DeleteSource(w)

BootStep ==
  (\E t \in Tasks : PlanOrphan(t) \/ RecoveryFails(t)) \/ RecoverPlan

Next ==
  \/ \E c \in Clients : RequestStep(c)
  \/ \E w \in Workers : TakeJob(w) \/ RunStep(w) \/ CopyStep(w) \/ UpdateStep(w)
  \/ Restart
  \/ BootStep

Spec == MigrationInit /\ [][Next]_vars

-----------------------------------------------------------------------------
Pcs == {"idle", "load", "end", "skipped", "save failed", "save dropped", "open",
        "read", "write", "find", "find moved", "find conflict",
        "delete conflict", "repoint", "delete source"} \cup DOMAIN SavedStatus
Ops == {"idle", "insert", "submit", "settle", "flag", "reset", "resubmit"}

Document ==
  [status : Status \cup {"NONE"}, failed : Active \cup {"NONE"},
   src : Paths \cup {None}, tgt : Paths \cup {None}, overwrite : BOOLEAN]
Run ==
  [pc : Pcs, status : Status \cup {"NONE"}, data : Content,
   video : Videos \cup {None}, conflict : Videos \cup {None}]
Call ==
  [op : Ops, task : Tasks \cup {None}, start : Phase,
   src : Paths \cup {None}, tgt : Paths \cup {None}]

StoreTypeOK ==
  /\ file \in [Paths -> Content]
  /\ rec \in [Videos -> Paths \cup {None}]
BootTypeOK ==
  /\ booting \in BOOLEAN
  /\ orphans \in SUBSET Tasks
  /\ plan \in Seq(Job)
  /\ restarts \in Nat

(* The type invariant of the whole system: every status, pc, path and      *)
(* record the code of migration_service.py and state_machine.py can write. *)
TypeOK ==
  /\ JobTypeOK
  /\ doc \in [Tasks -> Document]
  /\ StoreTypeOK
  /\ wk \in [Workers -> Run]
  /\ flags \in SUBSET Tasks
  /\ client \in [Clients -> Call]
  /\ BootTypeOK

(* A video that some request asks to overwrite gives its bytes up; every   *)
(* other video is to be kept.                                              *)
Replaced ==
  {v \in Videos : \E t \in Tasks : /\ Request[t].strategy = "overwrite"
                                   /\ Request[t].dest = Home[v]
                                   /\ Request[t].video # v}
Kept == Videos \ Replaced

(* No sequence of creates, copies, cleanups, retries and rewinds loses a   *)
(* video: while it has a record its whole bytes are at some path.          *)
BytesKept ==
  \A v \in Kept : rec[v] # None => \E p \in Paths : file[p] = v

(* What the catalogue and the player rely on: a record whose path no       *)
(* unfinished task holds points at the bytes of its own video.             *)
RecordPlayable ==
  \A v \in Kept :
    rec[v] # None /\ rec[v] \notin LockedPaths => file[rec[v]] = v

(* A task reported COMPLETED has done both halves of its work: the record  *)
(* is at the target, and so are the bytes (_execute_fs_cleanup).           *)
CompletedMeansMoved ==
  [][\A t \in Tasks :
       doc[t].status # "COMPLETED" /\ doc'[t].status = "COMPLETED"
         => /\ rec[Request[t].video] = doc[t].tgt
            /\ file[doc[t].tgt] = Request[t].video]_vars

Moved(t) == IsLive(t) /\ rec[Request[t].video] = doc[t].tgt

(* Past the database update there is no way back: a job of a task whose    *)
(* record has moved never starts with the copy, which would first remove   *)
(* the target the record points at (plan_recovery).                        *)
NeverRecopied ==
  \A t \in Tasks : Moved(t) =>
    /\ \A i \in DOMAIN queue : queue[i].task = t => queue[i].start # "PROCESSING"
    /\ \A w \in Workers : TaskOf(w) = t /\ wk[w].pc \in {"load", "save processing"}
                            => job[w].start # "PROCESSING"

(* A run that touches files or records does so under the locks of its own  *)
(* task: the document stays unfinished until the last save.                *)
WorksUnderLock ==
  \A w \in Workers :
    wk[w].pc \notin {"idle", "load", "save dropped", "skipped", "end"}
      => IsLive(TaskOf(w))

(* A settled task stays settled; only a FAILED one may be put back, by a   *)
(* retry (cancel_task, prepare_retry, run_task).                           *)
SettledIsFinal ==
  [][\A t \in Tasks :
       doc[t].status \in {"COMPLETED", "CANCELLED"}
         => doc'[t].status = doc[t].status]_vars

(* No task writes over a file that another unfinished task is moving away: *)
(* locked paths are refused to every other mutation (is_file_locked).      *)
LockedIsRefused ==
  \A t, u \in Tasks : t # u /\ IsLive(t) /\ IsLive(u) => doc[t].tgt # doc[u].src

(* A task that is not settled is somebody's business: a request still at   *)
(* work on it, the recovery, or the runner.  Nothing else ever starts it.  *)
NobodyStranded ==
  \A t \in Tasks :
    IsLive(t) /\ ~booting /\ (\A c \in Clients : client[c].task # t)
      => IsActive(t)

(* Every step of the whole system is a step of the placement of the kept   *)
(* videos, or none.                                                        *)
P == INSTANCE Placement WITH
       Videos <- Kept,
       at <- [v \in Kept |-> rec[v]],
       copies <- [v \in Kept |-> {p \in Paths : file[p] = v}]
KeepsPlacement == P!Spec

(* What a worker does of its own accord: its next step, never a flush.     *)
WorkerProgress(w) ==
  \/ TakeJob(w) \/ RunStep(w) \/ UpdateStep(w)
  \/ CopyOpen(w) \/ CopyRead(w) \/ CopyWrite(w) \/ CopyCancelled(w) \/ CopyFails(w)

(* A request once begun goes on to its end. *)
RequestProgress(c) ==
  \/ InsertTask(c) \/ SubmitTask(c) \/ SettleCancel(c) \/ RequestCancel(c)
  \/ ResetTask(c) \/ WriteRefused(c)

FairSpec ==
  /\ Spec
  /\ \A w \in Workers : WF_vars(WorkerProgress(w))
  /\ \A c \in Clients : WF_vars(RequestProgress(c))
  /\ WF_vars(BootStep)

(* Every task that was created ends: completed, cancelled or failed.       *)
EveryTaskSettles ==
  \A t \in Tasks : IsLive(t) ~> doc[t].status \in TERMINAL
=============================================================================
