---------------------------- MODULE TaskLifecycle ----------------------------
(***************************************************************************)
(* The statuses a background task is persisted in, the three phases it     *)
(* runs, and the table that says at which phase a task interrupted in a    *)
(* given status starts again (platform/jobs/task_model.py and              *)
(* platform/jobs/state_machine.py).  No state: the modules that run tasks  *)
(* build on these definitions.                                             *)
(***************************************************************************)
EXTENDS Naturals

(* The phases, in the order the template runs them. *)
Phase == {"PROCESSING", "UPDATING_DB", "DELETING_SOURCE"}
PHASE_ORDER ==
  [PROCESSING |-> 0, UPDATING_DB |-> 1, DELETING_SOURCE |-> 2]

TERMINAL == {"COMPLETED", "FAILED", "CANCELLED"}
Active == Phase \cup {"PENDING", "PROCESS_DONE", "DB_UPDATED"}
Status == Active \cup TERMINAL

(* Bug: a task that died in the database update starts over. *)
RESUME_POINT_StartOver ==
  [s \in Active |->
     IF s \in {"DB_UPDATED", "DELETING_SOURCE"} THEN "DELETING_SOURCE"
     ELSE "PROCESSING"]

(* Where a task that died in a non-terminal status resumes. *)
RESUME_POINT ==
  [s \in Active |->
     CASE s \in {"PENDING", "PROCESSING"}        -> "PROCESSING"
       [] s \in {"PROCESS_DONE", "UPDATING_DB"}  -> "UPDATING_DB"
       [] s \in {"DB_UPDATED", "DELETING_SOURCE"} -> "DELETING_SOURCE"]

(* Bug: the phase the run resumes at is skipped with those before it. *)
ShouldRunPhase_After(start, p) == PHASE_ORDER[p] > PHASE_ORDER[start]

(* Does a run that starts at phase start execute phase p? *)
ShouldRunPhase(start, p) == PHASE_ORDER[p] >= PHASE_ORDER[start]

(* Bug: whatever the status in memory is. *)
FailedStep_Any(s) == s

(* The phase recorded as failed_step by the run of a task whose in-memory  *)
(* status is s when an exception reaches the template.                     *)
FailedStep(s) == IF s \in TERMINAL THEN "PROCESSING" ELSE s
=============================================================================
