------------------------------ MODULE JobQueue ------------------------------
(***************************************************************************)
(* The scheduling half of TaskRunner (platform/jobs/task_runner.py): one   *)
(* FIFO queue of jobs, a fixed pool of workers, and the two sets of task   *)
(* ids that tell a submitter whether a task is already under the runner's  *)
(* care.  What a worker does with its job is left to the modules that      *)
(* extend this one: here a job is taken and, later, finished.              *)
(*                                                                         *)
(* The program is one asyncio process: the code between two awaits is one  *)
(* step.  The queue is unbounded, so put() never suspends.                 *)
(***************************************************************************)
EXTENDS TaskLifecycle, Sequences

CONSTANTS
  Tasks,    \* task ids
  Workers,  \* the worker coroutines, max_concurrent of them
  None      \* "no value": Python's None

ASSUME NoneAssumption == None \notin Tasks

VARIABLES
  queue,    \* _job_queue: jobs waiting for a worker
  waiting,  \* _waiting_task_ids
  running,  \* _running_task_ids
  job       \* the _QueuedJob each worker is executing

jobVars == <<queue, waiting, running, job>>

Job == [task : Tasks, start : Phase]
NoJob == [task |-> None, start |-> "PROCESSING"]
JobOf(t, s) == [task |-> t, start |-> s]

TasksIn(jobs) == {jobs[i].task : i \in DOMAIN jobs}
Holders(t) == {w \in Workers : job[w].task = t}
IsActive(t) == t \in waiting \cup running

JobInit ==
  /\ queue = <<>>
  /\ waiting = {}
  /\ running = {}
  /\ job = [w \in Workers |-> NoJob]

(* Bug: a task already queued or running is queued again. *)
Submit_Again(t, s) ==
  /\ waiting' = waiting \cup {t}
  /\ queue' = Append(queue, JobOf(t, s))
  /\ UNCHANGED <<running, job>>

(* submit(): a task that is queued or running is left alone. *)
Submit(t, s) ==
  /\ IF IsActive(t)
     THEN UNCHANGED <<queue, waiting>>
     ELSE /\ waiting' = waiting \cup {t}
          /\ queue' = Append(queue, JobOf(t, s))
  /\ UNCHANGED <<running, job>>

(* recover(): submits one executor's whole plan.  It is awaited before the *)
(* first request is served, on a runner that is still empty, and no await  *)
(* in it suspends, so the plan enters the queue in one step.               *)
SubmitPlan(plan) ==
  /\ queue' = queue \o plan
  /\ waiting' = waiting \cup TasksIn(plan)
  /\ UNCHANGED <<running, job>>

(* _worker: get() returns a job, which moves from waiting to running. *)
Take(w) ==
  /\ job[w].task = None
  /\ queue # <<>>
  /\ job' = [job EXCEPT ![w] = Head(queue)]
  /\ queue' = Tail(queue)
  /\ waiting' = waiting \ {Head(queue).task}
  /\ running' = running \cup {Head(queue).task}

(* _worker: the finally clause, whether the run returned or raised. *)
Finish(w) ==
  /\ job[w].task # None
  /\ running' = running \ {job[w].task}
  /\ job' = [job EXCEPT ![w] = NoJob]
  /\ UNCHANGED <<queue, waiting>>

(* shutdown(): every worker is cancelled, its finally clause runs; what is *)
(* queued stays queued.                                                    *)
Stop ==
  /\ running' = {}
  /\ job' = [w \in Workers |-> NoJob]
  /\ UNCHANGED <<queue, waiting>>

(* The process stops, with or without a shutdown(): queue, sets and        *)
(* workers are memory, and the next process starts with none of them.      *)
Forget ==
  /\ queue' = <<>>
  /\ waiting' = {}
  /\ running' = {}
  /\ job' = [w \in Workers |-> NoJob]

(* A plan names each task once: plan_recovery walks the documents of one   *)
(* find().                                                                 *)
IsPlan(p) ==
  /\ p \in Seq(Job)
  /\ \A i, j \in DOMAIN p : p[i].task = p[j].task => i = j

(* The scheduler on its own, whatever its jobs do.  The last disjunct is   *)
(* SubmitPlan for whatever plan the step enqueues.                         *)
JobNext ==
  \/ \E t \in Tasks, s \in Phase : Submit(t, s)
  \/ \E w \in Workers : Take(w) \/ Finish(w)
  \/ Stop \/ Forget
  \/ /\ waiting \cup running = {}
     /\ IsPlan(queue')
     /\ SubmitPlan(queue')

JobSpec == JobInit /\ [][JobNext]_jobVars

-----------------------------------------------------------------------------
JobTypeOK ==
  /\ queue \in Seq(Job)
  /\ waiting \in SUBSET Tasks
  /\ running \in SUBSET Tasks
  /\ job \in [Workers -> [task : Tasks \cup {None}, start : Phase]]

(* The two id sets describe the queue and the pool exactly, and a task has *)
(* one place at most: it is queued once, or one worker runs it, never both.*)
(* This is what submit()'s docstring promises of a retry and a crash       *)
(* recovery that both want the same task started.                          *)
ExclusiveRun ==
  /\ waiting = TasksIn(queue)
  /\ running = {job[w].task : w \in Workers} \ {None}
  /\ waiting \cap running = {}
  /\ \A i, j \in DOMAIN queue : queue[i].task = queue[j].task => i = j
  /\ \A v, w \in Workers :
       job[v].task = job[w].task /\ job[v].task # None => v = w
=============================================================================
