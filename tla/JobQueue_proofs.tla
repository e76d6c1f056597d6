-------------------------- MODULE JobQueue_proofs --------------------------
(***************************************************************************)
(* The scheduler of JobQueue keeps its type and its two id sets, for any   *)
(* number of tasks and workers and whatever the jobs do.                   *)
(***************************************************************************)
EXTENDS JobQueue, TLAPS

JobInv == JobTypeOK /\ ExclusiveRun

(* What enters and leaves the queue enters and leaves TasksIn. *)
LEMMA TasksInAppend ==
  ASSUME NEW q \in Seq(Job), NEW e \in Job
  PROVE  /\ Append(q, e) \in Seq(Job)
         /\ TasksIn(Append(q, e)) = TasksIn(q) \cup {e.task}
<1> DEFINE r == Append(q, e)
<1>1. /\ r \in Seq(Job) /\ Len(q) + 1 \in DOMAIN r /\ r[Len(q) + 1] = e
      /\ \A i \in DOMAIN q : i \in DOMAIN r /\ r[i] = q[i]
      /\ \A i \in DOMAIN r : i \in DOMAIN q \/ i = Len(q) + 1
  OBVIOUS
<1> HIDE DEF r
<1>2. TasksIn(r) = TasksIn(q) \cup {e.task}
  BY <1>1 DEF TasksIn
<1> QED BY <1>1, <1>2 DEF r

LEMMA TasksInTasks ==
  ASSUME NEW q \in Seq(Job)
  PROVE  TasksIn(q) \subseteq Tasks
<1>1. \A i \in DOMAIN q : q[i] \in Job
  OBVIOUS
<1> QED BY <1>1 DEF TasksIn, Job

LEMMA TasksInTail ==
  ASSUME NEW q \in Seq(Job), q # <<>>
  PROVE  /\ Head(q) \in Job /\ Tail(q) \in Seq(Job)
         /\ TasksIn(q) = TasksIn(Tail(q)) \cup {Head(q).task}
<1>1. Head(q) \in Job /\ Tail(q) \in Seq(Job)
  OBVIOUS
<1>2. TasksIn(Tail(q)) \cup {Head(q).task} \subseteq TasksIn(q)
  BY DEF TasksIn
<1>3. ASSUME NEW i \in DOMAIN q
      PROVE  q[i].task \in TasksIn(Tail(q)) \cup {Head(q).task}
  <2>1. CASE i = 1
    BY <2>1
  <2>2. CASE i # 1
    <3>1. i - 1 \in DOMAIN Tail(q) /\ Tail(q)[i - 1] = q[i]
      BY <2>2
    <3> QED BY <3>1 DEF TasksIn
  <2> QED BY <2>1, <2>2
<1> QED BY <1>1, <1>2, <1>3 DEF TasksIn

(* A task that is queued once is gone from the queue once it is taken. *)
LEMMA HeadLeaves ==
  ASSUME NEW q \in Seq(Job), q # <<>>,
         \A i, j \in DOMAIN q : q[i].task = q[j].task => i = j
  PROVE  /\ Head(q).task \notin TasksIn(Tail(q))
         /\ \A i, j \in DOMAIN Tail(q) :
              Tail(q)[i].task = Tail(q)[j].task => i = j
<1>1. \A i \in DOMAIN Tail(q) :
        i + 1 \in DOMAIN q /\ Tail(q)[i] = q[i + 1] /\ i + 1 # 1
  OBVIOUS
<1>2. Head(q) = q[1] /\ 1 \in DOMAIN q
  OBVIOUS
<1>3. Head(q).task \notin TasksIn(Tail(q))
  BY <1>1, <1>2 DEF TasksIn
<1>4. ASSUME NEW i \in DOMAIN Tail(q), NEW j \in DOMAIN Tail(q),
             Tail(q)[i].task = Tail(q)[j].task
      PROVE  i = j
  <2>1. i + 1 = j + 1
    BY <1>1, <1>4
  <2>2. i \in Nat /\ j \in Nat
    OBVIOUS
  <2> QED BY <2>1, <2>2
<1> QED BY <1>3, <1>4

(* The scheduler starts in a state of the invariant. *)
LEMMA JobInitInv == JobInit => JobInv
<1> SUFFICES ASSUME JobInit PROVE JobInv
  OBVIOUS
<1>1. NoJob \in [task : Tasks \cup {None}, start : Phase]
  BY DEF NoJob, Phase
<1>2. JobTypeOK
  BY <1>1 DEF JobInit, JobTypeOK
<1>3. ExclusiveRun
  BY DEF JobInit, ExclusiveRun, TasksIn, NoJob
<1> QED BY <1>2, <1>3 DEF JobInv

(* submit() keeps it: a task under the runner's care is not queued again.  *)
LEMMA SubmitInv ==
  ASSUME JobInv, NEW t \in Tasks, NEW s \in Phase, Submit(t, s)
  PROVE  JobInv'
<1>1. CASE IsActive(t)
  BY <1>1 DEF Submit, JobInv, JobTypeOK, ExclusiveRun, TasksIn
<1>2. CASE ~IsActive(t)
  <2> DEFINE e == JobOf(t, s)
  <2>1. e \in Job /\ e.task = t
    BY DEF Job, JobOf
  <2>2. /\ queue' = Append(queue, e) /\ waiting' = waiting \cup {t}
        /\ running' = running /\ job' = job
    BY <1>2 DEF Submit
  <2>3. queue \in Seq(Job)
    BY DEF JobInv, JobTypeOK
  <2> HIDE DEF e
  <2>4. queue' \in Seq(Job) /\ TasksIn(queue') = TasksIn(queue) \cup {t}
    BY <2>1, <2>2, <2>3, TasksInAppend
  <2>5. JobTypeOK'
    BY <2>2, <2>4 DEF JobInv, JobTypeOK
  <2>6. t \notin TasksIn(queue) /\ t \notin running
    BY <1>2 DEF IsActive, JobInv, ExclusiveRun
  <2>7. ASSUME NEW i \in DOMAIN queue', NEW j \in DOMAIN queue',
               queue'[i].task = queue'[j].task
        PROVE  i = j
    <3>1. \A k \in DOMAIN queue' :
             \/ k \in DOMAIN queue /\ queue'[k] = queue[k]
             \/ k = Len(queue) + 1 /\ queue'[k] = e
      BY <2>1, <2>2, <2>3
    <3>2. \A k \in DOMAIN queue : queue[k].task # t
      BY <2>6 DEF TasksIn
    <3> QED BY <3>1, <3>2, <2>1, <2>7 DEF JobInv, ExclusiveRun
  <2> QED BY <2>2, <2>4, <2>5, <2>6, <2>7 DEF JobInv, ExclusiveRun
<1> QED BY <1>1, <1>2

(* A worker takes the head of the queue: the task changes sets. *)
LEMMA TakeInv ==
  ASSUME JobInv, NEW w \in Workers, Take(w)
  PROVE  JobInv'
<1> DEFINE h == Head(queue)
<1>1. /\ queue \in Seq(Job) /\ queue # <<>>
      /\ \A i, j \in DOMAIN queue : queue[i].task = queue[j].task => i = j
  BY DEF JobInv, JobTypeOK, ExclusiveRun, Take
<1>2. /\ h \in Job /\ queue' \in Seq(Job)
      /\ TasksIn(queue) = TasksIn(queue') \cup {h.task}
  BY <1>1, TasksInTail DEF Take
<1>3. /\ h.task \notin TasksIn(queue')
      /\ \A i, j \in DOMAIN queue' : queue'[i].task = queue'[j].task => i = j
  BY <1>1, HeadLeaves DEF Take
<1>4. h.task \in Tasks /\ h \in [task : Tasks \cup {None}, start : Phase]
  BY <1>2 DEF Job
<1>5. /\ job' = [job EXCEPT ![w] = h]
      /\ waiting' = waiting \ {h.task}
      /\ running' = running \cup {h.task}
      /\ job[w].task = None
  BY DEF Take
<1> HIDE DEF h
<1>6. JobTypeOK'
  BY <1>2, <1>4, <1>5 DEF JobInv, JobTypeOK
<1>7. \A v \in Workers : job'[v] = IF v = w THEN h ELSE job[v]
  BY <1>5 DEF JobInv, JobTypeOK
<1>8. h.task \in waiting /\ h.task \notin running /\ h.task # None
  BY <1>2, <1>4, NoneAssumption DEF JobInv, ExclusiveRun
<1>9. waiting' = TasksIn(queue')
  BY <1>2, <1>3, <1>5 DEF JobInv, ExclusiveRun
<1>10. running' = {job'[v].task : v \in Workers} \ {None}
  BY <1>5, <1>7, <1>8 DEF JobInv, ExclusiveRun
<1>11. waiting' \cap running' = {}
  BY <1>5 DEF JobInv, ExclusiveRun
<1>12. ASSUME NEW v \in Workers, NEW u \in Workers,
              job'[v].task = job'[u].task, job'[v].task # None
       PROVE  v = u
  <2>1. \A k \in Workers : k # w => job[k].task # h.task
    BY <1>8 DEF JobInv, ExclusiveRun
  <2> QED BY <1>7, <1>12, <2>1 DEF JobInv, ExclusiveRun
<1> QED BY <1>3, <1>6, <1>9, <1>10, <1>11, <1>12 DEF JobInv, ExclusiveRun

(* A worker is done: nobody else had its task, so it leaves the set.       *)
LEMMA FinishInv ==
  ASSUME JobInv, NEW w \in Workers, Finish(w)
  PROVE  JobInv'
<1>1. NoJob \in [task : Tasks \cup {None}, start : Phase] /\ NoJob.task = None
  BY DEF NoJob, Phase
<1>2. JobTypeOK'
  BY <1>1 DEF Finish, JobInv, JobTypeOK
<1>3. \A v \in Workers : job'[v] = IF v = w THEN NoJob ELSE job[v]
  BY DEF Finish, JobInv, JobTypeOK
<1>4. \A v \in Workers : v # w => job[v].task # job[w].task
  BY DEF Finish, JobInv, ExclusiveRun
<1>5. running' = {job'[v].task : v \in Workers} \ {None}
  BY <1>1, <1>3, <1>4 DEF Finish, JobInv, ExclusiveRun
<1>6. \A v, u \in Workers :
        job'[v].task = job'[u].task /\ job'[v].task # None => v = u
  BY <1>1, <1>3 DEF JobInv, ExclusiveRun
<1> QED BY <1>2, <1>5, <1>6 DEF Finish, JobInv, ExclusiveRun

(* shutdown() and the end of the process empty the pool. *)
LEMMA StopInv ==
  ASSUME JobInv, Stop \/ Forget
  PROVE  JobInv'
<1>1. NoJob \in [task : Tasks \cup {None}, start : Phase] /\ NoJob.task = None
  BY DEF NoJob, Phase
<1>2. JobTypeOK'
  <2>1. queue' \in Seq(Job) /\ waiting' \in SUBSET Tasks
    <3>1. CASE Stop
      BY <3>1 DEF Stop, JobInv, JobTypeOK
    <3>2. CASE Forget
      <4>1. <<>> \in Seq(Job) /\ {} \in SUBSET Tasks
        OBVIOUS
      <4> QED BY <3>2, <4>1 DEF Forget
    <3> QED BY <3>1, <3>2
  <2>2. job' = [v \in Workers |-> NoJob] /\ running' = {}
    BY DEF Stop, Forget
  <2> QED BY <1>1, <2>1, <2>2 DEF JobTypeOK
<1>3. job' = [v \in Workers |-> NoJob] /\ running' = {}
  BY DEF Stop, Forget
<1>4. waiting' = TasksIn(queue')
  BY DEF Stop, Forget, JobInv, ExclusiveRun, TasksIn
<1>5. \A i, j \in DOMAIN queue' : queue'[i].task = queue'[j].task => i = j
  BY DEF Stop, Forget, JobInv, ExclusiveRun
<1> QED BY <1>1, <1>2, <1>3, <1>4, <1>5 DEF JobInv, ExclusiveRun

(* A runner that cares for no task has an empty queue. *)
LEMMA NothingQueued ==
  ASSUME JobInv, waiting \cup running = {}
  PROVE  queue = <<>>
<1>1. queue \in Seq(Job) /\ TasksIn(queue) = {}
  BY DEF JobInv, JobTypeOK, ExclusiveRun
<1>2. DOMAIN queue = {}
  BY <1>1 DEF TasksIn
<1> QED BY <1>1, <1>2

(* recover() fills an empty runner. *)
LEMMA SubmitPlanInv ==
  ASSUME JobInv, waiting \cup running = {}, IsPlan(queue'), SubmitPlan(queue')
  PROVE  JobInv'
<1>1. waiting = {} /\ queue' \in Seq(Job)
  BY DEF IsPlan
<1>2. waiting' = TasksIn(queue') /\ running' = running /\ job' = job
  BY <1>1 DEF SubmitPlan
<1>3. JobTypeOK'
  BY <1>1, <1>2, TasksInTasks DEF JobInv, JobTypeOK
<1> QED BY <1>2, <1>3 DEF JobInv, ExclusiveRun, IsPlan

LEMMA JobStepInv == JobInv /\ [JobNext]_jobVars => JobInv'
<1> SUFFICES ASSUME JobInv, [JobNext]_jobVars PROVE JobInv'
  OBVIOUS
<1>1. CASE UNCHANGED jobVars
  BY <1>1 DEF jobVars, JobInv, JobTypeOK, ExclusiveRun, TasksIn
<1>2. ASSUME NEW t \in Tasks, NEW s \in Phase, Submit(t, s) PROVE JobInv'
  BY <1>2, SubmitInv
<1>3. ASSUME NEW w \in Workers, Take(w) PROVE JobInv'
  BY <1>3, TakeInv
<1>4. ASSUME NEW w \in Workers, Finish(w) PROVE JobInv'
  BY <1>4, FinishInv
<1>5. CASE Stop \/ Forget
  BY <1>5, StopInv
<1>6. CASE /\ waiting \cup running = {}
           /\ IsPlan(queue') /\ SubmitPlan(queue')
  BY <1>6, SubmitPlanInv
<1> QED BY <1>1, <1>2, <1>3, <1>4, <1>5, <1>6 DEF JobNext

(* The two id sets of the runner are its queue and its pool, and no task   *)
(* is queued twice, run twice, or queued while it runs, ever: submit() may *)
(* rely on is_active.                                                      *)
THEOREM JobQueueCorrect == JobSpec => [](JobTypeOK /\ ExclusiveRun)
<1>1. JobSpec => []JobInv
  BY JobInitInv, JobStepInv, PTL DEF JobSpec
<1> QED BY <1>1, PTL DEF JobInv
=============================================================================
