-------------------------- MODULE Observers_proofs --------------------------
(***************************************************************************)
(* The watchers of TaskRunner, for any number of tasks, workers and        *)
(* watchers and a channel of any size: the runner drives its scheduler as  *)
(* JobSpec allows, a watcher is left waiting for nothing only if its       *)
(* channel is full, and the last frame of a run is delivered.              *)
(***************************************************************************)
EXTENDS Observers, JobQueue_proofs

Entry == [end : BOOLEAN, n : 0..MaxSteps]

View == [pc : {"off", "snapshot", "opened", "following", "done", "left"},
         task : Tasks \cup {None}, seen : 0..MaxSteps]

WatchingPcs == {"snapshot", "opened", "following"}

HasEnd(ch) == \E i \in DOMAIN ch : ch[i].end

(* What is shown of a task is what was saved; a task the runner cares for  *)
(* has been saved since its last run ended; who does not watch holds no    *)
(* entries.                                                                *)
CountInv ==
  /\ \A t \in Tasks : latest[t] <= saved[t] /\ ended[t] <= saved[t]
  /\ \A t \in Tasks : IsActive(t) => ended[t] < saved[t]
  /\ \A o \in Watchers : Watching(o) => view[o].task \in Tasks
  /\ \A o \in Watchers : ~Watching(o) => channel[o] = <<>>

ObsInv == ObserversTypeOK /\ CountInv

(* Once shutdown() has run, a watcher that does not follow yet has its end *)
(* marker, or had no room for it.                                          *)
EndOrFull(o) ==
  ~up /\ Watching(o) /\ view[o].pc # "following" =>
    HasEnd(channel[o]) \/ Len(channel[o]) = Cap

EndInv == \A o \in Watchers : EndOrFull(o)

(* What a step may do to a watcher: leave it without anything to wait for  *)
(* only where its channel is full.                                         *)
LeftOnlyFull(o) == Attended(o) /\ ~Attended(o)' => Len(channel[o]) = Cap

(* A task of which no frame will come any more, where nobody retries. *)
Over(t) == ~up \/ (~IsActive(t) /\ saved[t] = ended[t] /\ saved[t] # 0)

(* Frames, then end markers, which carry the last frame and are only sent  *)
(* when it is over; the last of the frames, or else the frame the watcher  *)
(* has seen, is the last one broadcast.                                    *)
ChannelOK(ch, pc, seen, n, over) ==
  /\ \A i \in 1..Len(ch) : ch[i].end => ch[i].n = n /\ over
  /\ \A i, j \in 1..Len(ch) : i < j /\ ch[i].end => ch[j].end
  /\ \A i \in 1..Len(ch) :
       ~ch[i].end /\ (i = Len(ch) \/ ch[i + 1].end) => ch[i].n = n
  /\ ch = <<>> \/ ch[1].end => pc = "snapshot" \/ seen >= n

LastOK(o, t) == ChannelOK(channel[o], view[o].pc, view[o].seen, latest[t], Over(t))

LastInv ==
  \A o \in Watchers, t \in Tasks : Watching(o) /\ view[o].task = t => LastOK(o, t)

-----------------------------------------------------------------------------
(* The scheduler. *)

(* The runner starts with an empty scheduler and takes its steps only: a   *)
(* submission, a worker that takes or finishes a job, shutdown().          *)
THEOREM WatchedRunnerSchedules == ObserversSpec => JobSpec
<1>1. ObserversInit => JobInit
  BY DEF ObserversInit
<1>2. [ObserversNext]_obsVars => [JobNext]_jobVars
  <2> SUFFICES ASSUME [ObserversNext]_obsVars PROVE [JobNext]_jobVars
    OBVIOUS
  <2>1. CASE UNCHANGED obsVars
    BY <2>1 DEF obsVars
  <2>2. ASSUME NEW t \in Tasks, SaveTask(t) \/ SubmitTask(t) PROVE [JobNext]_jobVars
    BY <2>2 DEF SaveTask, SubmitTask, JobNext
  <2>3. ASSUME NEW w \in Workers, WorkerStep(w) PROVE [JobNext]_jobVars
    BY <2>3 DEF WorkerStep, TakeJob, SaveStep, EmitFrame, EndJob, JobNext
  <2>4. ASSUME NEW o \in Watchers, WatcherStep(o) \/ Detach(o) PROVE [JobNext]_jobVars
    BY <2>4 DEF WatcherStep, Snapshot, CheckActive, ReceiveFrame, ReceiveEnd, Detach
  <2>5. ASSUME NEW o \in Watchers, NEW t \in Tasks, Attach(o, t) PROVE [JobNext]_jobVars
    BY <2>5 DEF Attach
  <2>6. CASE Shutdown
    BY <2>6 DEF Shutdown, JobNext
  <2> QED BY <2>1, <2>2, <2>3, <2>4, <2>5, <2>6 DEF ObserversNext
<1> QED BY <1>1, <1>2, PTL DEF ObserversSpec, JobSpec

LEMMA WatchedJobs == ObserversSpec => []JobInv
<1>1. JobTypeOK /\ ExclusiveRun => JobInv
  BY DEF JobInv
<1> QED BY <1>1, WatchedRunnerSchedules, JobQueueCorrect, PTL

(* What a step does to the tasks the runner cares for. *)
LEMMA CareKept ==
  ASSUME JobInv, NEW w \in Workers, Take(w), NEW t
  PROVE  IsActive(t)' <=> IsActive(t)
<1>1. queue \in Seq(Job) /\ queue # <<>>
  BY DEF JobInv, JobTypeOK, Take
<1>2. Head(queue).task \in waiting
  BY <1>1, TasksInTail DEF JobInv, ExclusiveRun
<1> QED BY <1>2 DEF Take, IsActive

LEMMA CareEnds ==
  ASSUME JobInv, NEW w \in Workers, job[w].task # None
  PROVE  /\ job[w].task \in Tasks /\ IsActive(job[w].task)
         /\ Finish(w) => \A t : IsActive(t)' <=> IsActive(t) /\ t # job[w].task
<1>1. job[w].task \in running /\ job[w].task \in Tasks /\ waiting \cap running = {}
  BY DEF JobInv, JobTypeOK, ExclusiveRun
<1> QED BY <1>1 DEF Finish, IsActive

-----------------------------------------------------------------------------
(* Channels. *)

LEMMA Pushed ==
  ASSUME NEW ch \in Seq(Entry), Len(ch) <= Cap, NEW x \in Entry
  PROVE  /\ Push(ch, x) \in Seq(Entry)
         /\ Len(Push(ch, x)) \in 1..Cap /\ Len(Push(ch, x)) <= Len(ch) + 1
         /\ Push(ch, x)[Len(Push(ch, x))] = x
         /\ \E k \in {0, 1} :
              /\ Len(Push(ch, x)) = Len(ch) + 1 - k
              /\ Len(ch) < Cap => k = 0
              /\ \A i \in 1..Len(ch) - k : Push(ch, x)[i] = ch[i + k]
<1>0. Cap \in Nat \ {0}
  BY ObserversAssumption
<1>1. CASE Len(ch) < Cap
  <2>1. Push(ch, x) = Append(ch, x)
    BY <1>0, <1>1 DEF Push
  <2> QED BY <1>0, <1>1, <2>1
<1>2. CASE Len(ch) = Cap
  <2> DEFINE c == Tail(ch)
  <2>1. Push(ch, x) = Append(c, x)
    BY <1>0, <1>2 DEF Push
  <2>2. /\ c \in Seq(Entry) /\ Len(c) = Len(ch) - 1
        /\ \A i \in 1..Len(ch) - 1 : c[i] = ch[i + 1]
    BY <1>0, <1>2
  <2> HIDE DEF c
  <2> QED BY <1>0, <1>2, <2>1, <2>2
<1> QED BY <1>0, <1>1, <1>2

LEMMA EndPushed ==
  ASSUME NEW ch \in Seq(Entry), Len(ch) <= Cap, NEW x \in Entry
  PROVE  /\ PushEnd(ch, x) \in Seq(Entry) /\ Len(PushEnd(ch, x)) <= Cap
         /\ \/ Len(ch) = Cap /\ PushEnd(ch, x) = ch
            \/ Len(ch) < Cap /\ PushEnd(ch, x) = Append(ch, x)
  BY ObserversAssumption DEF PushEnd

LEMMA Frames ==
  ASSUME NEW n \in 0..MaxSteps
  PROVE  /\ Frame(n) \in Entry /\ EndOfStream(n) \in Entry
         /\ Frame(n).n = n /\ EndOfStream(n).n = n
         /\ ~Frame(n).end /\ EndOfStream(n).end
  BY DEF Frame, EndOfStream, Entry

-----------------------------------------------------------------------------
(* Types and counts. *)

LEMMA ObsInitInv == ObserversInit => ObsInv
<1> SUFFICES ASSUME ObserversInit PROVE ObsInv
  OBVIOUS
<1>1. JobTypeOK /\ waiting = {} /\ running = {}
  BY JobInitInv DEF ObserversInit, JobInv, JobInit
<1>2. NoView \in View /\ 0 \in 0..MaxSteps /\ NoView.pc = "off"
  BY ObserversAssumption DEF NoView, View
<1>3. ObserversTypeOK
  BY <1>1, <1>2, ObserversAssumption DEF ObserversInit, ObserversTypeOK, View
<1>4. CountInv
  BY <1>1, <1>2 DEF ObserversInit, CountInv, IsActive, Watching
<1> QED BY <1>3, <1>4 DEF ObsInv

(* A task's document is saved, by a request or by the run. *)
LEMMA SaveObs ==
  ASSUME ObsInv, JobInv, JobInv', NEW t \in Tasks,
         saved[t] < MaxSteps, saved' = [saved EXCEPT ![t] = @ + 1],
         UNCHANGED <<jobVars, latest, ended, watchVars, up>>
  PROVE  ObsInv'
<1>1. /\ saved \in [Tasks -> 0..MaxSteps] /\ MaxSteps \in Nat
      /\ saved[t] + 1 \in 0..MaxSteps
  BY ObserversAssumption DEF ObsInv, ObserversTypeOK
<1>2. /\ saved' \in [Tasks -> 0..MaxSteps]
      /\ \A u \in Tasks : saved[u] <= saved'[u]
  BY <1>1
<1>3. ObserversTypeOK'
  BY <1>2 DEF ObsInv, ObserversTypeOK, JobInv, watchVars
<1>4. CountInv'
  BY <1>1, <1>2 DEF ObsInv, ObserversTypeOK, CountInv, jobVars, watchVars, IsActive, Watching
<1> QED BY <1>3, <1>4 DEF ObsInv

LEMMA SubmitObs ==
  ASSUME ObsInv, JobInv', NEW t \in Tasks, SubmitTask(t)
  PROVE  ObsInv'
<1>1. UNCHANGED <<saved, latest, ended, watchVars, up>> /\ saved[t] > ended[t]
  BY DEF SubmitTask
<1>2. ObserversTypeOK'
  BY <1>1 DEF ObsInv, ObserversTypeOK, JobInv, watchVars
<1>3. \A u : IsActive(u)' => IsActive(u) \/ u = t
  BY DEF SubmitTask, Submit, IsActive
<1>4. saved[t] \in Nat /\ ended[t] \in Nat
  BY DEF ObsInv, ObserversTypeOK
<1>5. CountInv'
  BY <1>1, <1>3, <1>4 DEF ObsInv, CountInv, watchVars, Watching
<1> QED BY <1>2, <1>5 DEF ObsInv

LEMMA TakeObs ==
  ASSUME ObsInv, JobInv, JobInv', NEW w \in Workers, TakeJob(w)
  PROVE  ObsInv'
<1>1. UNCHANGED <<saved, latest, ended, watchVars, up>> /\ Take(w)
  BY DEF TakeJob
<1>2. ObserversTypeOK'
  BY <1>1 DEF ObsInv, ObserversTypeOK, JobInv, watchVars
<1>3. \A u : IsActive(u)' => IsActive(u)
  BY <1>1, CareKept
<1>4. CountInv'
  BY <1>1, <1>3 DEF ObsInv, CountInv, watchVars, Watching
<1> QED BY <1>2, <1>4 DEF ObsInv

(* The channels after a broadcast, and after end markers. *)
LEMMA BroadcastTypes ==
  ASSUME ObsInv, NEW t, NEW n \in 0..MaxSteps, Broadcast(t, n)
  PROVE  /\ channel' \in [Watchers -> Seq(Entry)]
         /\ \A o \in Watchers : Len(channel'[o]) <= Cap
         /\ \A o \in Watchers : ~Watching(o) => channel'[o] = channel[o]
<1>1. \A o \in Watchers : channel[o] \in Seq(Entry) /\ Len(channel[o]) <= Cap
  BY DEF ObsInv, ObserversTypeOK, Entry
<1>2. Frame(n) \in Entry
  BY Frames
<1>3. \A o \in Watchers : /\ Push(channel[o], Frame(n)) \in Seq(Entry)
                          /\ Len(Push(channel[o], Frame(n))) <= Cap
  BY <1>1, <1>2, Pushed, ObserversAssumption
<1> QED BY <1>1, <1>3 DEF Broadcast

LEMMA EndStreamsTypes ==
  ASSUME ObsInv, NEW ts \in SUBSET Tasks, EndStreams(ts)
  PROVE  /\ channel' \in [Watchers -> Seq(Entry)]
         /\ \A o \in Watchers : Len(channel'[o]) <= Cap
         /\ \A o \in Watchers : ~Watching(o) => channel'[o] = channel[o]
<1>1. \A o \in Watchers : channel[o] \in Seq(Entry) /\ Len(channel[o]) <= Cap
  BY DEF ObsInv, ObserversTypeOK, Entry
<1>2. \A t \in ts : EndOfStream(latest[t]) \in Entry
  BY Frames DEF ObsInv, ObserversTypeOK
<1>3. ASSUME NEW o \in Watchers, view[o].task \in ts
      PROVE  /\ PushEnd(channel[o], EndOfStream(latest[view[o].task])) \in Seq(Entry)
             /\ Len(PushEnd(channel[o], EndOfStream(latest[view[o].task]))) <= Cap
  BY <1>1, <1>2, <1>3, EndPushed
<1> QED BY <1>1, <1>3 DEF EndStreams

LEMMA EmitObs ==
  ASSUME ObsInv, JobInv, JobInv', NEW w \in Workers, EmitFrame(w)
  PROVE  ObsInv'
<1> DEFINE t == job[w].task
<1>1. /\ t # None /\ latest' = [latest EXCEPT ![t] = saved[t]] /\ Broadcast(t, saved[t])
      /\ UNCHANGED <<jobVars, saved, ended, view, up>>
  BY DEF EmitFrame
<1>2. t \in Tasks
  BY <1>1, CareEnds
<1>3. saved[t] \in 0..MaxSteps /\ latest \in [Tasks -> 0..MaxSteps]
  BY <1>2 DEF ObsInv, ObserversTypeOK
<1> HIDE DEF t
<1>4. latest' \in [Tasks -> 0..MaxSteps] /\ latest'[t] = saved[t]
      /\ \A u \in Tasks \ {t} : latest'[u] = latest[u]
  BY <1>1, <1>2, <1>3
<1>5. ObserversTypeOK'
  BY <1>1, <1>3, <1>4, BroadcastTypes DEF ObsInv, ObserversTypeOK, JobInv, Entry
<1>6. CountInv'
  <2>1. \A u \in Tasks : latest'[u] <= saved'[u] /\ ended'[u] <= saved'[u]
    BY <1>1, <1>2, <1>3, <1>4 DEF ObsInv, CountInv
  <2>2. \A u : IsActive(u)' <=> IsActive(u)
    BY <1>1 DEF jobVars, IsActive
  <2> QED BY <1>1, <1>3, <2>1, <2>2, BroadcastTypes DEF ObsInv, CountInv, Watching
<1> QED BY <1>5, <1>6 DEF ObsInv

LEMMA EndJobObs ==
  ASSUME ObsInv, JobInv, JobInv', NEW w \in Workers, EndJob(w)
  PROVE  ObsInv'
<1> DEFINE t == job[w].task
<1>1. /\ t # None /\ ended' = [ended EXCEPT ![t] = saved[t]] /\ EndStreams({t})
      /\ Finish(w) /\ UNCHANGED <<saved, latest, view, up>>
  BY DEF EndJob, Finish
<1>2. t \in Tasks /\ \A u : IsActive(u)' <=> IsActive(u) /\ u # t
  BY <1>1, CareEnds
<1>3. saved[t] \in 0..MaxSteps /\ ended \in [Tasks -> 0..MaxSteps]
  BY <1>2 DEF ObsInv, ObserversTypeOK
<1> HIDE DEF t
<1>4. ended' \in [Tasks -> 0..MaxSteps] /\ ended'[t] = saved[t]
      /\ \A u \in Tasks \ {t} : ended'[u] = ended[u]
  BY <1>1, <1>2, <1>3
<1>5. /\ channel' \in [Watchers -> Seq(Entry)]
      /\ \A o \in Watchers : Len(channel'[o]) <= Cap
      /\ \A o \in Watchers : ~Watching(o) => channel'[o] = channel[o]
  BY <1>1, <1>2, EndStreamsTypes
<1>6. ObserversTypeOK'
  BY <1>1, <1>4, <1>5 DEF ObsInv, ObserversTypeOK, JobInv, Entry
<1>7. CountInv'
  <2>1. \A u \in Tasks : latest'[u] <= saved'[u] /\ ended'[u] <= saved'[u]
    BY <1>1, <1>3, <1>4 DEF ObsInv, CountInv
  <2> QED BY <1>1, <1>2, <1>4, <1>5, <2>1 DEF ObsInv, CountInv, Watching
<1> QED BY <1>6, <1>7 DEF ObsInv

LEMMA ShutdownObs ==
  ASSUME ObsInv, JobInv', Shutdown
  PROVE  ObsInv'
<1>1. Stop /\ up' = FALSE /\ EndStreams(Tasks) /\ UNCHANGED <<saved, latest, ended, view>>
  BY DEF Shutdown
<1>2. /\ channel' \in [Watchers -> Seq(Entry)]
      /\ \A o \in Watchers : Len(channel'[o]) <= Cap
      /\ \A o \in Watchers : ~Watching(o) => channel'[o] = channel[o]
  BY <1>1, EndStreamsTypes
<1>3. ObserversTypeOK'
  BY <1>1, <1>2 DEF ObsInv, ObserversTypeOK, JobInv, Entry
<1>4. \A u : IsActive(u)' => IsActive(u)
  BY <1>1 DEF Stop, IsActive
<1>5. CountInv'
  BY <1>1, <1>2, <1>4 DEF ObsInv, CountInv, Watching
<1> QED BY <1>3, <1>5 DEF ObsInv

LEMMA AttachObs ==
  ASSUME ObsInv, JobInv', NEW o \in Watchers, NEW t \in Tasks, Attach(o, t)
  PROVE  /\ ObsInv'
         /\ channel[o] = <<>> /\ view'[o].task = t /\ view'[o].pc # "following"
         /\ view'[o].seen = latest[t]
         /\ \A u \in Watchers \ {o} : view'[u] = view[u]
<1> DEFINE pc == IF latest[t] = 0 THEN "snapshot" ELSE "opened"
           v == [pc |-> pc, task |-> t, seen |-> latest[t]]
<1>1. view' = [view EXCEPT ![o] = v] /\ UNCHANGED <<jobVars, saved, latest, ended, channel, up>>
      /\ view[o] = NoView
  BY DEF Attach
<1>2. pc \in {"snapshot", "opened"}
  OBVIOUS
<1> HIDE DEF pc
<1>3. v \in View /\ v.pc = pc /\ v.task = t /\ v.seen = latest[t]
  BY <1>2 DEF View, ObsInv, ObserversTypeOK
<1> HIDE DEF v
<1>4. /\ view' \in [Watchers -> View] /\ view'[o] = v
      /\ \A u \in Watchers \ {o} : view'[u] = view[u]
  BY <1>1, <1>3 DEF ObsInv, ObserversTypeOK, View
<1>5. ObserversTypeOK'
  BY <1>1, <1>4 DEF ObsInv, ObserversTypeOK, JobInv, View
<1>6. channel[o] = <<>>
  BY <1>1 DEF ObsInv, CountInv, Watching, NoView
<1>7. CountInv'
  BY <1>1, <1>2, <1>3, <1>4 DEF ObsInv, CountInv, Watching, jobVars, IsActive
<1> QED BY <1>2, <1>3, <1>4, <1>5, <1>6, <1>7 DEF ObsInv

(* A watcher opens its stream, starts to follow, goes, or takes a frame;   *)
(* nothing else changes.                                                   *)
WatcherMoved(o) ==
  /\ UNCHANGED <<jobVars, saved, latest, ended, up>>
  /\ view' \in [Watchers -> View] /\ channel' \in [Watchers -> Seq(Entry)]
  /\ \A u \in Watchers \ {o} : view'[u] = view[u] /\ channel'[u] = channel[u]
  /\ Watching(o) /\ view'[o].task = view[o].task
  /\ \/ /\ view[o].pc = "snapshot" /\ view'[o].pc = "opened"
        /\ view'[o].seen = saved[view[o].task] /\ channel'[o] = channel[o]
     \/ /\ view[o].pc = "opened" /\ view'[o].pc = "following"
        /\ view'[o].seen = view[o].seen /\ IsActive(view[o].task)
        /\ channel'[o] = channel[o]
     \/ view'[o].pc \in {"done", "left"} /\ channel'[o] = <<>>
     \/ /\ view[o].pc = "following" /\ view'[o].pc = "following"
        /\ channel[o] # <<>> /\ ~channel[o][1].end
        /\ view'[o].seen = channel[o][1].n /\ channel'[o] = Tail(channel[o])

LEMMA WatcherStepMoves ==
  ASSUME ObsInv, NEW o \in Watchers, WatcherStep(o) \/ Detach(o)
  PROVE  WatcherMoved(o)
<1>1. /\ view \in [Watchers -> View] /\ channel \in [Watchers -> Seq(Entry)]
      /\ saved \in [Tasks -> 0..MaxSteps]
      /\ Watching(o) => view[o].task \in Tasks
  BY DEF ObsInv, ObserversTypeOK, CountInv, View, Entry
<1>2. ASSUME NEW v \in View, view' = [view EXCEPT ![o] = v]
      PROVE  /\ view' \in [Watchers -> View] /\ view'[o] = v
             /\ \A u \in Watchers \ {o} : view'[u] = view[u]
  BY <1>1, <1>2
<1>3. ASSUME NEW pc \in {"opened", "following", "done", "left"}, NEW c \in Seq(Entry),
             view' = [view EXCEPT ![o].pc = pc],
             channel' = [channel EXCEPT ![o] = c]
      PROVE  /\ view' \in [Watchers -> View] /\ channel' \in [Watchers -> Seq(Entry)]
             /\ \A u \in Watchers \ {o} : view'[u] = view[u] /\ channel'[u] = channel[u]
             /\ view'[o].pc = pc /\ view'[o].seen = view[o].seen
             /\ view'[o].task = view[o].task /\ channel'[o] = c
  BY <1>1, <1>3 DEF View
<1>4. channel = [channel EXCEPT ![o] = channel[o]] /\ channel[o] \in Seq(Entry)
      /\ <<>> \in Seq(Entry)
  BY <1>1
<1>5. CASE Snapshot(o)
  <2> DEFINE v == [view[o] EXCEPT !.pc = "opened", !.seen = saved[view[o].task]]
  <2>1. /\ view' = [view EXCEPT ![o] = v]
        /\ UNCHANGED <<jobVars, saved, latest, ended, channel, up>> /\ Watching(o)
        /\ view[o].pc = "snapshot"
    BY <1>1, <1>5 DEF Snapshot, Watching, View
  <2>2. saved[view[o].task] \in 0..MaxSteps /\ view[o] \in View
    BY <1>1, <2>1
  <2>3. /\ v \in View /\ v.pc = "opened" /\ v.task = view[o].task
        /\ v.seen = saved[view[o].task]
    BY <2>2 DEF View
  <2> HIDE DEF v
  <2>4. /\ view' \in [Watchers -> View] /\ view'[o] = v
        /\ \A u \in Watchers \ {o} : view'[u] = view[u]
    BY <1>2, <2>1, <2>3
  <2> QED BY <1>1, <2>1, <2>3, <2>4 DEF WatcherMoved
<1>6. CASE CheckActive(o)
  <2>1. UNCHANGED <<jobVars, saved, latest, ended, up>> /\ Watching(o) /\ view[o].pc = "opened"
    BY <1>6 DEF CheckActive, Watching
  <2>2. CASE IsActive(view[o].task)
    <3>1. view' = [view EXCEPT ![o].pc = "following"] /\ channel' = [channel EXCEPT ![o] = channel[o]]
      BY <1>4, <1>6, <2>2 DEF CheckActive
    <3> QED BY <1>3, <1>4, <2>1, <2>2, <3>1 DEF WatcherMoved
  <2>3. CASE ~IsActive(view[o].task)
    <3>1. view' = [view EXCEPT ![o].pc = "done"] /\ channel' = [channel EXCEPT ![o] = <<>>]
      BY <1>6, <2>3 DEF CheckActive, Unregister
    <3> QED BY <1>3, <1>4, <2>1, <3>1 DEF WatcherMoved
  <2> QED BY <2>2, <2>3
<1>7. CASE ReceiveFrame(o)
  <2> DEFINE v == [view[o] EXCEPT !.seen = Head(channel[o]).n]
  <2>1. /\ view' = [view EXCEPT ![o] = v]
        /\ channel' = [channel EXCEPT ![o] = Tail(channel[o])]
        /\ UNCHANGED <<jobVars, saved, latest, ended, up>> /\ Watching(o)
        /\ view[o].pc = "following" /\ channel[o] # <<>> /\ ~Head(channel[o]).end
    BY <1>7 DEF ReceiveFrame, Watching
  <2>2. /\ Head(channel[o]) = channel[o][1] /\ channel[o][1] \in Entry
        /\ Tail(channel[o]) \in Seq(Entry) /\ view[o] \in View
    BY <1>1, <1>4, <2>1
  <2>3. /\ v \in View /\ v.pc = "following" /\ v.task = view[o].task
        /\ v.seen = channel[o][1].n
    BY <2>1, <2>2 DEF View, Entry
  <2> HIDE DEF v
  <2>4. /\ view' \in [Watchers -> View] /\ view'[o] = v
        /\ \A u \in Watchers \ {o} : view'[u] = view[u]
    BY <1>2, <2>1, <2>3
  <2>5. /\ channel' \in [Watchers -> Seq(Entry)] /\ channel'[o] = Tail(channel[o])
        /\ \A u \in Watchers \ {o} : channel'[u] = channel[u]
    BY <1>1, <2>1, <2>2
  <2>6. ~channel[o][1].end
    BY <2>1, <2>2
  <2> QED BY <2>1, <2>3, <2>4, <2>5, <2>6 DEF WatcherMoved
<1>8. CASE ReceiveEnd(o) \/ Detach(o)
  <2>1. PICK pc \in {"done", "left"} : Unregister(o, pc)
    BY <1>8 DEF ReceiveEnd, Detach
  <2>2. UNCHANGED <<jobVars, saved, latest, ended, up>> /\ Watching(o)
    BY <1>8 DEF ReceiveEnd, Detach, Watching
  <2>3. view' = [view EXCEPT ![o].pc = pc] /\ channel' = [channel EXCEPT ![o] = <<>>]
    BY <2>1 DEF Unregister
  <2> QED BY <1>3, <1>4, <2>1, <2>2, <2>3 DEF WatcherMoved
<1> QED BY <1>5, <1>6, <1>7, <1>8 DEF WatcherStep

LEMMA WatcherObs ==
  ASSUME ObsInv, JobInv', NEW o \in Watchers, WatcherMoved(o)
  PROVE  ObsInv'
<1>1. /\ UNCHANGED <<jobVars, saved, latest, ended, up>>
      /\ view' \in [Watchers -> View] /\ channel' \in [Watchers -> Seq(Entry)]
      /\ \A u \in Watchers \ {o} : view'[u] = view[u] /\ channel'[u] = channel[u]
      /\ Watching(o) /\ view'[o].task = view[o].task
  BY DEF WatcherMoved
<1>2. channel[o] \in Seq(Entry) /\ Len(channel[o]) <= Cap
  BY DEF ObsInv, ObserversTypeOK, Entry
<1>3. Len(channel'[o]) <= Cap
  <2>1. CASE channel'[o] = channel[o]
    BY <1>2, <2>1
  <2>2. CASE channel'[o] = <<>>
    BY <2>2, ObserversAssumption
  <2>3. CASE channel[o] # <<>> /\ channel'[o] = Tail(channel[o])
    BY <1>2, <2>3, ObserversAssumption
  <2> QED BY <2>1, <2>2, <2>3 DEF WatcherMoved
<1>4. Watching(o)' \/ channel'[o] = <<>>
  BY DEF WatcherMoved, Watching
<1>5. ObserversTypeOK'
  BY <1>1, <1>3 DEF ObsInv, ObserversTypeOK, JobInv, View, Entry
<1>6. CountInv'
  BY <1>1, <1>4 DEF ObsInv, CountInv, Watching, jobVars, IsActive
<1> QED BY <1>5, <1>6 DEF ObsInv

LEMMA ObsStepInv ==
  ASSUME ObsInv, JobInv, JobInv', [ObserversNext]_obsVars
  PROVE  ObsInv'
<1>1. CASE UNCHANGED obsVars
  BY <1>1 DEF obsVars, watchVars, jobVars, ObsInv, ObserversTypeOK, JobTypeOK, CountInv,
              IsActive, Watching
<1>2. ASSUME NEW t \in Tasks, SaveTask(t) PROVE ObsInv'
  BY <1>2, SaveObs DEF SaveTask
<1>3. ASSUME NEW t \in Tasks, SubmitTask(t) PROVE ObsInv'
  BY <1>3, SubmitObs
<1>4. ASSUME NEW w \in Workers, TakeJob(w) PROVE ObsInv'
  BY <1>4, TakeObs
<1>5. ASSUME NEW w \in Workers, SaveStep(w) PROVE ObsInv'
  BY <1>5, SaveObs, CareEnds DEF SaveStep
<1>6. ASSUME NEW w \in Workers, EmitFrame(w) PROVE ObsInv'
  BY <1>6, EmitObs
<1>7. ASSUME NEW w \in Workers, EndJob(w) PROVE ObsInv'
  BY <1>7, EndJobObs
<1>8. ASSUME NEW o \in Watchers, WatcherStep(o) \/ Detach(o) PROVE ObsInv'
  BY <1>8, WatcherStepMoves, WatcherObs
<1>9. ASSUME NEW o \in Watchers, NEW t \in Tasks, Attach(o, t) PROVE ObsInv'
  BY <1>9, AttachObs
<1>10. CASE Shutdown
  BY <1>10, ShutdownObs
<1> QED
  BY <1>1, <1>2, <1>3, <1>4, <1>5, <1>6, <1>7, <1>8, <1>9, <1>10 DEF ObserversNext, WorkerStep

LEMMA ObsInvariant == ObserversSpec => [](ObsInv /\ JobInv)
<1>1. ObsInv /\ JobInv /\ JobInv' /\ [ObserversNext]_obsVars => ObsInv'
  BY ObsStepInv
<1> QED BY <1>1, ObsInitInv, WatchedJobs, PTL DEF ObserversSpec

(* The runner and its watchers keep their types, the bound on the length   *)
(* of a channel (asyncio.Queue's maxsize) among them.                      *)
THEOREM WatcherTypes == ObserversSpec => []ObserversTypeOK
<1>1. ObsInv => ObserversTypeOK
  BY DEF ObsInv
<1> QED BY <1>1, ObsInvariant, PTL

-----------------------------------------------------------------------------
(* A watcher is left waiting for nothing only if its channel is full.      *)

LEMMA EndKept ==
  ASSUME NEW ch \in Seq(Entry), NEW x \in Entry, Len(ch) <= Cap
  PROVE  /\ HasEnd(ch) => HasEnd(PushEnd(ch, x))
         /\ x.end /\ Len(ch) < Cap => HasEnd(PushEnd(ch, x))
         /\ HasEnd(ch) /\ Len(ch) < Cap => HasEnd(Push(ch, x))
         /\ HasEnd(ch) /\ ~ch[1].end => HasEnd(Tail(ch))
<1>1. Cap \in Nat \ {0}
  BY ObserversAssumption
<1>2. HasEnd(ch) => HasEnd(Append(ch, x))
  <2> SUFFICES ASSUME HasEnd(ch) PROVE HasEnd(Append(ch, x))
    OBVIOUS
  <2>1. PICK i \in DOMAIN ch : ch[i].end
    BY DEF HasEnd
  <2>2. i \in DOMAIN Append(ch, x) /\ Append(ch, x)[i] = ch[i]
    OBVIOUS
  <2> QED BY <2>1, <2>2 DEF HasEnd
<1>3. x.end => HasEnd(Append(ch, x))
  <2>1. Len(ch) + 1 \in DOMAIN Append(ch, x) /\ Append(ch, x)[Len(ch) + 1] = x
    OBVIOUS
  <2> QED BY <2>1 DEF HasEnd
<1>4. HasEnd(ch) /\ ~ch[1].end => HasEnd(Tail(ch))
  <2> SUFFICES ASSUME HasEnd(ch), ~ch[1].end PROVE HasEnd(Tail(ch))
    OBVIOUS
  <2>1. PICK i \in DOMAIN ch : ch[i].end
    BY DEF HasEnd
  <2>2. i - 1 \in DOMAIN Tail(ch) /\ Tail(ch)[i - 1] = ch[i]
    BY <2>1
  <2> QED BY <2>1, <2>2 DEF HasEnd
<1> QED BY <1>1, <1>2, <1>3, <1>4 DEF PushEnd, Push

(* What the counts say of a task. *)
LEMMA CountFacts ==
  ASSUME ObsInv, NEW t \in Tasks
  PROVE  /\ saved[t] \in 0..MaxSteps /\ latest[t] \in 0..MaxSteps /\ ended[t] \in 0..MaxSteps
         /\ latest[t] <= saved[t] /\ ended[t] <= saved[t]
         /\ IsActive(t) => ended[t] < saved[t]
  BY DEF ObsInv, ObserversTypeOK, CountInv

LEMMA WatcherFacts ==
  ASSUME ObsInv, NEW o \in Watchers
  PROVE  /\ channel[o] \in Seq(Entry) /\ Len(channel[o]) \in 0..Cap
         /\ Watching(o) => view[o].task \in Tasks
<1>1. /\ channel[o] \in Seq(Entry) /\ Len(channel[o]) <= Cap
      /\ Watching(o) => view[o].task \in Tasks
  BY DEF ObsInv, ObserversTypeOK, CountInv, Entry
<1>2. Len(channel[o]) \in Nat
  BY <1>1
<1> QED BY <1>1, <1>2, ObserversAssumption

(* A step that leaves the watcher, its channel and the process alone, and  *)
(* every task that was under the runner's care.                            *)
LEMMA CareStays ==
  ASSUME EndInv, NEW o \in Watchers, view'[o] = view[o], channel'[o] = channel[o],
         UNCHANGED up, IsActive(view[o].task) => IsActive(view[o].task)'
  PROVE  EndOrFull(o)' /\ LeftOnlyFull(o)
  BY DEF EndInv, EndOrFull, LeftOnlyFull, Attended, HasEnd, Watching

(* A frame reaches only the watchers of a task that runs. *)
LEMMA EmitCares ==
  ASSUME ObsInv, JobInv, EndInv, NEW w \in Workers, EmitFrame(w), NEW o \in Watchers
  PROVE  EndOrFull(o)' /\ LeftOnlyFull(o)
<1> DEFINE t == job[w].task
<1>1. up /\ t # None /\ Broadcast(t, saved[t]) /\ UNCHANGED <<jobVars, view, up>>
  BY DEF EmitFrame
<1>2. IsActive(t) /\ \A u : IsActive(u)' <=> IsActive(u)
  BY <1>1, CareEnds DEF jobVars, IsActive
<1>3. CASE Watching(o) /\ view[o].task = t
  BY <1>1, <1>2, <1>3 DEF EndOrFull, LeftOnlyFull, Attended
<1>4. CASE ~(Watching(o) /\ view[o].task = t)
  <2>1. channel'[o] = channel[o] /\ view'[o] = view[o]
    BY <1>1, <1>4 DEF Broadcast
  <2> QED BY <1>1, <1>2, <2>1, CareStays
<1> QED BY <1>3, <1>4

(* What end markers leave behind. *)
LEMMA MarkedOrFull ==
  ASSUME ObsInv, NEW ts \in SUBSET Tasks, EndStreams(ts), NEW o \in Watchers, Watching(o)
  PROVE  /\ view[o].task \in ts => HasEnd(channel'[o]) \/ (/\ Len(channel[o]) = Cap
                                                         /\ channel'[o] = channel[o])
         /\ HasEnd(channel[o]) => HasEnd(channel'[o])
         /\ view[o].task \notin ts => channel'[o] = channel[o]
<1> DEFINE ch == channel[o]  x == EndOfStream(latest[view[o].task])
<1>1. /\ ch \in Seq(Entry) /\ Len(ch) \in Nat /\ Len(ch) <= Cap /\ Cap \in Nat
      /\ view[o].task \in Tasks
  BY WatcherFacts, ObserversAssumption
<1>2. x \in Entry /\ x.end
  BY <1>1, CountFacts, Frames
<1>3. channel'[o] = IF view[o].task \in ts THEN PushEnd(ch, x) ELSE ch
  BY DEF EndStreams
<1> HIDE DEF ch, x
<1>4. HasEnd(ch) => HasEnd(PushEnd(ch, x))
  BY <1>1, <1>2, EndKept
<1>5. HasEnd(PushEnd(ch, x)) \/ (Len(ch) = Cap /\ PushEnd(ch, x) = ch)
  BY <1>1, <1>2, EndKept, EndPushed
<1> QED BY <1>3, <1>4, <1>5 DEF ch

(* The run's finally clause ends the streams of its task. *)
LEMMA EndJobCares ==
  ASSUME ObsInv, JobInv, EndInv, NEW w \in Workers, EndJob(w), NEW o \in Watchers
  PROVE  EndOrFull(o)' /\ LeftOnlyFull(o)
<1> DEFINE t == job[w].task
<1>1. up /\ t # None /\ EndStreams({t}) /\ Finish(w) /\ UNCHANGED <<view, up>>
  BY DEF EndJob, Finish
<1>2. t \in Tasks /\ \A u : IsActive(u)' <=> IsActive(u) /\ u # t
  BY <1>1, CareEnds
<1> HIDE DEF t
<1>3. EndOrFull(o)'
  BY <1>1 DEF EndOrFull
<1>4. CASE ~Watching(o)
  BY <1>1, <1>3, <1>4 DEF LeftOnlyFull, Attended, Watching
<1>5. CASE Watching(o)
  <2>1. /\ view[o].task \in {t} => HasEnd(channel'[o]) \/ Len(channel[o]) = Cap
        /\ HasEnd(channel[o]) => HasEnd(channel'[o])
    BY <1>1, <1>2, <1>5, MarkedOrFull
  <2> QED BY <1>1, <1>2, <1>3, <2>1 DEF LeftOnlyFull, Attended, HasEnd
<1> QED BY <1>3, <1>4, <1>5

(* shutdown() ends the streams of all tasks. *)
LEMMA ShutdownCares ==
  ASSUME ObsInv, Shutdown, NEW o \in Watchers
  PROVE  EndOrFull(o)' /\ LeftOnlyFull(o)
<1>1. EndStreams(Tasks) /\ UNCHANGED view
  BY DEF Shutdown
<1>2. CASE ~Watching(o)
  BY <1>1, <1>2 DEF EndOrFull, LeftOnlyFull, Attended, Watching
<1>3. CASE Watching(o)
  <2>1. HasEnd(channel'[o]) \/ (Len(channel[o]) = Cap /\ channel'[o] = channel[o])
    BY <1>1, <1>3, MarkedOrFull, WatcherFacts
  <2> QED BY <1>1, <2>1 DEF EndOrFull, LeftOnlyFull, Attended, HasEnd
<1> QED BY <1>2, <1>3

(* A watcher registers first and looks for its task afterwards; it takes   *)
(* frames, never an end marker, and goes on.                               *)
LEMMA WatcherCares ==
  ASSUME ObsInv, EndInv, NEW o \in Watchers, WatcherMoved(o), NEW p \in Watchers
  PROVE  EndOrFull(p)' /\ LeftOnlyFull(p)
<1>1. UNCHANGED <<jobVars, up>> /\ Watching(o) /\ view'[o].task = view[o].task
  BY DEF WatcherMoved
<1>2. \A t : IsActive(t)' <=> IsActive(t)
  BY <1>1 DEF jobVars, IsActive
<1>3. CASE p # o
  <2>1. view'[p] = view[p] /\ channel'[p] = channel[p]
    BY <1>3 DEF WatcherMoved
  <2> QED BY <1>1, <1>2, <2>1, CareStays
<1>4. CASE p = o
  <2> DEFINE ch == channel[o]
  <2>1. CASE view[o].pc = "snapshot" /\ view'[o].pc = "opened" /\ channel'[o] = ch
    BY <1>1, <1>4, <2>1 DEF EndInv, EndOrFull, LeftOnlyFull, Attended, Watching, HasEnd
  <2>2. CASE /\ view[o].pc = "opened" /\ view'[o].pc = "following"
             /\ IsActive(view[o].task) /\ channel'[o] = ch
    <3>1. EndOrFull(o)
      BY DEF EndInv
    <3> QED BY <1>1, <1>2, <1>4, <2>2, <3>1 DEF EndOrFull, LeftOnlyFull, Attended, HasEnd
  <2>3. CASE view'[o].pc \in {"done", "left"}
    BY <1>4, <2>3 DEF EndOrFull, LeftOnlyFull, Attended, Watching
  <2>4. CASE /\ view[o].pc = "following" /\ view'[o].pc = "following"
             /\ ch # <<>> /\ ~ch[1].end /\ channel'[o] = Tail(ch)
    <3>1. HasEnd(ch) => HasEnd(Tail(ch))
      <4>1. Frame(0) \in Entry /\ ch \in Seq(Entry) /\ Len(ch) <= Cap
        BY Frames, WatcherFacts, ObserversAssumption
      <4> QED BY <2>4, <4>1, EndKept
    <3> HIDE DEF ch
    <3> QED BY <1>1, <1>2, <1>4, <2>4, <3>1 DEF EndOrFull, LeftOnlyFull, Attended, HasEnd, ch
  <2> QED BY <2>1, <2>2, <2>3, <2>4 DEF WatcherMoved
<1> QED BY <1>3, <1>4

LEMMA AttachCares ==
  ASSUME ObsInv, JobInv', EndInv, NEW p \in Watchers, NEW t \in Tasks, Attach(p, t),
         NEW o \in Watchers
  PROVE  EndOrFull(o)' /\ LeftOnlyFull(o)
<1>1. up /\ UNCHANGED <<jobVars, channel, up>>
  BY DEF Attach
<1>2. view'[p].pc # "following" /\ \A u \in Watchers \ {p} : view'[u] = view[u]
  BY AttachObs
<1>3. CASE o = p
  BY <1>1, <1>2, <1>3 DEF EndOrFull, LeftOnlyFull, Attended
<1>4. CASE o # p
  BY <1>1, <1>2, <1>4, CareStays DEF jobVars, IsActive
<1> QED BY <1>3, <1>4

LEMMA StepCares ==
  ASSUME ObsInv, JobInv, JobInv', EndInv, [ObserversNext]_obsVars, NEW o \in Watchers
  PROVE  EndOrFull(o)' /\ LeftOnlyFull(o)
<1>1. ASSUME UNCHANGED <<view, channel, up>>, \A t : IsActive(t) => IsActive(t)'
      PROVE  EndOrFull(o)' /\ LeftOnlyFull(o)
  BY <1>1, CareStays
<1>2. CASE UNCHANGED obsVars
  BY <1>1, <1>2 DEF obsVars, watchVars, jobVars, IsActive
<1>3. ASSUME NEW t \in Tasks, SaveTask(t) \/ SubmitTask(t)
      PROVE  EndOrFull(o)' /\ LeftOnlyFull(o)
  BY <1>1, <1>3 DEF SaveTask, SubmitTask, Submit, watchVars, jobVars, IsActive
<1>4. ASSUME NEW w \in Workers, TakeJob(w) \/ SaveStep(w)
      PROVE  EndOrFull(o)' /\ LeftOnlyFull(o)
  BY <1>1, <1>4, CareKept DEF TakeJob, SaveStep, watchVars, jobVars, IsActive
<1>5. ASSUME NEW w \in Workers, EmitFrame(w) \/ EndJob(w)
      PROVE  EndOrFull(o)' /\ LeftOnlyFull(o)
  BY <1>5, EmitCares, EndJobCares
<1>6. ASSUME NEW p \in Watchers, WatcherStep(p) \/ Detach(p)
      PROVE  EndOrFull(o)' /\ LeftOnlyFull(o)
  BY <1>6, WatcherStepMoves, WatcherCares
<1>7. ASSUME NEW p \in Watchers, NEW t \in Tasks, Attach(p, t)
      PROVE  EndOrFull(o)' /\ LeftOnlyFull(o)
  BY <1>7, AttachCares
<1> QED
  BY <1>2, <1>3, <1>4, <1>5, <1>6, <1>7, ShutdownCares DEF ObserversNext, WorkerStep

(* Whatever the size of a channel and however often tasks are retried, a   *)
(* watcher that has something to wait for is left without it only by a     *)
(* step that finds its channel full (the end marker that                   *)
(* _end_observer_streams drops): attaching, settling, crashing and         *)
(* shutdown() lose it in no other order.                                   *)
THEOREM LeftWaitingOnlyWhenFull == ObserversSpec => LostOnlyWhenFull
<1>1. ObserversInit => EndInv
  BY DEF ObserversInit, EndInv, EndOrFull
<1>2. ObsInv /\ JobInv /\ JobInv' /\ EndInv /\ [ObserversNext]_obsVars => EndInv'
  BY StepCares DEF EndInv
<1>3. ObsInv /\ JobInv /\ JobInv' /\ EndInv /\ [ObserversNext]_obsVars
      => [\A o \in Watchers :
            Attended(o) /\ ~Attended(o)' => Len(channel[o]) = Cap]_obsVars
  BY StepCares DEF LeftOnlyFull
<1>4. ObserversSpec => [](ObsInv /\ JobInv /\ EndInv)
  BY <1>1, <1>2, ObsInvariant, PTL DEF ObserversSpec
<1> QED BY <1>3, <1>4, PTL DEF ObserversSpec, LostOnlyWhenFull

-----------------------------------------------------------------------------
(* The last frame arrives. *)

(* A frame enters a channel without end markers. *)
LEMMA FrameEnters ==
  ASSUME NEW ch \in Seq(Entry), Len(ch) <= Cap, NEW pc, NEW seen,
         NEW m \in 0..MaxSteps, NEW n \in 0..MaxSteps, NEW over,
         ChannelOK(ch, pc, seen, m, FALSE)
  PROVE  ChannelOK(Push(ch, Frame(n)), pc, seen, n, over)
<1> DEFINE c == Push(ch, Frame(n))
<1>1. /\ Frame(n) \in Entry /\ Frame(n).n = n /\ ~Frame(n).end
  BY Frames
<1>2. /\ c \in Seq(Entry) /\ Len(c) \in 1..Cap /\ c[Len(c)] = Frame(n)
      /\ \E k \in {0, 1} : /\ Len(c) = Len(ch) + 1 - k
                           /\ \A i \in 1..Len(ch) - k : c[i] = ch[i + k]
  BY <1>1, Pushed
<1>3. \A i \in 1..Len(ch) : ~ch[i].end
  BY DEF ChannelOK
<1> HIDE DEF c
<1>4. Cap \in Nat /\ Len(ch) \in Nat /\ Len(c) \in Nat /\ Len(c) # 0
  BY <1>2, ObserversAssumption
<1>5. ASSUME NEW i \in 1..Len(c) PROVE ~c[i].end
  <2>1. CASE i = Len(c)
    BY <1>1, <1>2, <2>1
  <2>2. CASE i # Len(c)
    <3>1. PICK k \in {0, 1} : /\ Len(c) = Len(ch) + 1 - k
                              /\ \A j \in 1..Len(ch) - k : c[j] = ch[j + k]
      BY <1>2
    <3>2. i \in 1..Len(ch) - k /\ i + k \in 1..Len(ch)
      BY <1>4, <2>2, <3>1
    <3> QED BY <1>3, <3>1, <3>2
  <2> QED BY <2>1, <2>2
<1>6. \A i \in 1..Len(c) : i = Len(c) \/ (i + 1 \in 1..Len(c) /\ ~c[i + 1].end)
  BY <1>4, <1>5
<1>7. c # <<>> /\ ~c[1].end
  <2>1. 1 \in 1..Len(c)
    BY <1>4
  <2> QED BY <1>4, <1>5, <2>1
<1>8. ChannelOK(c, pc, seen, n, over)
  BY <1>1, <1>2, <1>5, <1>6, <1>7 DEF ChannelOK
<1> QED BY <1>8 DEF c

(* The end marker enters, once the task is over, if there is room. *)
LEMMA MarkerEnters ==
  ASSUME NEW ch \in Seq(Entry), Len(ch) <= Cap, NEW pc, NEW seen,
         NEW n \in 0..MaxSteps, NEW over, ChannelOK(ch, pc, seen, n, over)
  PROVE  ChannelOK(PushEnd(ch, EndOfStream(n)), pc, seen, n, TRUE)
<1> DEFINE x == EndOfStream(n)  c == Append(ch, x)
<1>1. x \in Entry /\ x.n = n /\ x.end
  BY Frames
<1>2. ChannelOK(ch, pc, seen, n, TRUE)
  BY DEF ChannelOK
<1> HIDE DEF x
<1>3. /\ Len(ch) \in Nat /\ Len(c) = Len(ch) + 1 /\ c[Len(c)] = x
      /\ \A i \in 1..Len(ch) : c[i] = ch[i]
  BY <1>1
<1>4. Len(ch) = 0 <=> ch = <<>>
  OBVIOUS
<1> HIDE DEF c
<1>5. \A i \in 1..Len(c) : i \in 1..Len(ch) \/ i = Len(c)
  BY <1>3
<1>6. \A i \in 1..Len(c) : c[i].end => c[i].n = n
  BY <1>1, <1>2, <1>3, <1>5 DEF ChannelOK
<1>7. \A i, j \in 1..Len(c) : i < j /\ c[i].end => c[j].end
  <2> SUFFICES ASSUME NEW i \in 1..Len(c), NEW j \in 1..Len(c), i < j, c[i].end PROVE c[j].end
    OBVIOUS
  <2>1. CASE j = Len(c)
    BY <1>1, <1>3, <2>1
  <2>2. CASE j # Len(c)
    <3>1. j \in 1..Len(ch) /\ i \in 1..Len(ch)
      BY <1>3, <2>2
    <3> QED BY <1>2, <1>3, <3>1 DEF ChannelOK
  <2> QED BY <2>1, <2>2
<1>8. ASSUME NEW i \in 1..Len(c), ~c[i].end, i = Len(c) \/ c[i + 1].end
      PROVE  c[i].n = n
  <2>1. i \in 1..Len(ch) /\ i # Len(c)
    BY <1>1, <1>3, <1>5, <1>8
  <2>2. CASE i = Len(ch)
    BY <1>2, <1>3, <1>8, <2>1, <2>2 DEF ChannelOK
  <2>3. CASE i # Len(ch)
    <3>1. i + 1 \in 1..Len(ch)
      BY <1>3, <2>1, <2>3
    <3> QED BY <1>2, <1>3, <1>8, <2>1, <3>1 DEF ChannelOK
  <2> QED BY <2>2, <2>3
<1>9. c[1].end => pc = "snapshot" \/ seen >= n
  <2>1. CASE ch = <<>>
    BY <1>2, <2>1 DEF ChannelOK
  <2>2. CASE ch # <<>>
    <3>1. 1 \in 1..Len(ch)
      BY <1>3, <1>4, <2>2
    <3> QED BY <1>2, <1>3, <3>1 DEF ChannelOK
  <2> QED BY <2>1, <2>2
<1>10. c # <<>>
  <2>1. Len(c) # 0
    BY <1>3
  <2> QED BY <2>1
<1>11. ChannelOK(c, pc, seen, n, TRUE)
  BY <1>6, <1>7, <1>8, <1>9, <1>10 DEF ChannelOK
<1>12. PushEnd(ch, EndOfStream(n)) \in {ch, c}
  BY <1>1, EndPushed DEF c, x
<1> QED BY <1>2, <1>11, <1>12

(* A frame leaves, and is seen. *)
LEMMA FrameLeaves ==
  ASSUME NEW ch \in Seq(Entry), ch # <<>>, ~ch[1].end, NEW pc, NEW pc2, NEW seen,
         NEW n \in 0..MaxSteps, NEW over, ChannelOK(ch, pc, seen, n, over)
  PROVE  ChannelOK(Tail(ch), pc2, ch[1].n, n, over)
<1> DEFINE c == Tail(ch)
<1>0. /\ Len(ch) \in Nat /\ Len(ch) # 0 /\ c \in Seq(Entry) /\ Len(c) = Len(ch) - 1
  OBVIOUS
<1>1. /\ Len(ch) \in Nat \ {0} /\ Len(c) = Len(ch) - 1
      /\ \A i \in 1..Len(c) : c[i] = ch[i + 1]
      /\ c = <<>> <=> Len(c) = 0
  <2>1. \A i \in 1..Len(c) : c[i] = ch[i + 1]
    BY <1>0
  <2>2. c = <<>> <=> Len(c) = 0
    BY <1>0
  <2> QED BY <1>0, <2>1, <2>2
<1>2. 1 \in 1..Len(ch)
  BY <1>1
<1> HIDE DEF c
<1>3. \A i \in 1..Len(c) : i + 1 \in 1..Len(ch)
  BY <1>1
<1>4. \A i \in 1..Len(c) : c[i].end => c[i].n = n /\ over
  BY <1>1, <1>3 DEF ChannelOK
<1>5. ASSUME NEW i \in 1..Len(c), NEW j \in 1..Len(c), i < j, c[i].end
      PROVE  c[j].end
  <2>1. i + 1 \in 1..Len(ch) /\ j + 1 \in 1..Len(ch) /\ i + 1 < j + 1
    BY <1>1, <1>3, <1>5
  <2>2. ch[i + 1].end
    BY <1>1, <1>5
  <2>3. ch[j + 1].end
    BY <2>1, <2>2 DEF ChannelOK
  <2> QED BY <1>1, <2>3
<1>6. ASSUME NEW i \in 1..Len(c), ~c[i].end, i = Len(c) \/ c[i + 1].end
      PROVE  c[i].n = n
  <2>1. i + 1 \in 1..Len(ch) /\ c[i] = ch[i + 1]
    BY <1>1, <1>3
  <2>2. CASE i = Len(c)
    BY <1>1, <1>6, <2>1, <2>2 DEF ChannelOK
  <2>3. CASE i # Len(c)
    <3>1. i + 1 \in 1..Len(c) /\ c[i + 1] = ch[(i + 1) + 1]
      BY <1>1, <2>3
    <3> QED BY <1>6, <2>1, <2>3, <3>1 DEF ChannelOK
  <2> QED BY <2>2, <2>3
<1>7. c = <<>> \/ c[1].end => ch[1].n = n
  <2>1. CASE c = <<>>
    BY <1>1, <1>2, <2>1 DEF ChannelOK
  <2>2. CASE c # <<>> /\ c[1].end
    <3>1. c[1] = ch[1 + 1]
      BY <1>1, <2>2
    <3> QED BY <1>2, <2>2, <3>1 DEF ChannelOK
  <2> QED BY <2>1, <2>2
<1>8. ChannelOK(c, pc2, ch[1].n, n, over)
  BY <1>4, <1>5, <1>6, <1>7 DEF ChannelOK
<1> QED BY <1>8 DEF c

(* Where nobody retries, what is over stays over. *)
LEMMA OverStays ==
  ASSUME ~Retries, ObsInv, JobInv, [ObserversNext]_obsVars, NEW t \in Tasks, Over(t)
  PROVE  Over(t)'
<1>1. CASE UNCHANGED obsVars
  BY <1>1 DEF obsVars, jobVars, Over, IsActive
<1>2. ASSUME NEW u \in Tasks, SaveTask(u) PROVE Over(t)'
  <2>1. u # t
    BY <1>2 DEF SaveTask, Over
  <2> QED BY <1>2, <2>1 DEF SaveTask, Over, jobVars, IsActive, ObsInv, ObserversTypeOK
<1>3. ASSUME NEW u \in Tasks, SubmitTask(u) PROVE Over(t)'
  <2>1. u # t
    BY <1>3, CountFacts DEF SubmitTask, Over
  <2> QED BY <1>3, <2>1 DEF SubmitTask, Submit, Over, IsActive
<1>4. ASSUME NEW w \in Workers, TakeJob(w) PROVE Over(t)'
  <2>1. IsActive(t)' <=> IsActive(t)
    BY <1>4, CareKept DEF TakeJob
  <2> QED BY <1>4, <2>1 DEF TakeJob, Over
<1>5. ASSUME NEW w \in Workers, SaveStep(w) PROVE Over(t)'
  <2>1. job[w].task # t /\ job[w].task \in Tasks
    BY <1>5, CareEnds DEF SaveStep, Over
  <2> QED BY <1>5, <2>1 DEF SaveStep, Over, jobVars, IsActive, ObsInv, ObserversTypeOK
<1>6. ASSUME NEW w \in Workers, EmitFrame(w) PROVE Over(t)'
  BY <1>6 DEF EmitFrame, Over, jobVars, IsActive
<1>7. ASSUME NEW w \in Workers, EndJob(w) PROVE Over(t)'
  <2>1. job[w].task # t /\ job[w].task \in Tasks
    BY <1>7, CareEnds DEF EndJob, Finish, Over
  <2>2. IsActive(t)' <=> IsActive(t)
    BY <1>7, <2>1, CareEnds DEF EndJob, Finish
  <2> QED BY <1>7, <2>1, <2>2 DEF EndJob, Over, ObsInv, ObserversTypeOK
<1>8. ASSUME NEW o \in Watchers, WatcherStep(o) \/ Detach(o) PROVE Over(t)'
  BY <1>8, WatcherStepMoves DEF WatcherMoved, Over, jobVars, IsActive
<1>9. ASSUME NEW o \in Watchers, NEW u \in Tasks, Attach(o, u) PROVE Over(t)'
  BY <1>9 DEF Attach, Over, jobVars, IsActive
<1>10. CASE Shutdown
  BY <1>10 DEF Shutdown, Over
<1> QED
  BY <1>1, <1>2, <1>3, <1>4, <1>5, <1>6, <1>7, <1>8, <1>9, <1>10 DEF ObserversNext, WorkerStep

(* The channel of a watcher in a step that leaves it and its frame alone. *)
LEMMA LastStays ==
  ASSUME LastInv, NEW o \in Watchers, NEW t \in Tasks, Watching(o)', view'[o].task = t,
         view'[o] = view[o], channel'[o] = channel[o], latest'[t] = latest[t],
         Over(t) => Over(t)'
  PROVE  LastOK(o, t)'
<1>1. ChannelOK(channel[o], view[o].pc, view[o].seen, latest[t], Over(t))
  BY DEF LastInv, LastOK, Watching
<1> QED BY <1>1 DEF ChannelOK, LastOK

LEMMA LastEmit ==
  ASSUME ObsInv, JobInv, LastInv, NEW w \in Workers, EmitFrame(w)
  PROVE  LastInv'
<1> SUFFICES ASSUME NEW o \in Watchers, NEW u \in Tasks, Watching(o)', view'[o].task = u
             PROVE  LastOK(o, u)'
  BY DEF LastInv
<1> DEFINE t == job[w].task  ch == channel[o]
<1>1. /\ up /\ t # None /\ latest' = [latest EXCEPT ![t] = saved[t]]
      /\ Broadcast(t, saved[t]) /\ UNCHANGED <<jobVars, saved, ended, view, up>>
  BY DEF EmitFrame
<1>2. t \in Tasks /\ IsActive(t)
  BY <1>1, CareEnds
<1>3. Watching(o) /\ view[o].task = u /\ view'[o] = view[o]
  BY <1>1 DEF Watching
<1>4. ChannelOK(ch, view[o].pc, view[o].seen, latest[u], Over(u))
  BY <1>3 DEF LastInv, LastOK
<1>5. channel'[o] = IF u = t THEN Push(ch, Frame(saved[t])) ELSE ch
  BY <1>1, <1>3 DEF Broadcast
<1>6. CASE u # t
  <2>1. latest'[u] = latest[u]
    BY <1>1, <1>2, <1>6 DEF ObsInv, ObserversTypeOK
  <2>2. Over(u) => Over(u)'
    BY <1>1 DEF Over, jobVars, IsActive
  <2> QED BY <1>3, <1>5, <1>6, <2>1, <2>2, LastStays
<1>7. CASE u = t
  <2>1. ~Over(u)
    BY <1>1, <1>2, <1>7 DEF Over
  <2>2. ChannelOK(ch, view[o].pc, view[o].seen, latest[u], FALSE)
    BY <1>4, <2>1 DEF ChannelOK
  <2>3. /\ ch \in Seq(Entry) /\ Len(ch) <= Cap
        /\ latest[u] \in 0..MaxSteps /\ saved[u] \in 0..MaxSteps
    BY WatcherFacts, CountFacts, ObserversAssumption
  <2>4. latest'[u] = saved[u]
    BY <1>1, <1>2, <1>7 DEF ObsInv, ObserversTypeOK
  <2> HIDE DEF ch, t
  <2>5. ChannelOK(Push(ch, Frame(saved[u])), view[o].pc, view[o].seen, saved[u], Over(u)')
    BY <2>2, <2>3, FrameEnters
  <2>6. channel'[o] = Push(ch, Frame(saved[u]))
    BY <1>5, <1>7
  <2> QED BY <1>3, <2>4, <2>5, <2>6 DEF LastOK
<1> QED BY <1>6, <1>7

LEMMA LastEnd ==
  ASSUME ObsInv, LastInv, NEW ts \in SUBSET Tasks, EndStreams(ts),
         UNCHANGED <<latest, view>>,
         \A t \in Tasks : Over(t) => Over(t)', \A t \in ts : Over(t)'
  PROVE  LastInv'
<1> SUFFICES ASSUME NEW o \in Watchers, NEW u \in Tasks, Watching(o)', view'[o].task = u
             PROVE  LastOK(o, u)'
  BY DEF LastInv
<1> DEFINE ch == channel[o]
<1>1. Watching(o) /\ view[o].task = u /\ view'[o] = view[o] /\ latest'[u] = latest[u]
  BY DEF Watching
<1>2. ChannelOK(ch, view[o].pc, view[o].seen, latest[u], Over(u))
  BY <1>1 DEF LastInv, LastOK
<1>3. channel'[o] = IF u \in ts THEN PushEnd(ch, EndOfStream(latest[u])) ELSE ch
  BY <1>1 DEF EndStreams
<1>4. CASE u \notin ts
  BY <1>1, <1>3, <1>4, LastStays
<1>5. CASE u \in ts
  <2>1. ch \in Seq(Entry) /\ Len(ch) <= Cap /\ latest[u] \in 0..MaxSteps
    BY WatcherFacts, CountFacts, ObserversAssumption
  <2> HIDE DEF ch
  <2>2. ChannelOK(PushEnd(ch, EndOfStream(latest[u])), view[o].pc, view[o].seen, latest[u], TRUE)
    BY <1>2, <2>1, MarkerEnters
  <2>3. Over(u)' /\ channel'[o] = PushEnd(ch, EndOfStream(latest[u]))
    BY <1>3, <1>5
  <2> QED BY <1>1, <2>2, <2>3 DEF ChannelOK, LastOK
<1> QED BY <1>4, <1>5

LEMMA LastWatcher ==
  ASSUME ObsInv, LastInv, NEW o \in Watchers, WatcherMoved(o)
  PROVE  LastInv'
<1> SUFFICES ASSUME NEW p \in Watchers, NEW u \in Tasks, Watching(p)', view'[p].task = u
             PROVE  LastOK(p, u)'
  BY DEF LastInv
<1>1. UNCHANGED <<jobVars, saved, latest, ended, up>>
  BY DEF WatcherMoved
<1>2. Over(u) <=> Over(u)'
  BY <1>1 DEF Over, jobVars, IsActive
<1>3. CASE p # o
  <2>1. view'[p] = view[p] /\ channel'[p] = channel[p]
    BY <1>3 DEF WatcherMoved
  <2> QED BY <1>1, <1>2, <2>1, LastStays
<1>4. CASE p = o
  <2> DEFINE ch == channel[o]  n == latest[u]
  <2>1. Watching(o) /\ view[o].task = u
    BY <1>4 DEF WatcherMoved
  <2>2. ChannelOK(ch, view[o].pc, view[o].seen, n, Over(u))
    BY <2>1 DEF LastInv, LastOK
  <2>3. ch \in Seq(Entry) /\ n \in 0..MaxSteps /\ saved[u] \in 0..MaxSteps /\ n <= saved[u]
    BY WatcherFacts, CountFacts
  <2> SUFFICES ChannelOK(channel'[o], view'[o].pc, view'[o].seen, n, Over(u)')
    BY <1>1, <1>4 DEF LastOK
  <2> HIDE DEF ch, n
  <2>4. CASE view'[o].seen = saved[u] /\ channel'[o] = ch
    BY <1>2, <2>2, <2>3, <2>4 DEF ChannelOK
  <2>5. CASE view[o].pc = "opened" /\ view'[o].seen = view[o].seen /\ channel'[o] = ch
    BY <1>2, <2>2, <2>5 DEF ChannelOK
  <2>6. CASE /\ ch # <<>> /\ ~ch[1].end
             /\ view'[o].seen = ch[1].n /\ channel'[o] = Tail(ch)
    <3>1. ChannelOK(Tail(ch), view'[o].pc, ch[1].n, n, Over(u))
      BY <2>2, <2>3, <2>6, FrameLeaves
    <3> QED BY <1>2, <2>6, <3>1 DEF ChannelOK
  <2>7. view'[o].pc \notin {"done", "left"}
    BY <1>4 DEF Watching
  <2> QED BY <2>1, <2>4, <2>5, <2>6, <2>7 DEF WatcherMoved, ch
<1> QED BY <1>3, <1>4

LEMMA LastAttach ==
  ASSUME ObsInv, JobInv', LastInv, NEW p \in Watchers, NEW t \in Tasks, Attach(p, t)
  PROVE  LastInv'
<1> SUFFICES ASSUME NEW o \in Watchers, NEW u \in Tasks, Watching(o)', view'[o].task = u
             PROVE  LastOK(o, u)'
  BY DEF LastInv
<1>1. UNCHANGED <<jobVars, saved, latest, ended, channel, up>>
  BY DEF Attach
<1>2. /\ channel[p] = <<>> /\ view'[p].task = t /\ view'[p].seen = latest[t]
      /\ \A v \in Watchers \ {p} : view'[v] = view[v]
  BY AttachObs
<1>3. CASE o = p
  <2>1. latest[t] \in Nat /\ Len(channel[p]) = 0
    BY <1>2, CountFacts
  <2> QED BY <1>1, <1>2, <1>3, <2>1 DEF ChannelOK, LastOK
<1>4. CASE o # p
  <2>1. Over(u) => Over(u)'
    BY <1>1 DEF Over, jobVars, IsActive
  <2> QED BY <1>1, <1>2, <1>4, <2>1, LastStays
<1> QED BY <1>3, <1>4

LEMMA LastStep ==
  ASSUME ~Retries, ObsInv, JobInv, JobInv', LastInv, [ObserversNext]_obsVars
  PROVE  LastInv'
<1>0. \A t \in Tasks : Over(t) => Over(t)'
  BY OverStays
<1>1. ASSUME UNCHANGED <<latest, view, channel>> PROVE LastInv'
  BY <1>0, <1>1, LastStays DEF LastInv
<1>2. ASSUME NEW t \in Tasks, SaveTask(t) \/ SubmitTask(t) PROVE LastInv'
  BY <1>1, <1>2 DEF SaveTask, SubmitTask, watchVars
<1>3. ASSUME NEW w \in Workers, TakeJob(w) \/ SaveStep(w) PROVE LastInv'
  BY <1>1, <1>3 DEF TakeJob, SaveStep, watchVars
<1>4. ASSUME NEW w \in Workers, EmitFrame(w) PROVE LastInv'
  BY <1>4, LastEmit
<1>5. ASSUME NEW w \in Workers, EndJob(w) PROVE LastInv'
  <2> SUFFICES ASSUME NEW t \in Tasks, t = job[w].task PROVE LastInv'
    BY <1>5, CareEnds DEF EndJob, Finish
  <2>1. /\ t # None /\ ended' = [ended EXCEPT ![t] = saved[t]] /\ EndStreams({t})
        /\ Finish(w) /\ UNCHANGED <<saved, latest, view>>
    BY <1>5 DEF EndJob, Finish
  <2>2. IsActive(t) /\ ~IsActive(t)'
    BY <2>1, CareEnds
  <2>3. saved[t] # 0 /\ ended'[t] = saved[t]
    <3>1. saved[t] \in Nat /\ ended[t] \in Nat /\ ended[t] < saved[t]
      BY <2>2, CountFacts
    <3>2. ended \in [Tasks -> 0..MaxSteps]
      BY DEF ObsInv, ObserversTypeOK
    <3> QED BY <2>1, <3>1, <3>2
  <2>4. Over(t)'
    BY <2>1, <2>2, <2>3 DEF Over
  <2> QED BY <1>0, <2>1, <2>4, LastEnd
<1>6. ASSUME NEW o \in Watchers, WatcherStep(o) \/ Detach(o) PROVE LastInv'
  BY <1>6, WatcherStepMoves, LastWatcher
<1>7. ASSUME NEW o \in Watchers, NEW t \in Tasks, Attach(o, t) PROVE LastInv'
  BY <1>7, LastAttach
<1>8. CASE Shutdown
  <2>1. ~up' /\ EndStreams(Tasks) /\ UNCHANGED <<latest, view>>
    BY <1>8 DEF Shutdown
  <2>2. \A t \in Tasks : Over(t)'
    BY <2>1 DEF Over
  <2> QED BY <1>0, <2>1, <2>2, LastEnd
<1>9. CASE UNCHANGED obsVars
  BY <1>1, <1>9 DEF obsVars, watchVars
<1> QED
  BY <1>2, <1>3, <1>4, <1>5, <1>6, <1>7, <1>8, <1>9 DEF ObserversNext, WorkerStep

(* A stream that ends has delivered the last frame broadcast before its    *)
(* end marker, whatever the size of the channel and however far the        *)
(* watcher lagged, where no task runs twice (_broadcast drops the oldest   *)
(* frame, not the newest).                                                 *)
THEOREM LastFrameArrives ==
  ASSUME ~Retries
  PROVE  ObserversSpec => LastFrameDelivered
<1>1. ObserversInit => LastInv
  BY DEF ObserversInit, LastInv, Watching, NoView
<1>2. ObsInv /\ JobInv /\ JobInv' /\ LastInv /\ [ObserversNext]_obsVars => LastInv'
  BY LastStep
<1>3. ObsInv /\ LastInv =>
        \A o \in Watchers : ReceiveEnd(o) => view[o].seen >= Head(channel[o]).n
  <2> SUFFICES ASSUME ObsInv, LastInv, NEW o \in Watchers, ReceiveEnd(o)
               PROVE  view[o].seen >= Head(channel[o]).n
    OBVIOUS
  <2>1. /\ view[o].pc = "following" /\ channel[o] # <<>> /\ Head(channel[o]).end
        /\ channel[o] \in Seq(Entry) /\ Watching(o) /\ view[o].task \in Tasks
    BY WatcherFacts DEF ReceiveEnd, Watching
  <2>2. Head(channel[o]) = channel[o][1] /\ 1 \in 1..Len(channel[o])
    BY <2>1
  <2>3. ChannelOK(channel[o], view[o].pc, view[o].seen, latest[view[o].task],
                  Over(view[o].task))
    BY <2>1 DEF LastInv, LastOK
  <2> QED BY <2>1, <2>2, <2>3 DEF ChannelOK
<1>4. ObserversSpec => [](ObsInv /\ JobInv /\ LastInv)
  BY <1>1, <1>2, ObsInvariant, PTL DEF ObserversSpec
<1> QED BY <1>3, <1>4, PTL DEF LastFrameDelivered
=============================================================================
