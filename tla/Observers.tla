----------------------------- MODULE Observers -----------------------------
(***************************************************************************)
(* The notification half of TaskRunner (platform/jobs/task_runner.py): the *)
(* latest frame of every task, one bounded channel per watching client,    *)
(* the broadcast that never blocks the job, and the end-of-stream marker   *)
(* that releases the watchers (observe, _broadcast, _end_observer_streams, *)
(* shutdown) on top of JobQueue.                                           *)
(*                                                                         *)
(* A task's history is a count: every notable step of a run saves the next *)
(* number in the document and then yields it as a frame.  A frame is that  *)
(* number; the end marker carries the last number broadcast before it, for *)
(* the properties only.                                                    *)
(***************************************************************************)
EXTENDS JobQueue

CONSTANTS
  Watchers,  \* subscriptions, each of them one call of observe()
  Cap,       \* maxsize of a channel
  Retries,   \* may a task run again after it has ended?
  MaxSteps   \* bound: notable steps of a task over all its runs

ASSUME ObserversAssumption ==
  /\ Cap \in Nat \ {0}
  /\ Retries \in BOOLEAN
  /\ MaxSteps \in Nat

VARIABLES
  saved,    \* the step each task's document shows
  latest,   \* _latest_progress; 0: no frame held
  ended,    \* the step each task's previous run ended with
  view,     \* each observe(): where it is, its task, the last frame yielded
  channel,  \* each observe()'s channel
  up        \* FALSE once shutdown() has been called

watchVars == <<view, channel>>
obsVars == <<jobVars, saved, latest, ended, watchVars, up>>

Frame(n) == [end |-> FALSE, n |-> n]
EndOfStream(n) == [end |-> TRUE, n |-> n]

NoView == [pc |-> "off", task |-> None, seen |-> 0]
Watching(o) == view[o].pc \in {"snapshot", "opened", "following"}

ObserversInit ==
  /\ JobInit
  /\ saved = [t \in Tasks |-> 0]
  /\ latest = [t \in Tasks |-> 0]
  /\ ended = [t \in Tasks |-> 0]
  /\ view = [o \in Watchers |-> NoView]
  /\ channel = [o \in Watchers |-> <<>>]
  /\ up = TRUE

(* Bugs: nothing is dropped; the new frame is dropped, not the oldest. *)
Push_Unbounded(ch, x) == Append(ch, x)
Push_DropsNewest(ch, x) == IF Len(ch) >= Cap THEN ch ELSE Append(ch, x)

(* What a put does to a channel: a frame pushes the oldest entry out of a  *)
(* full one, the end marker is suppressed there.                           *)
Push(ch, x) == Append(IF Len(ch) >= Cap THEN Tail(ch) ELSE ch, x)
PushEnd(ch, x) == IF Len(ch) >= Cap THEN ch ELSE Append(ch, x)

(* _broadcast: every watcher of t. *)
Broadcast(t, n) ==
  channel' = [o \in Watchers |->
    IF Watching(o) /\ view[o].task = t THEN Push(channel[o], Frame(n))
    ELSE channel[o]]

(* _end_observer_streams for the tasks in ts. *)
EndStreams(ts) ==
  channel' = [o \in Watchers |->
    IF Watching(o) /\ view[o].task \in ts
    THEN PushEnd(channel[o], EndOfStream(latest[view[o].task]))
    ELSE channel[o]]

-----------------------------------------------------------------------------
(* A request saves the document: it creates the task, or puts it back.     *)
SaveTask(t) ==
  /\ up
  /\ saved[t] = 0 \/ Retries
  /\ saved[t] < MaxSteps
  /\ saved' = [saved EXCEPT ![t] = @ + 1]
  /\ UNCHANGED <<jobVars, latest, ended, watchVars, up>>

(* It then submits the task. *)
SubmitTask(t) ==
  /\ up
  /\ saved[t] > ended[t]
  /\ \E s \in Phase : Submit(t, s)
  /\ UNCHANGED <<saved, latest, ended, watchVars, up>>

(* _worker picks up a job. *)
TakeJob(w) ==
  /\ up
  /\ Take(w)
  /\ UNCHANGED <<saved, latest, ended, watchVars, up>>

(* The state machine saves a step of its task ... *)
SaveStep(w) ==
  LET t == job[w].task IN
  /\ up
  /\ t # None
  /\ saved[t] < MaxSteps
  /\ saved' = [saved EXCEPT ![t] = @ + 1]
  /\ UNCHANGED <<jobVars, latest, ended, watchVars, up>>

(* ... and yields it: _run_and_broadcast. *)
EmitFrame(w) ==
  LET t == job[w].task IN
  /\ up
  /\ t # None
  /\ latest[t] < saved[t]
  /\ latest' = [latest EXCEPT ![t] = saved[t]]
  /\ Broadcast(t, saved[t])
  /\ UNCHANGED <<jobVars, saved, ended, view, up>>

(* Bug: only the worker's own bookkeeping is done. *)
EndJob_Silent(w) ==
  /\ up
  /\ Finish(w)
  /\ ended' = [ended EXCEPT ![job[w].task] = saved[job[w].task]]
  /\ UNCHANGED <<saved, latest, watchVars, up>>

(* _worker's finally clause, after a run that returned or raised. *)
EndJob(w) ==
  /\ up
  /\ Finish(w)
  /\ ended' = [ended EXCEPT ![job[w].task] = saved[job[w].task]]
  /\ EndStreams({job[w].task})
  /\ UNCHANGED <<saved, latest, view, up>>

(* Bug: the watchers of the tasks that are only queued are forgotten. *)
Shutdown_RunningOnly ==
  /\ up
  /\ up' = FALSE
  /\ Stop
  /\ EndStreams(running)
  /\ UNCHANGED <<saved, latest, ended, view>>

(* shutdown(): the workers are cancelled, each through its finally clause, *)
(* and the remaining streams are ended.  Queued jobs stay where they are.  *)
Shutdown ==
  /\ up
  /\ up' = FALSE
  /\ Stop
  /\ EndStreams(Tasks)
  /\ UNCHANGED <<saved, latest, ended, view>>

-----------------------------------------------------------------------------
(* observe(): the channel is registered, and the frame held is yielded if  *)
(* there is one.  Else the document is asked.  No client attaches once the *)
(* lifespan is shutting down.                                              *)
Attach(o, t) ==
  /\ up
  /\ view[o] = NoView
  /\ view' = [view EXCEPT ![o] =
       [pc |-> IF latest[t] = 0 THEN "snapshot" ELSE "opened",
        task |-> t, seen |-> latest[t]]]
  /\ UNCHANGED <<jobVars, saved, latest, ended, channel, up>>

(* build_snapshot replies. *)
Snapshot(o) ==
  /\ view[o].pc = "snapshot"
  /\ view' = [view EXCEPT ![o].pc = "opened", ![o].seen = saved[view[o].task]]
  /\ UNCHANGED <<jobVars, saved, latest, ended, channel, up>>

Unregister(o, pc) ==
  /\ view' = [view EXCEPT ![o].pc = pc]
  /\ channel' = [channel EXCEPT ![o] = <<>>]

(* The client has taken the opening frame: is there anything to wait for?  *)
CheckActive(o) ==
  /\ view[o].pc = "opened"
  /\ IF IsActive(view[o].task)
     THEN view' = [view EXCEPT ![o].pc = "following"] /\ UNCHANGED channel
     ELSE Unregister(o, "done")
  /\ UNCHANGED <<jobVars, saved, latest, ended, up>>

ReceiveFrame(o) ==
  /\ view[o].pc = "following"
  /\ channel[o] # <<>> /\ ~Head(channel[o]).end
  /\ view' = [view EXCEPT ![o].seen = Head(channel[o]).n]
  /\ channel' = [channel EXCEPT ![o] = Tail(@)]
  /\ UNCHANGED <<jobVars, saved, latest, ended, up>>

ReceiveEnd(o) ==
  /\ view[o].pc = "following"
  /\ channel[o] # <<>> /\ Head(channel[o]).end
  /\ Unregister(o, "done")
  /\ UNCHANGED <<jobVars, saved, latest, ended, up>>

(* The client goes away, at any await or yield. *)
Detach(o) ==
  /\ Watching(o)
  /\ Unregister(o, "left")
  /\ UNCHANGED <<jobVars, saved, latest, ended, up>>

-----------------------------------------------------------------------------
WorkerStep(w) == TakeJob(w) \/ SaveStep(w) \/ EmitFrame(w) \/ EndJob(w)
WatcherStep(o) ==
  Snapshot(o) \/ CheckActive(o) \/ ReceiveFrame(o) \/ ReceiveEnd(o)

ObserversNext ==
  \/ \E t \in Tasks : SaveTask(t) \/ SubmitTask(t)
  \/ \E w \in Workers : WorkerStep(w)
  \/ \E o \in Watchers : WatcherStep(o) \/ Detach(o)
  \/ \E o \in Watchers, t \in Tasks : Attach(o, t)
  \/ Shutdown

ObserversSpec == ObserversInit /\ [][ObserversNext]_obsVars

(* The event loop runs what is ready, and a client that stays reads on.    *)
ObserversFairSpec ==
  /\ ObserversSpec
  /\ \A w \in Workers : WF_obsVars(TakeJob(w)) /\ WF_obsVars(EndJob(w))
  /\ \A o \in Watchers : WF_obsVars(WatcherStep(o))

-----------------------------------------------------------------------------
(* The type invariant of the runner and its watchers. *)
ObserversTypeOK ==
  /\ JobTypeOK
  /\ saved \in [Tasks -> 0..MaxSteps]
  /\ latest \in [Tasks -> 0..MaxSteps]
  /\ ended \in [Tasks -> 0..MaxSteps]
  /\ view \in [Watchers -> [pc : {"off", "snapshot", "opened", "following",
                                  "done", "left"},
                            task : Tasks \cup {None}, seen : 0..MaxSteps]]
  /\ channel \in [Watchers -> Seq([end : BOOLEAN, n : 0..MaxSteps])]
  /\ \A o \in Watchers : Len(channel[o]) <= Cap
  /\ up \in BOOLEAN

(* A watcher that waits on its channel has something to wait for: the task *)
(* is still under the runner's care, or the end marker is in the channel.  *)
Attended(o) ==
  view[o].pc = "following" =>
    \/ up /\ IsActive(view[o].task)
    \/ \E i \in DOMAIN channel[o] : channel[o][i].end

(* No watcher waits for nothing (the registration before the liveness      *)
(* check in observe, the marker in the finally clause of _worker and in    *)
(* shutdown).                                                              *)
NeverLeftWaiting == \A o \in Watchers : Attended(o)

(* A watcher is left waiting for nothing only if its channel is full: no   *)
(* race of attaching, settling, retrying and shutdown() loses the end      *)
(* marker otherwise (_end_observer_streams suppresses QueueFull).          *)
LostOnlyWhenFull ==
  [][\A o \in Watchers :
       Attended(o) /\ ~Attended(o)' => Len(channel[o]) = Cap]_obsVars

(* Dropping the oldest frame of a full channel never costs a watcher the   *)
(* newest one: when its stream ends normally it has been given a frame as  *)
(* recent as the last one broadcast before the end marker (_broadcast).    *)
LastFrameDelivered ==
  [][\A o \in Watchers :
       ReceiveEnd(o) => view[o].seen >= Head(channel[o]).n]_obsVars

(* Every stream ends: the task settles, the process stops, or the client   *)
(* leaves.                                                                 *)
StreamsEnd == \A o \in Watchers : Watching(o) ~> ~Watching(o)
=============================================================================
