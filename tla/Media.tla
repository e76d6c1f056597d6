------------------------------- MODULE Media -------------------------------
(***************************************************************************)
(* ffmpeg_service.py and its callers in playback: the semaphore over the   *)
(* ffmpeg and ffprobe processes, the life of a process, and the requests   *)
(* for one video's thumbnail.                                              *)
(*                                                                         *)
(* asyncio's Semaphore, the processes and the web server that cancels a    *)
(* response whose client leaves are external.  A step is what a coroutine  *)
(* does between two awaits.                                                *)
(***************************************************************************)
EXTENDS Transfer, FiniteSets

CONSTANTS Limit     \* processes at a time: semaphore_limit, or half the CPUs

ASSUME MediaAssumption == Limit \in Nat \ {0} /\ IsFiniteSet(Requests)

VARIABLES free,     \* permits nobody has
          queue,    \* requests waiting for one, in order
          job,      \* per request, where its coroutine is and what it runs
          thumb     \* the record has the key made of the video's id; there is a
                    \* picture under it

mediaVars == <<free, queue, job, thumb>>

(* A job that has not run yet: where its coroutine is, whether ffmpeg can  *)
(* open the file itself, which attempt at a picture this is, its process,  *)
(* whether the response was cancelled, and where its client left it.       *)
NewJob(op, tries) == [op |-> op, pc |-> "new", direct |-> TRUE, tries |-> tries,
                      proc |-> "none", cut |-> FALSE, left |-> "no"]

Idle == NewJob("none", 0)

(* Where a coroutine is while it has a permit. *)
HoldingPcs == {"granted", "starting", "feeding", "talking", "reading", "yielded", "closing"}

Holders == {r \in Requests : job[r].pc \in HoldingPcs}

Stuck(r) == job[r].proc = "stuck"

(* A process that was told to end. *)
Killed(r) == job[r].op = "transcode" /\ job[r].pc \in {"closing", "done"}

MediaInit ==
    /\ free = Limit
    /\ queue = <<>>
    /\ job = [r \in Requests |-> Idle]
    /\ thumb = [key |-> FALSE, stored |-> FALSE]

-----------------------------------------------------------------------------
(* Semaphore.acquire by a job that goes on as j: at once where a permit is *)
(* free and nobody waits, otherwise in the queue.                          *)
Acquire(r, j) ==
    IF free > 0 /\ queue = <<>>
      THEN /\ free' = free - 1 /\ queue' = queue
           /\ job' = [job EXCEPT ![r] = [j EXCEPT !.pc = "starting"]]
      ELSE /\ free' = free /\ queue' = Append(queue, r)
           /\ job' = [job EXCEPT ![r] = [j EXCEPT !.pc = "waiting"]]

(* Bug: nobody that waits is woken. *)
Release_Silent(r, j) ==
    free' = free + 1 /\ queue' = queue /\ job' = [job EXCEPT ![r] = j]

(* Semaphore.release by a job that goes on as j: the permit passes to the  *)
(* first that waits.                                                       *)
Release(r, j) ==
    IF queue = <<>>
      THEN free' = free + 1 /\ queue' = queue /\ job' = [job EXCEPT ![r] = j]
      ELSE /\ free' = free /\ queue' = Tail(queue)
           /\ job' = [job EXCEPT ![r] = j, ![Head(queue)].pc = "granted"]

Goes(r, pc) == job' = [job EXCEPT ![r].pc = pc] /\ UNCHANGED <<free, queue>>

(* Where a job that gave its permit back goes on: a thumbnail request that *)
(* also looked for the duration saves the record.                          *)
AfterPc(j) == IF j.op = "duration" /\ j.tries = 1 THEN "saving" ELSE "done"

Done(r) == [job[r] EXCEPT !.pc = AfterPc(job[r])]

(* The stored picture is sent if the record has this key, no older one,    *)
(* and the picture is there and can be read; or else one is made.          *)
AskThumbnail(r) ==
    /\ job[r] = Idle
    /\ \/ /\ thumb.key /\ thumb.stored
          /\ job' = [job EXCEPT ![r].op = "thumbnail", ![r].pc = "done"]
          /\ UNCHANGED <<free, queue>>
       \/ Acquire(r, NewJob("thumbnail", 1))
    /\ UNCHANGED thumb

AskDuration(r) ==
    /\ job[r] = Idle
    /\ Acquire(r, NewJob("duration", 0))
    /\ UNCHANGED thumb

AskTranscode(r) ==
    /\ job[r] = Idle
    /\ Acquire(r, NewJob("transcode", 0))
    /\ UNCHANGED thumb

(* A waiter that was handed a permit goes on. *)
Resume(r) ==
    /\ job[r].pc = "granted"
    /\ Goes(r, "starting")
    /\ UNCHANGED thumb

(* The process is started: on a path or URL it can open itself, or fed     *)
(* through its standard input, which transcoding does not do.              *)
Spawn(r) ==
    /\ job[r].pc = "starting"
    /\ \E direct \in IF job[r].op = "transcode" \/ job[r].tries = 2 THEN {TRUE} ELSE BOOLEAN :
         job' = [job EXCEPT ![r].direct = direct, ![r].proc = "running",
                   ![r].pc = IF job[r].op = "transcode" THEN "reading"
                             ELSE IF direct THEN "talking" ELSE "feeding"]
    /\ UNCHANGED <<free, queue, thumb>>

(* A thumbnail that fails at 10 s, on a path of its own, is tried once     *)
(* more at 0 s under the same permit.                                      *)
Retries(r, direct) == job[r].op = "thumbnail" /\ direct /\ job[r].tries = 1

(* Bug: the permit is not given back. *)
Fails_Kept(r, direct, j) ==
    IF Retries(r, direct)
      THEN job' = [job EXCEPT ![r] = [j EXCEPT !.pc = "starting", !.tries = 2]]
           /\ UNCHANGED <<free, queue>>
      ELSE job' = [job EXCEPT ![r] = [j EXCEPT !.pc = AfterPc(j)]] /\ UNCHANGED <<free, queue>>

(* What a failed process or a failed start does: the second attempt, the   *)
(* exception, or the duration 0.0.                                         *)
Fails(r, direct, j) ==
    IF Retries(r, direct)
      THEN job' = [job EXCEPT ![r] = [j EXCEPT !.pc = "starting", !.tries = 2]]
           /\ UNCHANGED <<free, queue>>
      ELSE Release(r, [j EXCEPT !.pc = AfterPc(j)])

(* The process cannot be started, or transcoding has no path to give it. *)
SpawnFails(r) ==
    /\ job[r].pc = "starting"
    /\ \E direct \in IF job[r].tries = 2 THEN {TRUE} ELSE BOOLEAN : Fails(r, direct, job[r])
    /\ UNCHANGED thumb

(* The file has been written to the standard input, as far as it could be  *)
(* read and the process took it.                                           *)
Feed(r) ==
    /\ job[r].pc = "feeding" /\ ~Stuck(r)
    /\ Goes(r, "talking")
    /\ UNCHANGED thumb

(* communicate() returned and the output is good.  A thumbnail goes to the *)
(* store, which may fail without a word, and the request may wait for a    *)
(* second permit for the duration the record lacks.                        *)
Succeed(r) ==
    /\ job[r].pc = "talking" /\ job[r].proc = "exited"
    /\ \/ job[r].op = "duration" /\ Release(r, Done(r))
       \/ job[r].op = "thumbnail" /\ Release(r, [job[r] EXCEPT !.pc = "storing", !.proc = "none"])
    /\ UNCHANGED thumb

Fail(r) ==
    /\ job[r].pc = "talking" /\ job[r].proc = "exited"
    /\ Fails(r, job[r].direct, [job[r] EXCEPT !.proc = "none"])
    /\ UNCHANGED thumb

StoreThumbnail(r) ==
    /\ job[r].pc = "storing"
    /\ \E stored \in {thumb.stored, TRUE} : thumb' = [thumb EXCEPT !.stored = stored]
    /\ \/ Goes(r, "saving")
       \/ Acquire(r, NewJob("duration", 1))

(* The record gets the key, whether or not the picture could be stored. *)
SaveThumbnail(r) ==
    /\ job[r].pc = "saving"
    /\ thumb' = [thumb EXCEPT !.key = TRUE]
    /\ Goes(r, "done")

-----------------------------------------------------------------------------
(* A transcoded stream. *)

ReadOutput(r) ==
    /\ job[r].pc = "reading" /\ job[r].proc = "running"
    /\ Goes(r, "yielded")
    /\ UNCHANGED thumb

TakeChunk(r) ==
    /\ job[r].pc = "yielded"
    /\ Goes(r, "reading")
    /\ UNCHANGED thumb

(* The end of the output, whether ffmpeg succeeded or not. *)
EndStream(r) ==
    /\ job[r].pc = "reading" /\ job[r].proc = "exited"
    /\ Release(r, Done(r))
    /\ UNCHANGED thumb

(* Bug: the permit is given back before the process has ended, and again   *)
(* after that.                                                             *)
Finally_Twice(r, cut) ==
    IF job[r].proc = "exited"
      THEN Release(r, [Done(r) EXCEPT !.left = IF cut THEN job[r].pc ELSE @])
      ELSE Release(r, [job[r] EXCEPT !.pc = "closing", !.cut = cut,
                                     !.left = IF cut THEN job[r].pc ELSE @])

(* The finally clause, entered at the place the coroutine is at: a process *)
(* that still runs is killed, and waited for.                              *)
Finally(r, cut) ==
    IF job[r].proc = "exited"
      THEN Release(r, [Done(r) EXCEPT !.left = IF cut THEN job[r].pc ELSE @])
      ELSE /\ job' = [job EXCEPT ![r].pc = "closing", ![r].cut = cut,
                                 ![r].left = IF cut THEN job[r].pc ELSE @]
           /\ UNCHANGED <<free, queue>>

ReadRaises(r) ==
    /\ job[r].pc = "reading"
    /\ Finally(r, FALSE)
    /\ UNCHANGED thumb

(* Bug: the process is not waited for. *)
Closed_Early(r) ==
    /\ job[r].pc = "closing"
    /\ Release(r, Done(r))
    /\ UNCHANGED thumb

(* The killed process has ended, and the permit is given back. *)
Closed(r) ==
    /\ job[r].pc = "closing" /\ job[r].proc = "exited"
    /\ Release(r, Done(r))
    /\ UNCHANGED thumb

(* The web server cancels every await of a response whose client has left, *)
(* the wait of the finally clause too: what follows it, the release, is    *)
(* skipped.                                                                *)
ClosingCut(r) ==
    /\ job[r].pc = "closing" /\ job[r].cut
    /\ Goes(r, "done")
    /\ UNCHANGED thumb

(* The client of a stream, or of the operation that asks for a duration,   *)
(* leaves and the coroutine is cancelled where it waits.  A stream that    *)
(* waits for its client is closed later, by the event loop and not by the  *)
(* response.  A cancelled start of a stream is no Exception: its permit is *)
(* not given back.                                                         *)
Leave(r) ==
    LET gone == [Done(r) EXCEPT !.left = job[r].pc] IN
    /\ job[r].op \in {"duration", "transcode"} /\ job[r].tries = 0 /\ job[r].left = "no"
    /\ \/ /\ job[r].pc = "waiting"
          /\ \E i \in 1 .. Len(queue) : queue[i] = r /\ queue' = RemoveAt(queue, i)
          /\ free' = free
          /\ job' = [job EXCEPT ![r] = gone]
       \/ /\ \/ job[r].pc = "granted"
             \/ job[r].op = "duration" /\ job[r].pc \in HoldingPcs
          /\ Release(r, gone)
       \/ /\ job[r].op = "transcode" /\ job[r].pc = "starting"
          /\ job' = [job EXCEPT ![r] = gone] /\ UNCHANGED <<free, queue>>
       \/ job[r].op = "transcode" /\ job[r].pc = "reading" /\ Finally(r, TRUE)
       \/ /\ job[r].pc = "yielded"
          /\ IF job[r].proc = "exited"
               THEN Release(r, gone)
               ELSE /\ job' = [job EXCEPT ![r].pc = "closing", ![r].left = "yielded"]
                    /\ UNCHANGED <<free, queue>>
       \/ /\ job[r].pc = "closing"
          /\ job' = [job EXCEPT ![r].cut = TRUE, ![r].left = "closing"]
          /\ UNCHANGED <<free, queue>>
    /\ UNCHANGED thumb

-----------------------------------------------------------------------------
(* The process. *)

Exit(r) ==
    /\ \/ job[r].proc = "running"
       \/ Stuck(r) /\ Killed(r)
    /\ job' = [job EXCEPT ![r].proc = "exited"]
    /\ UNCHANGED <<free, queue, thumb>>

(* It fills the pipe of its error output, which is only read by            *)
(* communicate() and after the end of a stream.                            *)
FillErrors(r) ==
    /\ job[r].proc = "running" /\ job[r].pc \in {"feeding", "reading", "yielded"}
    /\ job' = [job EXCEPT ![r].proc = "stuck"]
    /\ UNCHANGED <<free, queue, thumb>>

MediaStep(r) ==
    \/ AskThumbnail(r) \/ AskDuration(r) \/ AskTranscode(r) \/ Resume(r)
    \/ Spawn(r) \/ SpawnFails(r) \/ Feed(r) \/ Succeed(r) \/ Fail(r)
    \/ StoreThumbnail(r) \/ SaveThumbnail(r)
    \/ ReadOutput(r) \/ TakeChunk(r) \/ EndStream(r) \/ ReadRaises(r)
    \/ Closed(r) \/ ClosingCut(r) \/ Leave(r) \/ Exit(r) \/ FillErrors(r)

-----------------------------------------------------------------------------
mvars == <<transferVars, mediaVars>>

Init == TransferInit /\ MediaInit

(* A request is one transfer or one job. *)
MediaNext ==
    \/ ChangeFile /\ UNCHANGED mediaVars
    \/ \E r \in Requests :
         \/ job[r] = Idle /\ TransferStep(r) /\ UNCHANGED mediaVars
         \/ xfer[r] = NoTransfer /\ MediaStep(r) /\ UNCHANGED transferVars

MediaSpec == Init /\ [][MediaNext]_mvars

(* The event loop runs what can run, processes end, and the client of a    *)
(* stream that waits for it, or that nothing comes from, goes some time.   *)
MediaFairness ==
    \A r \in Requests :
      /\ WF_mvars(/\ Resume(r) \/ Spawn(r) \/ SpawnFails(r) \/ Feed(r) \/ Succeed(r) \/ Fail(r)
                     \/ StoreThumbnail(r) \/ SaveThumbnail(r) \/ EndStream(r) \/ Closed(r)
                  /\ UNCHANGED transferVars)
      /\ WF_mvars(Exit(r) /\ UNCHANGED transferVars)
      /\ WF_mvars((TakeChunk(r) \/ (job[r].pc = "yielded" /\ Leave(r))) /\ UNCHANGED transferVars)
      /\ WF_mvars(Stuck(r) /\ job[r].pc = "reading" /\ Leave(r) /\ UNCHANGED transferVars)
      /\ WF_mvars(CopyStep(r) /\ UNCHANGED mediaVars)

FairMediaSpec == MediaSpec /\ MediaFairness

-----------------------------------------------------------------------------
Jobs == [op : {"none", "thumbnail", "duration", "transcode"},
         pc : HoldingPcs \cup {"new", "waiting", "storing", "saving", "done"},
         direct : BOOLEAN, tries : 0 .. 2, cut : BOOLEAN,
         proc : {"none", "running", "stuck", "exited"},
         left : HoldingPcs \cup {"no", "waiting"}]

MediaTypeOK ==
    /\ size \in Sizes \cup {None} /\ changes \in 0 .. MaxChanges
    /\ free \in 0 .. Limit
    /\ queue \in Seq(Requests)
    /\ job \in [Requests -> Jobs]
    /\ thumb \in [key : BOOLEAN, stored : BOOLEAN]

(* Permits nobody has and nobody will give back. *)
Lost == Limit - free - Cardinality(Holders)

(* A stream whose client left while ffmpeg was started, read or waited for. *)
Dropped(j) ==
    j.op = "transcode" /\ j.pc = "done" /\ j.left \in {"starting", "reading", "closing"}

(* Every permit is free, held or, only where the client of a stream left   *)
(* while ffmpeg was started, read or waited for, lost; and nobody waits    *)
(* while one is free (ffmpeg_service.py 34, 114, 195-255).                 *)
PermitsKept ==
    /\ Lost >= 0
    /\ Lost <= Cardinality({r \in Requests : Dropped(job[r])})
    /\ queue # <<>> => free = 0

(* A process runs under the permit of the request that started it, unless  *)
(* that request was cancelled while it waited for the process              *)
(* (ffmpeg_service.py 70, 145, 251-255).                                   *)
ProcessesBounded ==
    \A r \in Requests : job[r].proc \in {"running", "stuck"} =>
      \/ r \in Holders
      \/ job[r].left \in {"feeding", "talking", "reading", "closing"}

(* A request that waits for a permit gets one or leaves, while no permit   *)
(* is lost and no process is stuck that is fed through its input.          *)
WaitersServed ==
    \A r \in Requests : job[r].pc = "waiting" ~>
      \/ job[r].pc # "waiting"
      \/ Lost > 0
      \/ \E s \in Requests : Stuck(s) /\ job[s].pc = "feeding"
=============================================================================
