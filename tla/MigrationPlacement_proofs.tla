---------------------- MODULE MigrationPlacement_proofs ----------------------
(***************************************************************************)
(* Migration implements Placement: whatever is cancelled, retried, fails   *)
(* in storage or is interrupted by one restart, the path in a video's      *)
(* record holds the whole bytes of that video, for any number of tasks,    *)
(* workers, videos and paths.                                              *)
(*                                                                         *)
(* The invariant says, for each place a task can be in (a queued job, a    *)
(* pc of a run, a request, a document that recovery would find), how far   *)
(* its files and its record are: at home, copied, or arrived.              *)
(***************************************************************************)
EXTENDS Migration_proofs

Vid(t) == Request[t].video
HomeOf(t) == Home[Vid(t)]

(* The paths create_task may choose as the target of task t.               *)
Targets(t) ==
  {Request[t].dest}
    \cup {p \in {Variant[Request[t].dest]} : Request[t].strategy = "rename"}

(* Moves that do not meet: each video moves once, to a path of its own     *)
(* that no video had.  No write of the database fails, retries come one at *)
(* a time, and the process restarts at most once.  Without any one of      *)
(* these the code can lose a video.                                        *)
MovesApart ==
  /\ \A t \in Tasks : /\ Request[t].strategy # "overwrite"
                      /\ \A v \in Videos : Home[v] \notin Targets(t)
  /\ \A t, u \in Tasks :
       t # u => Vid(t) # Vid(u) /\ Targets(t) \cap Targets(u) = {}
  /\ "db fault" \notin Events
  /\ "retry" \in Events => \A c, k \in Clients : c = k
  /\ MaxRestarts <= 1

(* How far task t has come. *)
AtHome(t) == rec[Vid(t)] = HomeOf(t)
Copied(t) == Known(t) /\ file[doc[t].tgt] = Vid(t)
Arrived(t) == Known(t) /\ rec[Vid(t)] = doc[t].tgt

(* What a run of t that starts with phase s relies on. *)
Ready(t, s) ==
  /\ s = "PROCESSING" => AtHome(t)
  /\ s = "UPDATING_DB" => Copied(t)
  /\ s = "DELETING_SOURCE" => Arrived(t)

(* Every record points at its bytes, and no file is where it should not be.*)
StoreInv ==
  /\ \A v \in Videos :
       /\ file[rec[v]] = v
       /\ file[Home[v]] \in {v, None}
       /\ (\A t \in Tasks : Vid(t) # v) => rec[v] = Home[v]
  /\ \A t \in Tasks : \A p \in Targets(t) : file[p] \in {None, Partial, Vid(t)}

(* The document of t: its paths, and the phase recovery would resume at.   *)
Paper(t) ==
  /\ AtHome(t) \/ Arrived(t)
  /\ Known(t) => /\ doc[t].src = HomeOf(t)
                 /\ doc[t].tgt \in Targets(t)
                 /\ ~doc[t].overwrite
  /\ IsLive(t) /\ (restarts = 0 \/ t \in orphans)
       => Ready(t, RESUME_POINT[doc[t].status])

(* Nobody works on t any more. *)
Over(t) ==
  t \notin waiting /\ \A w \in Workers : TaskOf(w) = t => wk[w].pc = "end"

(* A task fails in its copy, so a retry starts with the copy. *)
Failed(t) ==
  doc[t].status = "FAILED" =>
    AtHome(t) /\ doc[t].failed = "PROCESSING" /\ Over(t)

Planned(t) ==
  /\ \A i \in DOMAIN queue : queue[i].task = t => Ready(t, queue[i].start)
  /\ \A i \in DOMAIN plan : plan[i].task = t =>
       Ready(t, plan[i].start) /\ doc[t].status = "PENDING"

(* The pcs at which a run of worker w on task t knows how far the task is. *)
HasHome == {"save processing", "open", "read", "write", "copied", "repoint",
            "save failed", "save cancelled"}
HasCopy == {"copied", "save updating", "find", "find moved", "repoint"}
HasMoved == {"find moved", "save db updated", "save deleting", "delete source",
             "save completed"}
Knows(t, pc) ==
  /\ pc \in HasHome => AtHome(t)
  /\ pc \in HasCopy => Copied(t)
  /\ pc \in HasMoved => Arrived(t)
RunAt(t, w) ==
  /\ Knows(t, wk[w].pc)
  /\ wk[w].pc = "load" => Ready(t, job[w].start)
  /\ wk[w].pc = "write" => wk[w].data = Vid(t)
  /\ wk[w].pc = "repoint" => wk[w].video = Vid(t)
  /\ wk[w].pc \in Copying \cup {"save failed"} => wk[w].status = "PROCESSING"
  /\ wk[w].pc \in InLoop => doc[t].status \in {"PROCESSING", "CANCELLED"}
  /\ wk[w].pc \in {"find", "find moved", "repoint"}
       => doc[t].status \in {"UPDATING_DB", "CANCELLED"}
  /\ wk[w].pc \notin {"find conflict", "delete conflict"}

(* What request c knows of the task t it works on. *)
Creating == {"insert", "submit"}
Retrying == {"reset", "resubmit"}
CallAt(t, c) ==
  /\ client[c].op \in Creating =>
       /\ AtHome(t) /\ ~IsActive(t)
       /\ \A k \in Clients \ {c} :
            client[k].op \in Creating => client[k].task # t
  /\ client[c].op = "insert" =>
       ~Known(t) /\ client[c].src = HomeOf(t) /\ client[c].tgt \in Targets(t)
  /\ client[c].op = "submit" => doc[t].status \in {"PENDING", "CANCELLED"}
  /\ client[c].op = "reset" => doc[t].status = "FAILED"
  /\ client[c].op = "resubmit" =>
       doc[t].status = "PENDING" /\ AtHome(t) /\ Over(t)
  /\ client[c].op \in Retrying => "retry" \in Events
  /\ client[c].op \in Creating \cup Retrying => client[c].start = "PROCESSING"

TaskInv(t) ==
  /\ Paper(t)
  /\ Failed(t)
  /\ Planned(t)
  /\ \A w \in Workers : TaskOf(w) = t => RunAt(t, w)
  /\ \A c \in Clients : client[c].task = t => CallAt(t, c)

PlacedInv ==
  /\ StoreInv
  /\ \A t \in Tasks : TaskInv(t)
  /\ ~booting => orphans = {} /\ plan = <<>>
  /\ booting => restarts # 0

-----------------------------------------------------------------------------
(* Nothing of task u changes, but that somebody may be done with it. *)
Stays(u) ==
  /\ doc'[u] = doc[u] /\ rec'[Vid(u)] = rec[Vid(u)]
  /\ \A p \in Targets(u) : file'[p] = file[p]
  /\ \A w \in Workers : job'[w].task = u => job'[w] = job[w] /\ wk'[w] = wk[w]
  /\ \A c \in Clients : client'[c].task = u => client'[c] = client[c]
  /\ \A i \in DOMAIN queue' : queue'[i].task = u =>
       \E j \in DOMAIN queue : queue[j] = queue'[i]
  /\ \A i \in DOMAIN plan' : plan'[i].task = u =>
       \E j \in DOMAIN plan : plan[j] = plan'[i]
  /\ u \in waiting' => u \in waiting
  /\ u \in running' => u \in running
  /\ IsLive(u) /\ (restarts' = 0 \/ u \in orphans') => restarts = 0 \/ u \in orphans

LEMMA StaysPlaced ==
  ASSUME NEW u \in Tasks, TaskInv(u), Stays(u)
  PROVE  TaskInv(u)'
<1>1. Known(u)' = Known(u) /\ IsLive(u)' = IsLive(u) /\ AtHome(u)' = AtHome(u)
  BY DEF Stays, Known, IsLive, AtHome
<1>2. Known(u) => doc[u].tgt \in Targets(u)
  BY DEF TaskInv, Paper
<1>3. Copied(u)' = Copied(u) /\ Arrived(u)' = Arrived(u)
  BY <1>1, <1>2 DEF Stays, Copied, Arrived, Known
<1>4. \A s : Ready(u, s)' = Ready(u, s)
  BY <1>1, <1>3 DEF Ready
<1>5. Over(u) => Over(u)'
  BY DEF Stays, Over, TaskOf
<1>6. Paper(u)'
  <2>1. doc'[u] = doc[u]
    BY DEF Stays
  <2>2. IsLive(u)' /\ (restarts' = 0 \/ u \in orphans')
          => Ready(u, RESUME_POINT[doc[u].status])
    BY <1>1 DEF Stays, TaskInv, Paper
  <2> QED BY <1>1, <1>3, <1>4, <2>1, <2>2 DEF TaskInv, Paper
<1>7. Failed(u)'
  BY <1>1, <1>5 DEF TaskInv, Failed, Stays
<1>8. Planned(u)'
  BY <1>4 DEF TaskInv, Planned, Stays
<1>9. ASSUME NEW w \in Workers, TaskOf(w)' = u PROVE RunAt(u, w)'
  <2>1. job'[w] = job[w] /\ wk'[w] = wk[w] /\ TaskOf(w) = u /\ doc'[u] = doc[u]
    BY <1>9 DEF Stays, TaskOf
  <2>2. RunAt(u, w)
    BY <2>1 DEF TaskInv
  <2> QED BY <1>1, <1>3, <1>4, <2>1, <2>2 DEF RunAt, Knows
<1>10. ASSUME NEW c \in Clients, client'[c].task = u PROVE CallAt(u, c)'
  <2>1. client'[c] = client[c] /\ client[c].task = u /\ doc'[u] = doc[u]
    BY <1>10 DEF Stays
  <2>2. CallAt(u, c)
    BY <2>1 DEF TaskInv
  <2>3. ~IsActive(u) => ~IsActive(u)'
    BY DEF Stays, IsActive
  <2>4. \A k \in Clients : client'[k].task = u => client'[k] = client[k]
    BY DEF Stays
  <2> QED BY <1>1, <1>5, <2>1, <2>2, <2>3, <2>4 DEF CallAt
<1> QED BY <1>6, <1>7, <1>8, <1>9, <1>10 DEF TaskInv

-----------------------------------------------------------------------------
(* Targets are paths, and those of one task are nobody's home and no other *)
(* task's targets.                                                         *)
LEMMA TargetsApart ==
  ASSUME MovesApart, NEW t \in Tasks
  PROVE  /\ Targets(t) \subseteq Paths
         /\ Vid(t) \in Videos /\ HomeOf(t) \in Paths
         /\ \A v \in Videos : Home[v] \notin Targets(t)
         /\ \A u \in Tasks : u # t => Vid(u) # Vid(t) /\ HomeOf(u) # HomeOf(t)
                                    /\ Targets(u) \cap Targets(t) = {}
<1>1. \A u \in Tasks : Request[u] \in [video : Videos, dest : Paths, strategy : Strategies]
  BY MigrationAssumption
<1>2. \A u \in Tasks : Vid(u) \in Videos /\ HomeOf(u) \in Paths
  BY <1>1, MigrationAssumption DEF Vid, HomeOf
<1>3. Targets(t) \subseteq Paths
  BY <1>1, MigrationAssumption DEF Targets
<1>4. \A u \in Tasks : u # t => Vid(u) # Vid(t) /\ Targets(u) \cap Targets(t) = {}
  BY DEF MovesApart
<1>5. \A u \in Tasks : u # t => HomeOf(u) # HomeOf(t)
  BY <1>2, <1>4, MigrationAssumption DEF HomeOf
<1> QED BY <1>2, <1>3, <1>4, <1>5 DEF MovesApart

(* A record is at its video's home or at the target of its own task.       *)
LEMMA RecordsApart ==
  ASSUME MovesApart, PlacedInv, NEW v \in Videos
  PROVE  /\ rec[v] \in Paths
         /\ \A u \in Videos : rec[v] = Home[u] => v = u
         /\ \A t \in Tasks : rec[v] \in Targets(t) => v = Vid(t) /\ Arrived(t)
<1>1. CASE rec[v] = Home[v]
  BY <1>1, MigrationAssumption, TargetsApart
<1>2. CASE rec[v] # Home[v]
  <2>1. PICK t \in Tasks : Vid(t) = v /\ rec[v] = doc[t].tgt /\ rec[v] \in Targets(t)
                          /\ Arrived(t)
    BY <1>2 DEF PlacedInv, StoreInv, TaskInv, Paper, AtHome, HomeOf, Arrived
  <2> QED BY <2>1, TargetsApart
<1> QED BY <1>1, <1>2

(* No index refuses a write of a task. *)
LEMMA NoClash ==
  ASSUME MovesApart, PlacedInv, NEW t \in Tasks, NEW s, NEW p \in Targets(t)
  PROVE  ~Clashes(t, s, HomeOf(t), p)
<1>1. ASSUME NEW u \in Tasks \ {t}, IsLive(u)
      PROVE  doc[u].src # HomeOf(t) /\ doc[u].tgt # p
  <2>1. Known(u)
    BY <1>1 DEF IsLive, Known, Active, Phase
  <2>2. doc[u].src = HomeOf(u) /\ doc[u].tgt \in Targets(u)
    BY <2>1 DEF PlacedInv, TaskInv, Paper
  <2> QED BY <2>2, TargetsApart
<1> QED BY <1>1 DEF Clashes

LEMMA NoDuplicate ==
  ASSUME MovesApart, PlacedInv, NEW t \in Tasks, Known(t), NEW s
  PROVE  ~Duplicate(t, s)
BY NoClash DEF Duplicate, PlacedInv, TaskInv, Paper

(* One step of Placement, or none. *)
At1 == [v \in Kept |-> rec[v]]
Copies == [v \in Kept |-> {p \in Paths : file[p] = v}]
PlacementStep == P!Next \/ UNCHANGED <<At1, Copies>>

LEMMA AllKept == MovesApart => Kept = Videos
BY DEF MovesApart, Kept, Replaced

LEMMA NothingPlaced ==
  ASSUME UNCHANGED <<file, rec>>
  PROVE  PlacementStep /\ (StoreInv => StoreInv')
BY DEF PlacementStep, At1, Copies, StoreInv

(* The target of a task at home is written, or removed. *)
LEMMA TargetWritten ==
  ASSUME MovesApart, StoreTypeOK, PlacedInv, NEW t \in Tasks, AtHome(t),
         NEW p \in Targets(t), NEW x \in {None, Partial, Vid(t)},
         file' = [file EXCEPT ![p] = x], rec' = rec
  PROVE  StoreInv' /\ PlacementStep
<1>1. p \in Paths /\ \A q \in Paths : file'[q] = IF q = p THEN x ELSE file[q]
  BY TargetsApart DEF StoreTypeOK
<1>2. \A v \in Videos : rec[v] \in Paths /\ rec[v] # p
  <2> SUFFICES ASSUME NEW v \in Videos, rec[v] = p PROVE FALSE
    BY RecordsApart
  <2> QED BY RecordsApart, TargetsApart DEF AtHome, HomeOf
<1>3. StoreInv'
  <2>1. \A v \in Videos : Home[v] \in Paths /\ Home[v] # p
    BY MigrationAssumption, TargetsApart
  <2>2. \A u \in Tasks : \A q \in Targets(u) : q \in Paths /\ (u # t => q # p)
    BY TargetsApart
  <2> QED BY <1>1, <1>2, <2>1, <2>2 DEF PlacedInv, StoreInv
<1>4. Kept = Videos /\ Vid(t) \in Kept /\ None \notin Videos /\ Partial \notin Videos
  BY AllKept, TargetsApart, MigrationAssumption
<1>5. At1' = At1
  BY DEF At1
<1>6. file[p] \in {None, Partial, Vid(t)}
  BY DEF PlacedInv, StoreInv
<1>7. \A v \in Kept : v # Vid(t) =>
        {q \in Paths : file'[q] = v} = {q \in Paths : file[q] = v}
  BY <1>1, <1>4, <1>6
<1>8. CASE x = Vid(t) /\ file[p] # Vid(t)
  <2>1. {q \in Paths : file'[q] = Vid(t)} = {q \in Paths : file[q] = Vid(t)} \cup {p}
    BY <1>1, <1>8
  <2>2. Copies' = [Copies EXCEPT ![Vid(t)] = @ \cup {p}]
    BY <1>4, <1>7, <2>1 DEF Copies
  <2>3. \A u \in Kept : p \notin {q \in Paths : file[q] = u}
    BY <1>4, <1>6, <1>8
  <2>4. P!Copy(Vid(t), p)
    BY <1>5, <2>2, <2>3 DEF P!Copy, At1, Copies
  <2> QED BY <1>1, <1>3, <1>4, <2>4 DEF PlacementStep, P!Next
<1>9. CASE x # Vid(t) /\ file[p] = Vid(t)
  <2>1. \A v \in Kept : {q \in Paths : file'[q] = v} =
          IF v = Vid(t) THEN {q \in Paths : file[q] = v} \ {p}
          ELSE {q \in Paths : file[q] = v}
    BY <1>1, <1>7, <1>9
  <2>2. Copies' = [Copies EXCEPT ![Vid(t)] = @ \ {p}]
    BY <1>4, <2>1 DEF Copies
  <2>3. p \in {q \in Paths : file[q] = Vid(t)} \ {rec[Vid(t)]}
    BY <1>1, <1>2, <1>4, <1>9
  <2>4. P!Drop(Vid(t), p)
    BY <1>4, <1>5, <2>2, <2>3 DEF P!Drop, At1, Copies
  <2> QED BY <1>1, <1>3, <1>4, <2>4 DEF PlacementStep, P!Next
<1>10. CASE x = file[p]
  <2>1. Copies' = Copies
    BY <1>1, <1>10 DEF Copies
  <2> QED BY <1>3, <1>5, <2>1 DEF PlacementStep
<1>11. CASE x # Vid(t) /\ file[p] # Vid(t)
  <2>1. {q \in Paths : file'[q] = Vid(t)} = {q \in Paths : file[q] = Vid(t)}
    BY <1>1, <1>11
  <2>2. Copies' = Copies
    BY <1>7, <2>1 DEF Copies
  <2> QED BY <1>3, <1>5, <2>2 DEF PlacementStep
<1> QED BY <1>8, <1>9, <1>10, <1>11

(* The record of a copied video is pointed at its copy. *)
LEMMA RecordPointed ==
  ASSUME MovesApart, StoreTypeOK, PlacedInv, NEW t \in Tasks, Copied(t),
         NEW p \in Targets(t), doc[t].tgt = p,
         rec' = [rec EXCEPT ![Vid(t)] = p], file' = file
  PROVE  StoreInv' /\ PlacementStep
<1>1. p \in Paths /\ Vid(t) \in Videos /\ file[p] = Vid(t) /\ Kept = Videos
      /\ Vid(t) \in Kept
  BY TargetsApart, AllKept DEF Copied
<1>2. \A v \in Videos : rec'[v] = IF v = Vid(t) THEN p ELSE rec[v]
  BY <1>1 DEF StoreTypeOK
<1>3. StoreInv'
  BY <1>1, <1>2 DEF PlacedInv, StoreInv
<1>4. At1' = [At1 EXCEPT ![Vid(t)] = p] /\ Copies' = Copies
  BY <1>1, <1>2 DEF At1, Copies
<1>5. P!Repoint(Vid(t), p)
  BY <1>1, <1>4 DEF P!Repoint, At1, Copies
<1> QED BY <1>1, <1>3, <1>5 DEF PlacementStep, P!Next

(* The original of an arrived video is deleted. *)
LEMMA OriginalDeleted ==
  ASSUME MovesApart, StoreTypeOK, PlacedInv, NEW t \in Tasks, Arrived(t),
         doc[t].tgt \in Targets(t),
         file' = [file EXCEPT ![HomeOf(t)] = None], rec' = rec
  PROVE  StoreInv' /\ PlacementStep
<1> DEFINE h == HomeOf(t)
<1>1. /\ h \in Paths /\ Vid(t) \in Videos /\ Kept = Videos
      /\ \A q \in Paths : file'[q] = IF q = h THEN None ELSE file[q]
  BY TargetsApart, AllKept DEF StoreTypeOK
<1>2. None \notin Videos
  BY MigrationAssumption
<1>3. \A v \in Videos : rec[v] \in Paths /\ rec[v] # h
  <2> SUFFICES ASSUME NEW v \in Videos, rec[v] = h PROVE FALSE
    BY RecordsApart
  <2>1. v = Vid(t)
    BY <1>1, RecordsApart DEF HomeOf
  <2> QED BY <1>1, <2>1, TargetsApart DEF Arrived, HomeOf
<1>4. StoreInv'
  <2>1. \A v \in Videos : Home[v] \in Paths
    BY MigrationAssumption
  <2>2. \A u \in Tasks : \A q \in Targets(u) : q \in Paths
    BY TargetsApart
  <2> QED BY <1>1, <1>3, <2>1, <2>2 DEF PlacedInv, StoreInv
<1>5. file[h] \in {Vid(t), None} /\ At1' = At1
  BY <1>1 DEF PlacedInv, StoreInv, HomeOf, At1
<1>6. CASE file[h] = None
  <2>1. Copies' = Copies
    BY <1>1, <1>6 DEF Copies
  <2> QED BY <1>4, <1>5, <2>1 DEF PlacementStep
<1>7. CASE file[h] = Vid(t)
  <2>1. \A v \in Kept : {q \in Paths : file'[q] = v} =
          IF v = Vid(t) THEN {q \in Paths : file[q] = v} \ {h}
          ELSE {q \in Paths : file[q] = v}
    BY <1>1, <1>2, <1>7
  <2>2. Copies' = [Copies EXCEPT ![Vid(t)] = @ \ {h}]
    BY <1>1, <2>1 DEF Copies
  <2>3. h \in {q \in Paths : file[q] = Vid(t)} \ {rec[Vid(t)]}
    BY <1>1, <1>3, <1>7
  <2>4. P!Drop(Vid(t), h)
    BY <1>1, <1>5, <2>2, <2>3 DEF P!Drop, At1, Copies
  <2> QED BY <1>1, <1>4, <2>4 DEF PlacementStep, P!Next
<1> QED BY <1>5, <1>6, <1>7

-----------------------------------------------------------------------------
(* What a step of the run of worker w on task t has to show: what becomes  *)
(* of the files, of the document and of what the run knows.  Nobody else   *)
(* works on t meanwhile.                                                   *)
LEMMA RunPlaced ==
  ASSUME IInv, MovesApart, PlacedInv, NEW w \in Workers, NEW t \in Tasks,
         TaskOf(w) = t, wk[w].pc \notin {"idle", "end"},
         UNCHANGED <<jobVars, client, bootVars, restarts>>,
         NEW r \in Run, wk' = [wk EXCEPT ![w] = r],
         \A u \in Tasks \ {t} : doc'[u] = doc[u],
         \A v \in Videos \ {Vid(t)} : rec'[v] = rec[v],
         \A p \in Paths \ (Targets(t) \cup {HomeOf(t)}) : file'[p] = file[p],
         StoreInv', Paper(t)', RunAt(t, w)',
         doc'[t].status = "FAILED" =>
           AtHome(t)' /\ doc'[t].failed = "PROCESSING" /\ r.pc = "end"
  PROVE  PlacedInv'
<1>1. t \in running /\ t \notin waiting /\ ~booting
  BY TaskOfWorker DEF IInv, JobInv, ExclusiveRun
<1>2. /\ \A v \in Workers : v # w => wk'[v] = wk[v] /\ (TaskOf(v) = t => FALSE)
      /\ \A v \in Workers : TaskOf(v)' = TaskOf(v)
      /\ wk'[w] = r
  <2>1. job[w].task # None
    BY DEF IInv, RunInv
  <2>2. \A v \in Workers : v # w => TaskOf(v) # t
    BY <2>1 DEF IInv, JobInv, ExclusiveRun, TaskOf
  <2> QED BY <2>2 DEF IInv, RunInv, TaskOf, jobVars
<1>3. ASSUME NEW u \in Tasks \ {t} PROVE TaskInv(u)'
  <2>1. doc'[u] = doc[u] /\ Vid(u) \in Videos \ {Vid(t)} /\ rec'[Vid(u)] = rec[Vid(u)]
    BY TargetsApart
  <2>2. \A p \in Targets(u) : file'[p] = file[p]
    BY TargetsApart DEF HomeOf
  <2>3. \A v \in Workers : job'[v].task = u => job'[v] = job[v] /\ wk'[v] = wk[v]
    BY <1>2, <1>3 DEF TaskOf, jobVars
  <2>4. Stays(u)
    BY <2>1, <2>2, <2>3 DEF Stays, jobVars, bootVars
  <2> QED BY <2>4, StaysPlaced DEF PlacedInv
<1>4. Failed(t)'
  BY <1>1, <1>2 DEF Failed, Over, jobVars
<1>5. Planned(t)'
  <2>1. \A i \in DOMAIN queue : queue[i].task # t
    BY <1>1 DEF IInv, JobInv, ExclusiveRun, TasksIn
  <2>2. DOMAIN plan = {}
    BY <1>1 DEF PlacedInv
  <2> QED BY <2>1, <2>2 DEF Planned, jobVars, bootVars
<1>6. ASSUME NEW c \in Clients, client'[c].task = t PROVE CallAt(t, c)'
  <2>1. client'[c] = client[c] /\ CallAt(t, c)
    BY <1>6 DEF PlacedInv, TaskInv
  <2>2. ~Over(t)
    BY DEF Over
  <2>3. doc[t].status # "FAILED"
    BY <2>2 DEF PlacedInv, TaskInv, Failed
  <2>4. client[c].op \notin Creating \cup Retrying
    BY <1>1, <2>1, <2>2, <2>3 DEF CallAt, IsActive, Creating, Retrying
  <2> QED BY <2>1, <2>4 DEF CallAt, Creating, Retrying
<1>7. \A v \in Workers : TaskOf(v)' = t => RunAt(t, v)'
  BY <1>2
<1>8. TaskInv(t)'
  BY <1>4, <1>5, <1>6, <1>7 DEF TaskInv
<1> QED BY <1>1, <1>3, <1>8 DEF PlacedInv, bootVars

(* The run of w goes on, and changes nothing but itself. *)
LEMMA RunGoesOn ==
  ASSUME IInv, MovesApart, PlacedInv, NEW w \in Workers, NEW t \in Tasks,
         TaskOf(w) = t, wk[w].pc \notin {"idle", "end"},
         UNCHANGED <<jobVars, dataVars, client, bootVars, restarts>>,
         NEW r \in Run, wk' = [wk EXCEPT ![w] = r], RunAt(t, w)'
  PROVE  PlacedInv' /\ PlacementStep
<1>1. UNCHANGED <<doc, file, rec, restarts, orphans>>
  BY DEF dataVars, bootVars
<1>2. StoreInv' /\ PlacementStep
  BY <1>1, NothingPlaced DEF PlacedInv
<1>3. Paper(t)'
  BY <1>1 DEF PlacedInv, TaskInv, Paper, AtHome, Arrived, Known, IsLive, Ready, Copied
<1>4. doc[t].status # "FAILED"
  BY DEF PlacedInv, TaskInv, Failed, Over
<1> QED BY <1>1, <1>2, <1>3, <1>4, RunPlaced

(* The document of the run's task is saved with status s, nothing else     *)
(* changes but the run.                                                    *)
LEMMA RunSaves ==
  ASSUME IInv, MovesApart, PlacedInv, NEW w \in Workers, NEW t \in Tasks,
         TaskOf(w) = t, wk[w].pc \notin {"idle", "end"}, Known(t),
         UNCHANGED <<jobVars, file, rec, client, bootVars, restarts>>,
         NEW r \in Run, wk' = [wk EXCEPT ![w] = r],
         NEW s \in Status \ {"FAILED"}, Persist(t, s),
         s \in Active => Ready(t, RESUME_POINT[s]),
         RunAt(t, w)'
  PROVE  PlacedInv' /\ PlacementStep
<1>1. /\ \A u \in Tasks : doc'[u] = IF u = t
                          THEN [doc[t] EXCEPT !.status = s, !.failed = "NONE"] ELSE doc[u]
      /\ doc[t] \in Document
  BY DEF Persist, IInv, DataInv, DocInv
<1>2. /\ doc'[t].status = s /\ doc'[t].src = doc[t].src /\ doc'[t].tgt = doc[t].tgt
      /\ doc'[t].overwrite = doc[t].overwrite
  BY <1>1 DEF Document
<1>3. StoreInv' /\ PlacementStep
  BY NothingPlaced DEF PlacedInv
<1>4. Known(t)' /\ s # "FAILED"
  BY <1>2 DEF Known, Status, Active, Phase, TERMINAL
<1>5. AtHome(t)' = AtHome(t) /\ Arrived(t)' = Arrived(t) /\ Copied(t)' = Copied(t)
  BY <1>2, <1>4 DEF AtHome, Arrived, Copied
<1>6. Paper(t)'
  <2>1. IsLive(t)' => s \in Active /\ Ready(t, RESUME_POINT[s])'
    BY <1>2, <1>5 DEF IsLive, Ready
  <2> QED BY <1>2, <1>4, <1>5, <2>1 DEF PlacedInv, TaskInv, Paper
<1> QED BY <1>1, <1>2, <1>3, <1>4, <1>6, RunPlaced

(* The target of a copy that is under way is written, or removed. *)
LEMMA RunWrites ==
  ASSUME IInv, MovesApart, PlacedInv, NEW w \in Workers, NEW t \in Tasks,
         TaskOf(w) = t, wk[w].pc \in Copying,
         UNCHANGED <<jobVars, doc, rec, client, bootVars, restarts>>,
         NEW r \in Run, wk' = [wk EXCEPT ![w] = r],
         NEW x \in {None, Partial, Vid(t)},
         file' = [file EXCEPT ![doc[t].tgt] = x],
         AtHome(t) => RunAt(t, w)'
  PROVE  PlacedInv' /\ PlacementStep
<1>1. RunAt(t, w) /\ Known(t) /\ doc[t].tgt \in Targets(t) /\ wk[w].pc \notin {"idle", "end"}
  BY TaskOfWorker DEF PlacedInv, TaskInv, Paper, Copying
<1>2. AtHome(t) /\ doc[t].status \in {"PROCESSING", "CANCELLED"}
  BY <1>1 DEF RunAt, Knows, HasHome, Copying, InLoop
<1>3. StoreInv' /\ PlacementStep
  BY <1>1, <1>2, TargetWritten DEF IInv, DataInv
<1>4. AtHome(t)' /\ Known(t)' /\ IsLive(t)' = IsLive(t)
  BY <1>1, <1>2 DEF AtHome, Known, IsLive
<1>5. Paper(t)'
  <2>1. IsLive(t) => doc[t].status = "PROCESSING"
    BY <1>2 DEF IsLive, Active, Phase
  <2>2. RESUME_POINT["PROCESSING"] = "PROCESSING"
    BY DEF RESUME_POINT, Active, Phase
  <2>3. Ready(t, "PROCESSING")'
    BY <1>4 DEF Ready
  <2> QED BY <1>1, <1>4, <2>1, <2>2, <2>3 DEF PlacedInv, TaskInv, Paper
<1>6. \A p \in Paths \ (Targets(t) \cup {HomeOf(t)}) : file'[p] = file[p]
  BY <1>1 DEF IInv, DataInv, StoreTypeOK
<1> QED BY <1>1, <1>2, <1>3, <1>4, <1>5, <1>6, RunPlaced

(* Where a run is, and what it may become. *)
LEMMA RunHere ==
  ASSUME IInv, PlacedInv, NEW w \in Workers, wk[w].pc # "idle"
  PROVE  \E t \in Tasks :
           /\ TaskOf(w) = t /\ Known(t) /\ RunAt(t, w)
           /\ doc[t].src = HomeOf(t) /\ doc[t].tgt \in Targets(t)
           /\ ~doc[t].overwrite
           /\ AtHome(t) \/ Arrived(t)
BY TaskOfWorker DEF PlacedInv, TaskInv, Paper

Resumed(w, x) == [wk[w] EXCEPT !.pc = x]
LEMMA RunResumes ==
  ASSUME IInv, NEW w \in Workers, NEW x \in Pcs, Resume(w, x)
  PROVE  /\ Resumed(w, x) \in Run /\ wk' = [wk EXCEPT ![w] = Resumed(w, x)]
         /\ wk'[w] = Resumed(w, x) /\ Resumed(w, x).pc = x
         /\ Resumed(w, x).status = wk[w].status
         /\ Resumed(w, x).data = wk[w].data /\ Resumed(w, x).video = wk[w].video
<1>1. wk[w] \in Run /\ wk \in [Workers -> Run]
  BY DEF IInv, RunInv
<1> QED BY <1>1 DEF Run, Resume, Resumed

LEMMA SameProgress ==
  ASSUME NEW t \in Tasks, UNCHANGED <<doc, file, rec>>
  PROVE  /\ AtHome(t)' = AtHome(t) /\ Copied(t)' = Copied(t)
         /\ Arrived(t)' = Arrived(t) /\ \A s : Ready(t, s)' = Ready(t, s)
BY DEF AtHome, Copied, Arrived, Known, Ready

(* run_task's checks: where the run begins depends on how far the task is. *)
LEMMA LoadPlaced ==
  ASSUME IInv, MovesApart, PlacedInv, NEW w \in Workers,
         SkipSettled(w) \/ DropQueued(w) \/ StartRun(w)
  PROVE  PlacedInv' /\ PlacementStep
<1>1. wk[w].pc = "load" /\ UNCHANGED <<jobVars, dataVars, client, bootVars, restarts>>
  BY DEF SkipSettled, DropQueued, StartRun, At
<1>2. PICK t \in Tasks : TaskOf(w) = t /\ Known(t) /\ RunAt(t, w)
  BY <1>1, RunHere
<1>3. UNCHANGED <<doc, file, rec, job>>
  BY <1>1 DEF dataVars, jobVars
<1>4. CASE SkipSettled(w) \/ DropQueued(w)
  <2>1. PICK x \in {"skipped", "save dropped"} : Resume(w, x)
    BY <1>4 DEF SkipSettled, DropQueued
  <2>2. x \in Pcs
    BY DEF Pcs
  <2> DEFINE r == Resumed(w, x)
  <2>3. r \in Run /\ wk' = [wk EXCEPT ![w] = r] /\ wk'[w] = r /\ r.pc = x
    BY <2>1, <2>2, RunResumes
  <2> HIDE DEF r
  <2>4. RunAt(t, w)'
    BY <2>1, <2>3 DEF RunAt, Knows, HasHome, HasCopy, HasMoved, Copying, InLoop
  <2> QED BY <1>1, <1>2, <2>3, <2>4, RunGoesOn
<1>5. CASE StartRun(w)
  <2> DEFINE x == EntryPoint(job[w].start)
             r == [wk[w] EXCEPT !.pc = x, !.status = doc[t].status]
  <2>1. job[w].start \in Phase /\ wk[w] \in Run /\ wk \in [Workers -> Run]
    BY DEF IInv, RunInv, JobInv, JobTypeOK
  <2>2. \/ x = "save processing" /\ job[w].start = "PROCESSING"
        \/ x = "save updating" /\ job[w].start = "UPDATING_DB"
        \/ x = "save deleting" /\ job[w].start = "DELETING_SOURCE"
    BY <2>1 DEF EntryPoint, ShouldRunPhase, PHASE_ORDER, Phase
  <2>3. x \in Pcs
    BY <2>2 DEF Pcs, SavedStatus
  <2>4. r \in Run /\ r.pc = x
    BY <1>2, <2>1, <2>3 DEF Run, IInv, DataInv, DocInv, Document
  <2>5. wk' = [wk EXCEPT ![w] = r] /\ wk'[w] = r
    BY <1>2, <1>5, <2>1 DEF StartRun
  <2> HIDE DEF x, r
  <2>6. Ready(t, job[w].start)
    BY <1>1, <1>2 DEF RunAt
  <2>7. RunAt(t, w)'
    BY <1>3, <2>2, <2>4, <2>5, <2>6, SameProgress
       DEF RunAt, Knows, Ready, HasHome, HasCopy, HasMoved, Copying, InLoop
  <2> QED BY <1>1, <1>2, <2>4, <2>5, <2>7, RunGoesOn
<1> QED BY <1>4, <1>5

(* The saves of a run. *)
LEMMA SavePlaced ==
  ASSUME IInv, MovesApart, PlacedInv, NEW w \in Workers,
         NEW pc \in Pcs \ {"idle", "end"}, NEW s \in Status \ {"FAILED"},
         NEW next \in Pcs, SaveStatus(w, pc, s, next),
         NEW t \in Tasks, TaskOf(w) = t, Known(t),
         s \in Active => Ready(t, RESUME_POINT[s]),
         Knows(t, next),
         next \notin {"load", "write", "find conflict", "delete conflict",
                      "repoint", "copied", "save failed", "find moved"},
         next \in Copying => s = "PROCESSING",
         next = "find" => s = "UPDATING_DB"
  PROVE  PlacedInv' /\ PlacementStep
<1> DEFINE r == [wk[w] EXCEPT !.pc = next, !.status = s]
<1>1. wk[w] \in Run /\ wk \in [Workers -> Run] /\ wk[w].pc = pc
  BY DEF SaveStatus, At, IInv, RunInv
<1>2. r \in Run /\ r.pc = next /\ r.status = s
  BY <1>1 DEF Run
<1>3. /\ wk' = [wk EXCEPT ![w] = r] /\ wk'[w] = r /\ Persist(t, s)
      /\ UNCHANGED <<jobVars, file, rec, client, bootVars, restarts>>
  BY <1>1 DEF SaveStatus
<1> HIDE DEF r
<1>4. /\ doc'[t].status = s /\ doc'[t].tgt = doc[t].tgt
  BY <1>3 DEF Persist, IInv, DataInv, DocInv, Document
<1>5. Known(t)'
  BY <1>4 DEF Known, Status, Active, Phase, TERMINAL
<1>6. AtHome(t)' = AtHome(t) /\ Arrived(t)' = Arrived(t) /\ Copied(t)' = Copied(t)
  BY <1>3, <1>4, <1>5 DEF AtHome, Arrived, Copied
<1>7. RunAt(t, w)'
  BY <1>2, <1>3, <1>4, <1>6 DEF RunAt, Knows, Copying, InLoop
<1> QED BY <1>1, <1>2, <1>3, <1>7, RunSaves

LEMMA SavesPlaced ==
  ASSUME IInv, MovesApart, PlacedInv, NEW w \in Workers,
         SaveProcessing(w) \/ SaveProcessDone(w) \/ SaveUpdating(w)
         \/ SaveDbUpdated(w) \/ SaveDeleting(w) \/ SaveCompleted(w)
         \/ SaveDropped(w) \/ SaveCancelled(w)
  PROVE  PlacedInv' /\ PlacementStep
<1>1. wk[w].pc # "idle"
  BY DEF SaveProcessing, SaveProcessDone, SaveUpdating, SaveDbUpdated,
     SaveDeleting, SaveCompleted, SaveDropped, SaveCancelled, SaveStatus, At
<1>2. PICK t \in Tasks : TaskOf(w) = t /\ Known(t) /\ RunAt(t, w)
  BY <1>1, RunHere
<1>3. /\ {"save processing", "open", "copied", "save updating", "find",
          "save db updated", "save deleting", "delete source",
          "save completed", "save dropped", "save cancelled"}
           \subseteq Pcs \ {"idle", "end"}
      /\ "end" \in Pcs /\ "skipped" \in Pcs
      /\ {"PROCESSING", "PROCESS_DONE", "UPDATING_DB", "DB_UPDATED",
          "DELETING_SOURCE", "COMPLETED", "CANCELLED"} \subseteq Status \ {"FAILED"}
      /\ {"COMPLETED", "CANCELLED"} \cap Active = {}
  BY DEF Pcs, SavedStatus, Status, Active, Phase, TERMINAL
<1>4. /\ RESUME_POINT["PROCESSING"] = "PROCESSING"
      /\ RESUME_POINT["PROCESS_DONE"] = "UPDATING_DB"
      /\ RESUME_POINT["UPDATING_DB"] = "UPDATING_DB"
      /\ RESUME_POINT["DB_UPDATED"] = "DELETING_SOURCE"
      /\ RESUME_POINT["DELETING_SOURCE"] = "DELETING_SOURCE"
  BY DEF RESUME_POINT, Active, Phase
<1>5. CASE SaveProcessing(w)
  <2>1. SaveStatus(w, "save processing", "PROCESSING", "open") /\ Knows(t, "save processing")
    BY <1>2, <1>5 DEF SaveProcessing, SaveStatus, At, RunAt
  <2>2. Knows(t, "open") /\ Ready(t, "PROCESSING")
    BY <2>1 DEF Knows, Ready, HasHome, HasCopy, HasMoved
  <2>3. "open" \notin Copying \/ "PROCESSING" = "PROCESSING"
    BY DEF Copying
  <2> QED BY <1>2, <1>3, <1>4, <2>1, <2>2, <2>3, SavePlaced
<1>6. CASE SaveProcessDone(w)
  <2>1. SaveStatus(w, "copied", "PROCESS_DONE", "save updating") /\ Knows(t, "copied")
    BY <1>2, <1>6 DEF SaveProcessDone, SaveStatus, At, RunAt
  <2>2. Knows(t, "save updating") /\ Ready(t, "UPDATING_DB")
    BY <2>1 DEF Knows, Ready, HasHome, HasCopy, HasMoved
  <2>3. "save updating" \notin Copying \/ "PROCESS_DONE" = "PROCESSING"
    BY DEF Copying
  <2> QED BY <1>2, <1>3, <1>4, <2>1, <2>2, <2>3, SavePlaced
<1>7. CASE SaveUpdating(w)
  <2>1. SaveStatus(w, "save updating", "UPDATING_DB", "find") /\ Knows(t, "save updating")
    BY <1>2, <1>7 DEF SaveUpdating, SaveStatus, At, RunAt
  <2>2. Knows(t, "find") /\ Ready(t, "UPDATING_DB")
    BY <2>1 DEF Knows, Ready, HasHome, HasCopy, HasMoved
  <2>3. "find" \notin Copying \/ "UPDATING_DB" = "PROCESSING"
    BY DEF Copying
  <2> QED BY <1>2, <1>3, <1>4, <2>1, <2>2, <2>3, SavePlaced
<1>8. CASE SaveDbUpdated(w)
  <2>1. SaveStatus(w, "save db updated", "DB_UPDATED", "save deleting") /\ Knows(t, "save db updated")
    BY <1>2, <1>8 DEF SaveDbUpdated, SaveStatus, At, RunAt
  <2>2. Knows(t, "save deleting") /\ Ready(t, "DELETING_SOURCE")
    BY <2>1 DEF Knows, Ready, HasHome, HasCopy, HasMoved
  <2>3. "save deleting" \notin Copying \/ "DB_UPDATED" = "PROCESSING"
    BY DEF Copying
  <2> QED BY <1>2, <1>3, <1>4, <2>1, <2>2, <2>3, SavePlaced
<1>9. CASE SaveDeleting(w)
  <2>1. SaveStatus(w, "save deleting", "DELETING_SOURCE", "delete source") /\ Knows(t, "save deleting")
    BY <1>2, <1>9 DEF SaveDeleting, SaveStatus, At, RunAt
  <2>2. Knows(t, "delete source") /\ Ready(t, "DELETING_SOURCE")
    BY <2>1 DEF Knows, Ready, HasHome, HasCopy, HasMoved
  <2>3. "delete source" \notin Copying \/ "DELETING_SOURCE" = "PROCESSING"
    BY DEF Copying
  <2> QED BY <1>2, <1>3, <1>4, <2>1, <2>2, <2>3, SavePlaced
<1>10. CASE SaveCompleted(w)
  <2>1. SaveStatus(w, "save completed", "COMPLETED", "end")
    BY <1>10 DEF SaveCompleted
  <2>2. Knows(t, "end") /\ "end" \notin Copying
    BY DEF Knows, HasHome, HasCopy, HasMoved, Copying
  <2> QED BY <1>2, <1>3, <2>1, <2>2, SavePlaced
<1>11. CASE SaveDropped(w)
  <2>1. SaveStatus(w, "save dropped", "CANCELLED", "skipped")
    BY <1>11 DEF SaveDropped
  <2>2. Knows(t, "skipped") /\ "skipped" \notin Copying
    BY DEF Knows, HasHome, HasCopy, HasMoved, Copying
  <2> QED BY <1>2, <1>3, <2>1, <2>2, SavePlaced
<1>12. CASE SaveCancelled(w)
  <2>1. SaveStatus(w, "save cancelled", "CANCELLED", "end")
    BY <1>12 DEF SaveCancelled
  <2>2. Knows(t, "end") /\ "end" \notin Copying
    BY DEF Knows, HasHome, HasCopy, HasMoved, Copying
  <2> QED BY <1>2, <1>3, <2>1, <2>2, SavePlaced
<1> QED BY <1>5, <1>6, <1>7, <1>8, <1>9, <1>10, <1>11, <1>12

(* No save of a run raises; what breaks a run is its copy. *)
LEMMA NothingRaises ==
  ASSUME IInv, MovesApart, PlacedInv, NEW w \in Workers
  PROVE  ~SaveRaises(w) /\ ~RunCrashes(w) /\ ~FlushRaises(w)
<1>1. "db fault" \notin Events
  BY DEF MovesApart
<1>2. wk[w].pc # "idle" => \A s : ~Duplicate(TaskOf(w), s)
  BY TaskOfWorker, NoDuplicate
<1>3. "idle" \notin DOMAIN SavedStatus \cup InLoop
  BY DEF SavedStatus, InLoop, Copying
<1> QED BY <1>1, <1>2, <1>3 DEF SaveRaises, RunCrashes, FlushRaises

LEMMA SaveFailedPlaced ==
  ASSUME IInv, MovesApart, PlacedInv, NEW w \in Workers, SaveFailed(w)
  PROVE  PlacedInv' /\ PlacementStep
<1>1. wk[w].pc = "save failed" /\ UNCHANGED <<jobVars, file, rec, client, bootVars, restarts>>
  BY DEF SaveFailed, At
<1>2. PICK t \in Tasks : TaskOf(w) = t /\ Known(t) /\ RunAt(t, w)
  BY <1>1, RunHere
<1>3. AtHome(t) /\ wk[w].status = "PROCESSING"
  BY <1>1, <1>2 DEF RunAt, Knows, HasHome
<1>4. "end" \in Pcs /\ FailedStep("PROCESSING") = "PROCESSING"
  BY DEF Pcs, FailedStep, TERMINAL
<1> DEFINE r == Resumed(w, "end")
<1>5. r \in Run /\ wk' = [wk EXCEPT ![w] = r] /\ wk'[w] = r /\ r.pc = "end"
  BY <1>4, RunResumes DEF SaveFailed
<1> HIDE DEF r
<1>6. /\ \A u \in Tasks \ {t} : doc'[u] = doc[u]
      /\ doc'[t].status = "FAILED" /\ doc'[t].failed = "PROCESSING"
      /\ doc'[t].src = doc[t].src /\ doc'[t].tgt = doc[t].tgt
      /\ doc'[t].overwrite = doc[t].overwrite
  BY <1>2, <1>3, <1>4 DEF SaveFailed, IInv, DataInv, DocInv, Document
<1>7. StoreInv' /\ PlacementStep
  BY <1>1, NothingPlaced DEF PlacedInv
<1>8. Known(t)' /\ AtHome(t)' /\ ~IsLive(t)'
  BY <1>1, <1>3, <1>6 DEF Known, AtHome, IsLive, Active, Phase
<1>9. Paper(t)'
  BY <1>2, <1>6, <1>8 DEF Paper, PlacedInv, TaskInv
<1>10. RunAt(t, w)'
  BY <1>5 DEF RunAt, Knows, HasHome, HasCopy, HasMoved, Copying, InLoop
<1> QED BY <1>1, <1>2, <1>5, <1>6, <1>7, <1>8, <1>9, <1>10, RunPlaced

(* The copy.  It writes and removes the target only, of a task at home. *)
LEMMA CleanupPlaced ==
  ASSUME IInv, MovesApart, PlacedInv, NEW w \in Workers, NEW t \in Tasks,
         TaskOf(w) = t, wk[w].pc \in Copying, file' \in AfterCleanup(t),
         NEW x \in {"save cancelled", "save failed"}, Resume(w, x),
         UNCHANGED <<jobVars, doc, rec, client, bootVars, restarts>>
  PROVE  PlacedInv' /\ PlacementStep
<1>1. RunAt(t, w) /\ wk[w].pc \notin {"idle", "end"}
  BY DEF PlacedInv, TaskInv, Copying
<1>2. x \in Pcs
  BY DEF Pcs, SavedStatus
<1> DEFINE r == Resumed(w, x)
<1>3. /\ r \in Run /\ wk' = [wk EXCEPT ![w] = r] /\ wk'[w] = r
      /\ r.pc = x /\ r.status = wk[w].status
  BY <1>2, RunResumes
<1> HIDE DEF r
<1>4. AtHome(t)' => RunAt(t, w)'
  BY <1>1, <1>3 DEF RunAt, Knows, HasHome, HasCopy, HasMoved, Copying, InLoop
<1>5. AtHome(t) /\ AtHome(t)'
  BY <1>1 DEF RunAt, Knows, HasHome, Copying, AtHome
<1>6. CASE file' = [file EXCEPT ![doc[t].tgt] = None]
  BY <1>3, <1>4, <1>5, <1>6, RunWrites
<1>7. CASE file' = file
  BY <1>1, <1>3, <1>4, <1>5, <1>7, RunGoesOn DEF dataVars
<1> QED BY <1>6, <1>7 DEF AfterCleanup

LEMMA CopyPlaced ==
  ASSUME IInv, MovesApart, PlacedInv, NEW w \in Workers, CopyStep(w)
  PROVE  PlacedInv' /\ PlacementStep
<1>1. wk[w].pc \in InLoop /\ wk[w].pc \notin {"idle", "end"}
      /\ UNCHANGED <<jobVars, rec, client, bootVars, restarts>>
  BY NothingRaises DEF CopyStep, CopyOpen, CopyRead, CopyWrite, CopyCancelled,
     CopyFails, FlushProgress, At, InLoop, Copying, dataVars
<1>2. PICK t \in Tasks :
        /\ TaskOf(w) = t /\ Known(t) /\ RunAt(t, w)
        /\ doc[t].src = HomeOf(t) /\ doc[t].tgt \in Targets(t)
  BY <1>1, RunHere
<1>3. /\ AtHome(t) /\ doc[t].status \in {"PROCESSING", "CANCELLED"}
      /\ wk[w].pc \in Copying => wk[w].status = "PROCESSING"
      /\ Src(w) = HomeOf(t) /\ Tgt(w) = doc[t].tgt
  BY <1>1, <1>2 DEF RunAt, Knows, HasHome, InLoop, Copying, Src, Tgt
<1>4. Vid(t) \in Videos /\ file[HomeOf(t)] = Vid(t) /\ None \notin Videos
  BY <1>3, TargetsApart, MigrationAssumption DEF PlacedInv, StoreInv, AtHome
<1>5. AtHome(t)'
  BY <1>1, <1>3 DEF AtHome
<1>6. {"read", "copied", "write", "save cancelled", "save failed"} \subseteq Pcs
  BY DEF Pcs, SavedStatus
<1>7. wk[w] \in Run /\ wk \in [Workers -> Run]
  BY DEF IInv, RunInv
<1>8. CASE CopyOpen(w)
  <2>1. UNCHANGED doc /\ wk[w].pc = "open" /\ wk[w].pc \in Copying
    BY <1>8 DEF CopyOpen, At, Copying
  <2> DEFINE r == Resumed(w, "read")
  <2>2. /\ r \in Run /\ wk' = [wk EXCEPT ![w] = r] /\ wk'[w] = r
        /\ r.pc = "read" /\ r.status = wk[w].status
    BY <1>6, <1>8, RunResumes DEF CopyOpen
  <2> HIDE DEF r
  <2>3. RunAt(t, w)'
    BY <1>3, <1>5, <2>1, <2>2
       DEF RunAt, Knows, HasHome, HasCopy, HasMoved, Copying, InLoop
  <2>4. CASE file' = [file EXCEPT ![doc[t].tgt] = Partial]
    BY <1>1, <1>2, <2>1, <2>2, <2>3, <2>4, RunWrites
  <2>5. CASE file' = file
    BY <1>1, <1>2, <2>1, <2>2, <2>3, <2>5, RunGoesOn DEF dataVars
  <2> QED BY <1>3, <1>8, <2>4, <2>5 DEF CopyOpen
<1>9. CASE CopyRead(w)
  <2> DEFINE r == [wk[w] EXCEPT !.pc = "write", !.data = Vid(t)]
  <2>1. /\ r \in Run /\ r.pc = "write" /\ r.data = Vid(t) /\ r.status = wk[w].status
        /\ wk' = [wk EXCEPT ![w] = r] /\ wk'[w] = r
    BY <1>3, <1>4, <1>6, <1>7, <1>9 DEF CopyRead, Run, Content
  <2> HIDE DEF r
  <2>2. UNCHANGED dataVars /\ UNCHANGED doc /\ wk[w].pc \in Copying
    BY <1>9 DEF CopyRead, At, Copying, dataVars
  <2>3. RunAt(t, w)'
    BY <1>3, <1>5, <2>1, <2>2
       DEF RunAt, Knows, HasHome, HasCopy, HasMoved, Copying, InLoop
  <2> QED BY <1>1, <1>2, <2>1, <2>2, <2>3, RunGoesOn
<1>10. CASE CopyWrite(w)
  <2>1. UNCHANGED doc /\ wk[w].pc = "write" /\ wk[w].pc \in Copying
    BY <1>10 DEF CopyWrite, At, Copying
  <2>2. wk[w].data = Vid(t)
    BY <1>2, <2>1 DEF RunAt
  <2>3. file' = [file EXCEPT ![doc[t].tgt] = Vid(t)]
    BY <1>3, <1>4, <1>10, <2>2 DEF CopyWrite
  <2> DEFINE r == Resumed(w, "copied")
  <2>4. r \in Run /\ wk' = [wk EXCEPT ![w] = r] /\ wk'[w] = r /\ r.pc = "copied"
    BY <1>6, <1>10, RunResumes DEF CopyWrite
  <2> HIDE DEF r
  <2>5. Copied(t)'
    BY <1>2, <2>1, <2>3, TargetsApart DEF Copied, Known, IInv, DataInv, StoreTypeOK
  <2>6. RunAt(t, w)'
    BY <1>3, <1>5, <2>1, <2>4, <2>5
       DEF RunAt, Knows, HasHome, HasCopy, HasMoved, Copying, InLoop
  <2> QED BY <1>1, <1>2, <2>1, <2>3, <2>4, <2>6, RunWrites
<1>11. CASE CopyCancelled(w) \/ CopyFails(w)
  <2>1. wk[w].pc \in Copying /\ file' \in AfterCleanup(t) /\ UNCHANGED doc
    BY <1>2, <1>11 DEF CopyCancelled, CopyFails, At, Copying
  <2>2. Resume(w, "save cancelled") \/ Resume(w, "save failed")
    BY <1>11 DEF CopyCancelled, CopyFails, Raise
  <2> QED BY <1>1, <1>2, <2>1, <2>2, CleanupPlaced
<1>12. CASE FlushProgress(w)
  <2>1. Persist(t, "PROCESSING") /\ UNCHANGED <<file, rec, wk>>
    BY <1>2, <1>12 DEF FlushProgress
  <2>2. "PROCESSING" \in Status \ {"FAILED"} /\ RESUME_POINT["PROCESSING"] = "PROCESSING"
    BY DEF Status, Active, Phase, RESUME_POINT
  <2>3. wk' = [wk EXCEPT ![w] = wk[w]]
    BY <1>7, <2>1
  <2>4. doc'[t].status = "PROCESSING" /\ doc'[t].tgt = doc[t].tgt
    BY <2>1 DEF Persist, IInv, DataInv, DocInv, Document
  <2>5. Copied(t)' = Copied(t)
    BY <1>2, <2>1, <2>4 DEF Copied, Known
  <2>6. RunAt(t, w)'
    BY <1>1, <1>2, <1>5, <2>1, <2>4, <2>5
       DEF RunAt, Knows, HasHome, HasCopy, HasMoved, Copying, InLoop
  <2>7. Ready(t, "PROCESSING")
    BY <1>3 DEF Ready
  <2> QED BY <1>1, <1>2, <1>7, <2>1, <2>2, <2>3, <2>6, <2>7, RunSaves
<1> QED BY <1>8, <1>9, <1>10, <1>11, <1>12, NothingRaises DEF CopyStep

(* The update of the record and the deletion of the original. *)
LEMMA FindPlaced ==
  ASSUME IInv, MovesApart, PlacedInv, NEW w \in Workers,
         FindRecord(w) \/ FindMissing(w) \/ FindMoved(w)
  PROVE  PlacedInv' /\ PlacementStep
<1>1. /\ wk[w].pc \in {"find", "find moved"}
      /\ UNCHANGED <<jobVars, dataVars, client, bootVars, restarts>>
      /\ UNCHANGED <<doc, file, rec>>
  BY DEF FindRecord, FindMissing, FindMoved, At, dataVars
<1>2. PICK t \in Tasks :
        /\ TaskOf(w) = t /\ Known(t) /\ RunAt(t, w)
        /\ doc[t].src = HomeOf(t) /\ doc[t].tgt \in Targets(t)
        /\ ~doc[t].overwrite
        /\ AtHome(t) \/ Arrived(t)
  BY <1>1, RunHere
<1>3. /\ Copied(t) /\ doc[t].status \in {"UPDATING_DB", "CANCELLED"}
      /\ Src(w) = HomeOf(t) /\ Tgt(w) = doc[t].tgt
      /\ wk[w].pc = "find moved" => Arrived(t)
  BY <1>1, <1>2 DEF RunAt, Knows, HasCopy, HasMoved, Src, Tgt
<1>4. wk[w] \in Run /\ wk \in [Workers -> Run] /\ Vid(t) \in Videos
  BY TargetsApart DEF IInv, RunInv
<1>5. {"repoint", "find moved", "save db updated"} \subseteq Pcs
  BY DEF Pcs, SavedStatus
<1>6. CASE FindRecord(w)
  <2>1. PICK v \in RecordsAt(Src(w)) :
          wk' = [wk EXCEPT ![w].pc = "repoint", ![w].video = v]
    BY <1>2, <1>6 DEF FindRecord
  <2>2. v = Vid(t) /\ AtHome(t)
    BY <1>3, <1>4, RecordsApart DEF RecordsAt, HomeOf, AtHome
  <2> DEFINE r == [wk[w] EXCEPT !.pc = "repoint", !.video = Vid(t)]
  <2>3. /\ r \in Run /\ r.pc = "repoint" /\ r.video = Vid(t)
        /\ wk' = [wk EXCEPT ![w] = r] /\ wk'[w] = r
    BY <1>4, <1>5, <2>1, <2>2 DEF Run
  <2> HIDE DEF r
  <2>4. RunAt(t, w)'
    BY <1>1, <1>3, <2>2, <2>3, SameProgress
       DEF RunAt, Knows, HasHome, HasCopy, HasMoved, Copying, InLoop
  <2> QED BY <1>1, <1>2, <2>3, <2>4, RunGoesOn
<1>7. ASSUME NEW x \in {"find moved", "save db updated"}, Resume(w, x), Arrived(t)
      PROVE  PlacedInv' /\ PlacementStep
  <2> DEFINE r == Resumed(w, x)
  <2>0. x \in Pcs
    BY <1>5
  <2>1. r \in Run /\ wk' = [wk EXCEPT ![w] = r] /\ wk'[w] = r /\ r.pc = x
    BY <1>7, <2>0, RunResumes
  <2> HIDE DEF r
  <2>2. RunAt(t, w)'
    BY <1>1, <1>3, <1>7, <2>1, SameProgress
       DEF RunAt, Knows, HasHome, HasCopy, HasMoved, Copying, InLoop
  <2> QED BY <1>1, <1>2, <2>1, <2>2, RunGoesOn
<1>8. CASE FindMissing(w)
  <2>1. ~AtHome(t)
    BY <1>3, <1>4, <1>8 DEF FindMissing, RecordsAt, AtHome
  <2> QED BY <1>2, <1>7, <1>8, <2>1 DEF FindMissing
<1>9. CASE FindMoved(w)
  <2>1. Arrived(t) /\ RecordsAt(Tgt(w)) # {}
    BY <1>3, <1>4, <1>9 DEF FindMoved, At, RecordsAt, Arrived
  <2> QED BY <1>7, <1>9, <2>1 DEF FindMoved
<1> QED BY <1>6, <1>8, <1>9

LEMMA RepointPlaced ==
  ASSUME IInv, MovesApart, PlacedInv, NEW w \in Workers, Repoint(w)
  PROVE  PlacedInv' /\ PlacementStep
<1>1. /\ wk[w].pc = "repoint" /\ UNCHANGED <<doc, file>>
      /\ UNCHANGED <<jobVars, client, bootVars, restarts>>
  BY DEF Repoint, At
<1>2. PICK t \in Tasks :
        /\ TaskOf(w) = t /\ Known(t) /\ RunAt(t, w)
        /\ doc[t].src = HomeOf(t) /\ doc[t].tgt \in Targets(t)
        /\ ~doc[t].overwrite
  BY <1>1, RunHere
<1>3. /\ Copied(t) /\ doc[t].status \in {"UPDATING_DB", "CANCELLED"}
      /\ wk[w].video = Vid(t) /\ Tgt(w) = doc[t].tgt /\ Vid(t) \in Videos
  BY <1>1, <1>2, TargetsApart DEF RunAt, Knows, HasCopy, Tgt
<1> DEFINE p == doc[t].tgt
<1>4. rec' = [rec EXCEPT ![Vid(t)] = p] /\ rec'[Vid(t)] = p
  BY <1>3 DEF Repoint, IInv, DataInv, StoreTypeOK
<1>5. StoreInv' /\ PlacementStep
  BY <1>1, <1>2, <1>3, <1>4, RecordPointed DEF IInv, DataInv
<1>6. Arrived(t)' /\ Copied(t)' /\ Known(t)'
  BY <1>1, <1>2, <1>3, <1>4 DEF Arrived, Copied, Known
<1>7. Paper(t)'
  <2>1. IsLive(t)' => doc[t].status = "UPDATING_DB"
    BY <1>1, <1>3 DEF IsLive, Active, Phase
  <2>2. RESUME_POINT["UPDATING_DB"] = "UPDATING_DB" /\ Ready(t, "UPDATING_DB")'
    BY <1>6 DEF RESUME_POINT, Active, Phase, Ready
  <2> QED BY <1>1, <1>2, <1>6, <2>1, <2>2 DEF Paper
<1>8. "save db updated" \in Pcs
  BY DEF Pcs, SavedStatus
<1> DEFINE r == Resumed(w, "save db updated")
<1>9. r \in Run /\ wk' = [wk EXCEPT ![w] = r] /\ wk'[w] = r /\ r.pc = "save db updated"
  BY <1>8, RunResumes DEF Repoint
<1> HIDE DEF r
<1>10. RunAt(t, w)'
  BY <1>6, <1>9 DEF RunAt, Knows, HasHome, HasCopy, HasMoved, Copying, InLoop
<1>11. \A v \in Videos \ {Vid(t)} : rec'[v] = rec[v]
  BY <1>4 DEF IInv, DataInv, StoreTypeOK
<1>12. doc'[t].status # "FAILED"
  BY <1>1, <1>3
<1> QED BY <1>1, <1>2, <1>5, <1>7, <1>9, <1>10, <1>11, <1>12, RunPlaced

LEMMA DeletePlaced ==
  ASSUME IInv, MovesApart, PlacedInv, NEW w \in Workers, DeleteSource(w)
  PROVE  PlacedInv' /\ PlacementStep
<1>1. /\ wk[w].pc = "delete source" /\ UNCHANGED <<doc, rec>>
      /\ UNCHANGED <<jobVars, client, bootVars, restarts>>
  BY DEF DeleteSource, At
<1>2. PICK t \in Tasks :
        /\ TaskOf(w) = t /\ Known(t) /\ RunAt(t, w)
        /\ doc[t].src = HomeOf(t) /\ doc[t].tgt \in Targets(t)
  BY <1>1, RunHere
<1>3. Arrived(t) /\ Src(w) = HomeOf(t)
  BY <1>1, <1>2 DEF RunAt, Knows, HasMoved, Src
<1>4. "save completed" \in Pcs
  BY DEF Pcs, SavedStatus
<1> DEFINE r == Resumed(w, "save completed")
<1>5. r \in Run /\ wk' = [wk EXCEPT ![w] = r] /\ wk'[w] = r /\ r.pc = "save completed"
  BY <1>4, RunResumes DEF DeleteSource
<1> HIDE DEF r
<1>6. Arrived(t)' /\ Known(t)' /\ AtHome(t)' = AtHome(t)
  BY <1>1, <1>2, <1>3 DEF Arrived, Known, AtHome
<1>7. RunAt(t, w)'
  BY <1>5, <1>6 DEF RunAt, Knows, HasHome, HasCopy, HasMoved, Copying, InLoop
<1>8. CASE file' = file
  BY <1>1, <1>2, <1>5, <1>7, <1>8, RunGoesOn DEF dataVars
<1>9. CASE file' = [file EXCEPT ![HomeOf(t)] = None]
  <2>1. StoreInv' /\ PlacementStep
    BY <1>1, <1>2, <1>3, <1>9, OriginalDeleted DEF IInv, DataInv
  <2>2. \A p \in Paths \ {HomeOf(t)} : file'[p] = file[p]
    BY <1>9 DEF IInv, DataInv, StoreTypeOK
  <2>3. doc[t].tgt \in Paths \ {HomeOf(t)}
    BY <1>2, TargetsApart DEF HomeOf
  <2>4. Copied(t)' = Copied(t) /\ IsLive(t)' = IsLive(t)
    BY <1>1, <2>2, <2>3 DEF Copied, Known, IsLive
  <2>5. Paper(t)'
    BY <1>1, <1>2, <1>3, <1>6, <2>4 DEF Paper, Ready, PlacedInv, TaskInv, bootVars
  <2>6. doc'[t].status # "FAILED"
    BY <1>1, <1>2 DEF PlacedInv, TaskInv, Failed, Over
  <2> QED BY <1>1, <1>2, <1>5, <1>7, <2>1, <2>2, <2>5, <2>6, RunPlaced
<1> QED BY <1>3, <1>8, <1>9 DEF DeleteSource

LEMMA UpdatePlaced ==
  ASSUME IInv, MovesApart, PlacedInv, NEW w \in Workers, UpdateStep(w)
  PROVE  PlacedInv' /\ PlacementStep
<1>1. ~FindConflict(w) /\ ~DeleteConflict(w)
  <2> SUFFICES ASSUME wk[w].pc \in {"find conflict", "delete conflict"} PROVE FALSE
    BY DEF FindConflict, DeleteConflict, At
  <2>1. \E t \in Tasks : RunAt(t, w)
    BY RunHere
  <2> QED BY <2>1 DEF RunAt
<1>2. ~UpdateRaises(w)
  <2> SUFFICES ASSUME wk[w].pc = "repoint", ~(RecordsAt(Tgt(w)) \subseteq {wk[w].video})
               PROVE  FALSE
    BY DEF UpdateRaises, At, MovesApart
  <2>1. PICK t \in Tasks : TaskOf(w) = t /\ RunAt(t, w) /\ doc[t].tgt \in Targets(t)
    BY RunHere
  <2>2. wk[w].video = Vid(t)
    BY <2>1 DEF RunAt
  <2>3. \A v \in Videos : rec[v] = Tgt(w) => v = Vid(t)
    BY <2>1, RecordsApart DEF Tgt
  <2> QED BY <2>2, <2>3 DEF RecordsAt
<1> QED BY <1>1, <1>2, FindPlaced, RepointPlaced, DeletePlaced DEF UpdateStep

(* A job is taken, and a run ends. *)
LEMMA EndRunPlaced ==
  ASSUME IInv, MovesApart, PlacedInv, NEW w \in Workers, EndRun(w)
  PROVE  PlacedInv' /\ PlacementStep
<1>1. /\ UNCHANGED <<doc, file, rec, client, booting, orphans, plan, restarts>>
      /\ UNCHANGED <<queue, waiting>> /\ running' \subseteq running
  BY DEF EndRun, Finish, dataVars, bootVars
<1>2. StoreInv' /\ PlacementStep
  BY <1>1, NothingPlaced DEF PlacedInv
<1>3. \A v \in Workers : /\ v = w => job'[v].task = None
                         /\ v # w => job'[v] = job[v] /\ wk'[v] = wk[v]
  BY DEF EndRun, Finish, NoJob, IInv, RunInv, JobInv, JobTypeOK
<1>4. ASSUME NEW u \in Tasks PROVE Stays(u)
  BY <1>1, <1>3, NoneAssumption DEF Stays
<1> QED BY <1>1, <1>2, <1>4, StaysPlaced DEF PlacedInv

LEMMA TakeJobPlaced ==
  ASSUME IInv, MovesApart, PlacedInv, NEW w \in Workers, TakeJob(w)
  PROVE  PlacedInv' /\ PlacementStep
<1>1. /\ UNCHANGED <<doc, file, rec, client, booting, orphans, plan, restarts>>
      /\ queue # <<>> /\ queue \in Seq(Job)
  BY DEF TakeJob, Take, dataVars, bootVars, IInv, JobInv, JobTypeOK
<1>2. StoreInv' /\ PlacementStep
  BY <1>1, NothingPlaced DEF PlacedInv
<1>t. PICK t \in Tasks, s \in Phase : t = Head(queue).task /\ s = Head(queue).start
  <2>1. Head(queue) \in Job
    BY <1>1
  <2> QED BY <2>1 DEF Job
<1>3. /\ 1 \in DOMAIN queue /\ queue[1] = Head(queue)
      /\ \A i \in DOMAIN queue' : i + 1 \in DOMAIN queue /\ queue'[i] = queue[i + 1]
  <2>1. 1 \in DOMAIN queue /\ queue[1] = Head(queue)
    BY <1>1
  <2>2. queue' = Tail(queue)
    BY DEF TakeJob, Take
  <2>3. \A i \in DOMAIN Tail(queue) : i + 1 \in DOMAIN queue /\ Tail(queue)[i] = queue[i + 1]
    BY <1>1
  <2> QED BY <2>1, <2>2, <2>3
<1>4. /\ \A v \in Workers : v # w => job'[v] = job[v] /\ wk'[v] = wk[v]
      /\ job'[w] = Head(queue) /\ wk'[w].pc = "load"
  BY DEF TakeJob, Take, IInv, RunInv, Run, JobInv, JobTypeOK
<1>5. /\ waiting' = waiting \ {t} /\ running' = running \cup {t}
      /\ t \in waiting /\ t \notin running
  BY <1>t, <1>3 DEF TakeJob, Take, IInv, JobInv, ExclusiveRun, TasksIn
<1>6. ASSUME NEW u \in Tasks \ {t} PROVE TaskInv(u)'
  <2>1. Stays(u)
    BY <1>1, <1>t, <1>3, <1>4, <1>5 DEF Stays
  <2> QED BY <2>1, StaysPlaced DEF PlacedInv
<1>7. TaskInv(t)
  BY <1>3 DEF PlacedInv
<1>8. \A x : Ready(t, x)' = Ready(t, x)
  BY <1>1, <1>3, SameProgress
<1>9. \A v \in Workers : v # w => TaskOf(v) # t /\ TaskOf(v)' # t
  BY <1>4, <1>5, NoneAssumption DEF IInv, JobInv, ExclusiveRun, TaskOf
<1>10. Paper(t)'
  BY <1>1, <1>7 DEF TaskInv, Paper, AtHome, Arrived, Known, IsLive, Ready, Copied
<1>11. Failed(t)'
  BY <1>1, <1>5, <1>7 DEF TaskInv, Failed, Over
<1>12. Planned(t)'
  BY <1>1, <1>3, <1>7, <1>8 DEF TaskInv, Planned
<1>13. RunAt(t, w)'
  <2>1. Ready(t, s)
    BY <1>t, <1>3, <1>7 DEF TaskInv, Planned
  <2>2. Ready(t, s)' /\ job'[w].start = s
    BY <1>t, <1>4, <1>8, <2>1
  <2> QED BY <1>4, <2>2 DEF RunAt, Knows, HasHome, HasCopy, HasMoved, Copying, InLoop
<1>14. ASSUME NEW c \in Clients, client'[c].task = t PROVE CallAt(t, c)'
  <2>1. client'[c] = client[c] /\ CallAt(t, c)
    BY <1>1, <1>7, <1>14 DEF TaskInv
  <2>2. client[c].op \notin Creating \cup {"resubmit"}
    BY <1>5, <2>1 DEF CallAt, IsActive, Over, Creating
  <2> QED BY <1>1, <2>1, <2>2 DEF CallAt, Creating, Retrying
<1>15. TaskInv(t)'
  BY <1>9, <1>10, <1>11, <1>12, <1>13, <1>14 DEF TaskInv
<1> QED BY <1>1, <1>2, <1>6, <1>15 DEF PlacedInv

-----------------------------------------------------------------------------
(* Requests.  A step that changes nothing but request c. *)
LEMMA CallPlaced ==
  ASSUME IInv, MovesApart, PlacedInv, NEW c \in Clients,
         UNCHANGED <<jobVars, dataVars, wk, bootVars, restarts>>,
         NEW r \in Call, client' = [client EXCEPT ![c] = r],
         \A t \in Tasks : r.task = t => CallAt(t, c)',
         r.op \in Creating => \A k \in Clients : client[k].task # r.task
  PROVE  PlacedInv' /\ PlacementStep
<1>1. UNCHANGED <<doc, file, rec, job, queue, waiting, running, booting, orphans, plan>>
  BY DEF jobVars, dataVars, bootVars
<1>2. StoreInv' /\ PlacementStep
  BY <1>1, NothingPlaced DEF PlacedInv
<1>3. \A k \in Clients : client'[k] = IF k = c THEN r ELSE client[k]
  BY DEF IInv, CallInv
<1>4. ASSUME NEW t \in Tasks PROVE TaskInv(t)'
  <2>1. TaskInv(t)
    BY DEF PlacedInv
  <2>2. /\ AtHome(t)' = AtHome(t) /\ Copied(t)' = Copied(t)
        /\ Arrived(t)' = Arrived(t) /\ \A s : Ready(t, s)' = Ready(t, s)
    BY <1>1, SameProgress
  <2>3. Paper(t)' /\ Planned(t)'
    BY <1>1, <2>1, <2>2 DEF TaskInv, Paper, Planned, Known, IsLive
  <2>4. Failed(t)' /\ Over(t)' = Over(t)
    BY <1>1, <2>1, <2>2 DEF TaskInv, Failed, Over, TaskOf
  <2>5. ASSUME NEW w \in Workers, TaskOf(w)' = t PROVE RunAt(t, w)'
    <3>1. RunAt(t, w)
      BY <1>1, <2>1, <2>5 DEF TaskInv, TaskOf
    <3> QED BY <1>1, <2>2, <3>1 DEF RunAt, Knows
  <2>6. ASSUME NEW k \in Clients, client'[k].task = t PROVE CallAt(t, k)'
    <3>1. CASE k = c
      BY <1>3, <2>6, <3>1
    <3>2. CASE k # c
      <4>1. client'[k] = client[k] /\ CallAt(t, k)
        BY <1>3, <2>1, <2>6, <3>2 DEF TaskInv
      <4>2. IsActive(t)' = IsActive(t) /\ Known(t)' = Known(t)
        BY <1>1 DEF IsActive, Known
      <4>3. client'[c].op \in Creating => client'[c].task # t
        BY <1>3, <4>1, <2>6
      <4>4. client[k].op \in Creating =>
              \A j \in Clients \ {k} : client'[j].op \in Creating => client'[j].task # t
        BY <1>3, <4>1, <4>3 DEF CallAt
      <4> QED BY <1>1, <2>2, <2>4, <4>1, <4>2, <4>4 DEF CallAt
    <3> QED BY <3>1, <3>2
  <2> QED BY <2>3, <2>4, <2>5, <2>6 DEF TaskInv
<1> QED BY <1>1, <1>2, <1>4 DEF PlacedInv

(* A step of request c that writes for task t: what it has to show, when   *)
(* no worker is in the midst of a run of t.                                *)
LEMMA CallWrites ==
  ASSUME IInv, MovesApart, PlacedInv, NEW c \in Clients, ~booting, NEW t \in Tasks,
         UNCHANGED <<wk, running, job, rec, bootVars, restarts>>,
         NEW r \in Call, client' = [client EXCEPT ![c] = r],
         r.task \in {t, None},
         \A u \in Tasks \ {t} : doc'[u] = doc[u],
         \A p \in Paths \ Targets(t) : file'[p] = file[p],
         \A i \in DOMAIN queue' : queue'[i].task # t =>
           \E j \in DOMAIN queue : queue[j] = queue'[i],
         \A u \in Tasks \ {t} : u \in waiting' => u \in waiting,
         StoreInv', Paper(t)', Failed(t)', Planned(t)',
         \A w \in Workers : TaskOf(w) = t => RunAt(t, w)',
         \A k \in Clients : client'[k].task = t => CallAt(t, k)'
  PROVE  PlacedInv'
<1>1. UNCHANGED <<booting, orphans, plan>> /\ plan = <<>>
  BY DEF bootVars, PlacedInv
<1>2. \A k \in Clients : client'[k] = IF k = c THEN r ELSE client[k]
  BY DEF IInv, CallInv
<1>3. ASSUME NEW u \in Tasks \ {t} PROVE TaskInv(u)'
  <2>1. \A p \in Targets(u) : file'[p] = file[p]
    BY TargetsApart
  <2>2. \A k \in Clients : client'[k].task = u => client'[k] = client[k]
    BY <1>2, <1>3, NoneAssumption
  <2>3. Stays(u)
    BY <1>1, <2>1, <2>2 DEF Stays
  <2> QED BY <2>3, StaysPlaced DEF PlacedInv
<1>4. \A w \in Workers : TaskOf(w)' = TaskOf(w)
  BY DEF TaskOf
<1>5. TaskInv(t)'
  BY <1>4 DEF TaskInv
<1> QED BY <1>1, <1>3, <1>5 DEF PlacedInv

(* Who is at work on a task that is being created, or has failed. *)
LEMMA NobodyRuns ==
  ASSUME IInv, PlacedInv, NEW t \in Tasks, ~IsActive(t)
  PROVE  /\ \A w \in Workers : TaskOf(w) # t
         /\ \A i \in DOMAIN queue : queue[i].task # t
BY NoneAssumption DEF IsActive, IInv, JobInv, ExclusiveRun, TasksIn, TaskOf

(* The requests that are about to write are not served while it boots. *)
LEMMA CallHere ==
  ASSUME IInv, PlacedInv, NEW c \in Clients, client[c].op # "idle"
  PROVE  /\ ~booting
         /\ \E t \in Tasks : /\ client[c].task = t /\ CallAt(t, c) /\ TaskInv(t)
                             /\ client[c].op # "insert" => Known(t)
BY DEF IInv, BootInv, Alone, CallInv, CallOK, PlacedInv, TaskInv, Known

LEMMA CreatePlaced ==
  ASSUME IInv, MovesApart, PlacedInv, NEW c \in Clients, NEW t \in Tasks, CreateTask(c, t)
  PROVE  PlacedInv' /\ PlacementStep
<1>1. ~Known(t) /\ UNCHANGED <<jobVars, dataVars, wk, bootVars, restarts>>
  BY DEF CreateTask, NoDoc, Known
<1>2. AtHome(t) /\ ~IsActive(t)
  BY <1>1 DEF PlacedInv, TaskInv, Paper, Arrived, IsActive, IInv, RunInv
<1>3. PICK tgt \in TargetFor(Request[t]) :
        client' = [client EXCEPT ![c] =
          [op |-> "insert", task |-> t, start |-> "PROCESSING",
           src |-> HomeOf(t), tgt |-> tgt]]
  BY <1>2 DEF CreateTask, AtHome, Vid
<1>4. tgt \in Targets(t)
  BY DEF TargetFor, Targets
<1> DEFINE r == [op |-> "insert", task |-> t, start |-> "PROCESSING",
                 src |-> HomeOf(t), tgt |-> tgt]
<1>5. r \in Call /\ r.task = t /\ client' = [client EXCEPT ![c] = r] /\ client'[c] = r
  BY <1>3, <1>4, TargetsApart DEF Call, Ops, Phase, IInv, CallInv
<1>6. AtHome(t)' = AtHome(t) /\ Known(t)' = Known(t) /\ IsActive(t)' = IsActive(t)
  BY <1>1 DEF AtHome, Known, IsActive, jobVars, dataVars
<1>7. \A k \in Clients : client[k].task # t /\ (k # c => client'[k] = client[k])
  BY <1>5 DEF CreateTask, IInv, CallInv
<1>8. CallAt(t, c)'
  BY <1>1, <1>2, <1>4, <1>5, <1>6, <1>7 DEF CallAt, Creating, Retrying
<1> HIDE DEF r
<1> QED BY <1>1, <1>5, <1>7, <1>8, CallPlaced

(* Requests that write nothing: a cancel that reads or sets the flag, and  *)
(* one that ends.                                                          *)
LEMMA AskPlaced ==
  ASSUME IInv, MovesApart, PlacedInv, NEW c \in Clients,
         \/ \E t \in Tasks : CancelTask(c, t)
         \/ RequestCancel(c) \/ WriteRefused(c) \/ HangUp(c)
  PROVE  PlacedInv' /\ PlacementStep
<1>1. UNCHANGED <<jobVars, dataVars, wk, bootVars, restarts>>
  BY DEF CancelTask, RequestCancel, WriteRefused, HangUp
<1>2. client \in [Clients -> Call]
  BY DEF IInv, CallInv
<1>3. \E r \in Call : client' = [client EXCEPT ![c] = r]
                      /\ r.op \notin Creating \cup Retrying
  <2>1. CASE RequestCancel(c) \/ WriteRefused(c) \/ HangUp(c)
    <3>1. IdleClient \in Call /\ IdleClient.op = "idle"
      BY DEF IdleClient, Call, Ops, Phase
    <3>2. Leave(c)
      BY <2>1 DEF RequestCancel, WriteRefused, HangUp
    <3> QED BY <3>1, <3>2 DEF Leave, Creating, Retrying
  <2>2. CASE \E t \in Tasks : CancelTask(c, t)
    <3>1. PICK t \in Tasks, op \in {"settle", "flag"} : Await(c, op, t, "PROCESSING")
      BY <2>2 DEF CancelTask
    <3> DEFINE r == [client[c] EXCEPT !.op = op, !.task = t, !.start = "PROCESSING"]
    <3>2. r \in Call /\ r.op = op
      BY <1>2 DEF Call, Ops, Phase
    <3>3. client' = [client EXCEPT ![c] = r]
      BY <3>1 DEF Await
    <3> HIDE DEF r
    <3> QED BY <3>2, <3>3 DEF Creating, Retrying
  <2> QED BY <2>1, <2>2
<1>4. PICK r \in Call : client' = [client EXCEPT ![c] = r]
                        /\ r.op \notin Creating \cup Retrying
  BY <1>3
<1>5. client'[c] = r
  BY <1>2, <1>4
<1>6. \A t \in Tasks : CallAt(t, c)'
  BY <1>4, <1>5 DEF CallAt, Creating, Retrying
<1> QED BY <1>1, <1>4, <1>6, CallPlaced

LEMMA InsertPlaced ==
  ASSUME IInv, MovesApart, PlacedInv, NEW c \in Clients, InsertTask(c)
  PROVE  PlacedInv' /\ PlacementStep
<1>1. /\ client[c].op = "insert"
      /\ UNCHANGED <<jobVars, file, rec, wk, flags, bootVars, restarts>>
  BY DEF InsertTask
<1>2. ~booting
  BY <1>1, CallHere
<1>3. PICK t \in Tasks : client[c].task = t /\ CallAt(t, c) /\ TaskInv(t)
  BY <1>1, CallHere
<1>4. /\ AtHome(t) /\ ~IsActive(t) /\ ~Known(t)
      /\ client[c].src = HomeOf(t) /\ client[c].tgt \in Targets(t)
      /\ \A k \in Clients \ {c} : client[k].op \in Creating => client[k].task # t
  BY <1>1, <1>3 DEF CallAt, Creating
<1> DEFINE r == [IdleClient EXCEPT !.op = "submit", !.task = t]
<1>5. /\ r \in Call /\ r.task = t /\ r.op = "submit" /\ r.start = "PROCESSING"
      /\ client' = [client EXCEPT ![c] = r] /\ client'[c] = r
      /\ \A k \in Clients \ {c} : client'[k] = client[k]
  BY <1>3 DEF InsertTask, IdleClient, Call, Ops, Phase, IInv, CallInv
<1> HIDE DEF r
<1>6. /\ \A u \in Tasks \ {t} : doc'[u] = doc[u]
      /\ doc'[t].status = "PENDING" /\ doc'[t].src = HomeOf(t)
      /\ doc'[t].tgt \in Targets(t) /\ doc'[t].overwrite = FALSE
  BY <1>3, <1>4 DEF InsertTask, IInv, DataInv, DocInv, MovesApart
<1>7. AtHome(t)' /\ Known(t)' /\ IsActive(t)' = IsActive(t)
  BY <1>1, <1>4, <1>6 DEF AtHome, Known, IsActive, jobVars
<1>8. StoreInv' /\ PlacementStep
  BY <1>1, NothingPlaced DEF PlacedInv
<1>9. Paper(t)'
  <2>1. Ready(t, RESUME_POINT["PENDING"])'
    BY <1>7 DEF Ready, RESUME_POINT, Active, Phase
  <2> QED BY <1>6, <1>7, <2>1 DEF Paper
<1>10. Failed(t)'
  BY <1>6 DEF Failed
<1>11. Planned(t)' /\ \A w \in Workers : TaskOf(w) # t
  BY <1>1, <1>2, <1>4, NobodyRuns DEF Planned, PlacedInv, jobVars, bootVars
<1>12. ASSUME NEW k \in Clients, client'[k].task = t PROVE CallAt(t, k)'
  <2>1. CASE k = c
    BY <1>4, <1>5, <1>6, <1>7, <2>1 DEF CallAt, Creating, Retrying
  <2>2. CASE k # c
    <3>1. client'[k] = client[k] /\ CallAt(t, k)
      BY <1>3, <1>5, <1>12, <2>2 DEF TaskInv
    <3>2. client[k].op \notin Creating
      BY <1>4, <1>12, <3>1, <2>2
    <3>3. client[k].op \notin Retrying
      BY <1>4, <3>1 DEF CallAt, Retrying, Known
    <3> QED BY <3>1, <3>2, <3>3 DEF CallAt, Creating, Retrying
  <2> QED BY <2>1, <2>2
<1> QED BY <1>1, <1>2, <1>5, <1>6, <1>8, <1>9, <1>10, <1>11, <1>12, CallWrites
       DEF jobVars

(* A task is handed to the runner: it is at home, so its copy may run. *)
LEMMA SubmitPlaced ==
  ASSUME IInv, MovesApart, PlacedInv, NEW c \in Clients, SubmitTask(c)
  PROVE  PlacedInv' /\ PlacementStep
<1>1. /\ client[c].op \in {"submit", "resubmit"}
      /\ UNCHANGED <<doc, file, rec, wk, running, job>>
      /\ UNCHANGED <<bootVars, restarts>>
  BY DEF SubmitTask, Submit, dataVars
<1>2. ~booting
  BY <1>1, CallHere
<1>3. PICK t \in Tasks : client[c].task = t /\ CallAt(t, c) /\ TaskInv(t)
  BY <1>1, CallHere
<1>4. /\ AtHome(t) /\ client[c].start = "PROCESSING"
      /\ doc[t].status \in {"PENDING", "CANCELLED"}
  BY <1>1, <1>3 DEF CallAt, Creating, Retrying
<1>5. /\ IdleClient \in Call /\ IdleClient.task = None /\ IdleClient.op = "idle"
      /\ client' = [client EXCEPT ![c] = IdleClient] /\ client'[c] = IdleClient
      /\ \A k \in Clients \ {c} : client'[k] = client[k]
  BY DEF SubmitTask, Leave, IdleClient, Call, Ops, Phase, IInv, CallInv
<1>6. StoreInv' /\ PlacementStep
  BY <1>1, NothingPlaced DEF PlacedInv
<1>7. \A x : Ready(t, x)' = Ready(t, x)
  BY <1>1, SameProgress
<1>8. Paper(t)'
  BY <1>1, <1>3 DEF TaskInv, Paper, AtHome, Arrived, Known, IsLive, Ready, Copied, bootVars
<1>9. Failed(t)'
  BY <1>1, <1>4 DEF Failed
<1>10. /\ \A u \in Tasks \ {t} : u \in waiting' => u \in waiting
       /\ \A i \in DOMAIN queue' : \/ \E j \in DOMAIN queue : queue[j] = queue'[i]
                                   \/ queue'[i] = JobOf(t, "PROCESSING")
  <2>1. CASE IsActive(t)
    BY <1>3, <2>1 DEF SubmitTask, Submit
  <2>2. CASE ~IsActive(t)
    <3>1. queue' = Append(queue, JobOf(t, "PROCESSING")) /\ waiting' = waiting \cup {t}
      BY <1>3, <1>4, <2>2 DEF SubmitTask, Submit
    <3>2. queue \in Seq(Job)
      BY DEF IInv, JobInv, JobTypeOK
    <3> QED BY <3>1, <3>2
  <2> QED BY <2>1, <2>2
<1>11. Planned(t)'
  <2>1. Ready(t, "PROCESSING")
    BY <1>4 DEF Ready
  <2>2. DOMAIN plan = {}
    BY <1>2 DEF PlacedInv
  <2> QED BY <1>1, <1>3, <1>7, <1>10, <2>1, <2>2 DEF TaskInv, Planned, JobOf, bootVars
<1>12. ASSUME NEW w \in Workers, TaskOf(w) = t PROVE RunAt(t, w)'
  <2>1. RunAt(t, w)
    BY <1>3, <1>12 DEF TaskInv
  <2> QED BY <1>1, <1>7, <2>1, SameProgress DEF RunAt, Knows
<1>13. ASSUME NEW k \in Clients, client'[k].task = t PROVE CallAt(t, k)'
  <2>1. k # c /\ client'[k] = client[k] /\ CallAt(t, k)
    BY <1>3, <1>5, <1>13, NoneAssumption DEF TaskInv
  <2>2. client[k].op \notin Creating
    BY <1>1, <1>3, <1>13, <2>1 DEF CallAt, Creating, Retrying, MovesApart
  <2>3. client[k].op \notin Retrying
    BY <2>1 DEF CallAt, MovesApart
  <2> QED BY <2>1, <2>2, <2>3 DEF CallAt, Creating, Retrying
<1>14. \A i \in DOMAIN queue' : queue'[i].task # t =>
         \E j \in DOMAIN queue : queue[j] = queue'[i]
  BY <1>10 DEF JobOf
<1> QED BY <1>1, <1>2, <1>5, <1>6, <1>8, <1>9, <1>10, <1>11, <1>12, <1>13, <1>14, CallWrites

(* A cancelled task may be anywhere; no run relies on its not being so.    *)
LEMMA SettlePlaced ==
  ASSUME IInv, MovesApart, PlacedInv, NEW c \in Clients, SettleCancel(c)
  PROVE  PlacedInv' /\ PlacementStep
<1>1. /\ client[c].op = "settle" /\ UNCHANGED <<file, rec>>
      /\ UNCHANGED <<jobVars, file, rec, wk, flags, bootVars, restarts>>
  BY DEF SettleCancel
<1>2. ~booting
  BY <1>1, CallHere
<1>3. PICK t \in Tasks : client[c].task = t /\ TaskInv(t) /\ Known(t)
  BY <1>1, CallHere
<1> DEFINE r == [client[c] EXCEPT !.op = "flag"]
<1>4. /\ r \in Call /\ r.task = t /\ r.op = "flag"
      /\ client' = [client EXCEPT ![c] = r] /\ client'[c] = r
      /\ \A k \in Clients \ {c} : client'[k] = client[k]
  BY <1>3 DEF SettleCancel, Call, Ops, IInv, CallInv
<1> HIDE DEF r
<1>5. /\ \A u \in Tasks \ {t} : doc'[u] = doc[u]
      /\ doc'[t].status = "CANCELLED" /\ doc'[t].src = doc[t].src
      /\ doc'[t].tgt = doc[t].tgt /\ doc'[t].overwrite = doc[t].overwrite
  BY <1>3 DEF SettleCancel, Persist, IInv, DataInv, DocInv, Document
<1>6. /\ Known(t)' /\ ~IsLive(t)' /\ AtHome(t)' = AtHome(t)
      /\ Copied(t)' = Copied(t) /\ Arrived(t)' = Arrived(t)
  BY <1>1, <1>3, <1>5 DEF Known, IsLive, Active, Phase, AtHome, Copied, Arrived
<1>7. \A x : Ready(t, x)' = Ready(t, x)
  BY <1>6 DEF Ready
<1>8. StoreInv' /\ PlacementStep
  BY <1>1, NothingPlaced DEF PlacedInv
<1>9. Paper(t)' /\ Failed(t)'
  BY <1>3, <1>5, <1>6 DEF TaskInv, Paper, Failed
<1>10. Planned(t)'
  <2>1. DOMAIN plan = {}
    BY <1>2 DEF PlacedInv
  <2> QED BY <1>1, <1>3, <1>7, <2>1 DEF TaskInv, Planned, jobVars, bootVars
<1>11. ASSUME NEW w \in Workers, TaskOf(w) = t PROVE RunAt(t, w)'
  <2>1. RunAt(t, w)
    BY <1>3, <1>11 DEF TaskInv
  <2> QED BY <1>1, <1>5, <1>6, <1>7, <2>1 DEF RunAt, Knows, jobVars
<1>12. ASSUME NEW k \in Clients, client'[k].task = t PROVE CallAt(t, k)'
  <2>1. CASE k = c
    BY <1>4, <2>1 DEF CallAt, Creating, Retrying
  <2>2. CASE k # c
    <3>1. client'[k] = client[k] /\ CallAt(t, k)
      BY <1>3, <1>4, <1>12, <2>2 DEF TaskInv
    <3>2. client[k].op \notin Retrying /\ client[k].op # "insert"
      BY <1>3, <2>2, <3>1 DEF CallAt, MovesApart
    <3>3. IsActive(t)' = IsActive(t)
      BY <1>1 DEF IsActive, jobVars
    <3>4. \A j \in Clients : client'[j].op \in Creating => client'[j] = client[j]
      BY <1>4 DEF Creating
    <3> QED BY <1>5, <1>6, <3>1, <3>2, <3>3, <3>4 DEF CallAt, Creating, Retrying
  <2> QED BY <2>1, <2>2
<1> QED BY <1>1, <1>2, <1>4, <1>5, <1>8, <1>9, <1>10, <1>11, <1>12, CallWrites DEF jobVars

(* A retry: the task is at home and nobody works on it.                    *)
LEMMA RetryPlaced ==
  ASSUME IInv, MovesApart, PlacedInv, NEW c \in Clients, NEW t \in Tasks, PrepareRetry(c, t)
  PROVE  PlacedInv' /\ PlacementStep
<1>1. /\ doc[t].status = "FAILED" /\ ~booting /\ "retry" \in Events
      /\ UNCHANGED <<jobVars, doc, rec, wk, flags, bootVars, restarts>>
      /\ TaskInv(t)
  BY DEF PrepareRetry, Idle, PlacedInv
<1>2. AtHome(t) /\ doc[t].failed = "PROCESSING" /\ Over(t)
  BY <1>1 DEF TaskInv, Failed
<1>3. Known(t) /\ doc[t].tgt \in Targets(t) /\ ~IsLive(t)
  BY <1>1 DEF TaskInv, Paper, Known, IsLive, Active, Phase
<1>4. RESUME_POINT["PROCESSING"] = "PROCESSING"
  BY DEF RESUME_POINT, Active, Phase
<1>5. file' \in AfterCleanup(t) /\ Await(c, "reset", t, "PROCESSING")
  BY <1>2, <1>4 DEF PrepareRetry
<1> DEFINE r == [client[c] EXCEPT !.op = "reset", !.task = t, !.start = "PROCESSING"]
<1>6. /\ r \in Call /\ r.task = t /\ r.op = "reset" /\ r.start = "PROCESSING"
      /\ client' = [client EXCEPT ![c] = r] /\ client'[c] = r
      /\ \A k \in Clients : k = c
  BY <1>1, <1>5 DEF Await, Call, Ops, Phase, IInv, CallInv, MovesApart
<1> HIDE DEF r
<1>7. StoreInv' /\ PlacementStep
  BY <1>1, <1>2, <1>3, <1>5, TargetWritten, NothingPlaced
     DEF AfterCleanup, IInv, DataInv, PlacedInv
<1>8. \A p \in Paths \ Targets(t) : file'[p] = file[p]
  BY <1>3, <1>5 DEF AfterCleanup, IInv, DataInv, StoreTypeOK
<1>9. AtHome(t)' /\ Known(t)' /\ ~IsLive(t)' /\ Over(t)'
  BY <1>1, <1>2, <1>3 DEF AtHome, Known, IsLive, Over, TaskOf, jobVars
<1>10. Paper(t)' /\ Failed(t)'
  <2>1. doc' = doc
    BY <1>1
  <2>2. doc[t].src = HomeOf(t) /\ doc[t].tgt \in Targets(t) /\ ~doc[t].overwrite
    BY <1>1, <1>3 DEF TaskInv, Paper
  <2>3. Paper(t)'
    BY <1>9, <2>1, <2>2 DEF Paper
  <2>4. Failed(t)'
    BY <1>2, <1>9, <2>1 DEF Failed
  <2> QED BY <2>3, <2>4
<1>11. Planned(t)'
  <2>1. \A i \in DOMAIN queue : queue[i].task # t
    BY <1>2 DEF Over, IInv, JobInv, ExclusiveRun, TasksIn
  <2> QED BY <1>1, <2>1 DEF Planned, PlacedInv, jobVars, bootVars
<1>12. \A w \in Workers : TaskOf(w) = t => RunAt(t, w)'
  BY <1>1, <1>2 DEF Over, RunAt, Knows, HasHome, HasCopy, HasMoved, Copying, InLoop
<1>13. \A k \in Clients : CallAt(t, k)'
  BY <1>1, <1>6 DEF CallAt, Creating, Retrying
<1> QED BY <1>1, <1>6, <1>7, <1>8, <1>10, <1>11, <1>12, <1>13, CallWrites DEF jobVars

LEMMA ResetPlaced ==
  ASSUME IInv, MovesApart, PlacedInv, NEW c \in Clients, ResetTask(c)
  PROVE  PlacedInv' /\ PlacementStep
<1>1. /\ client[c].op = "reset"
      /\ UNCHANGED <<jobVars, file, rec, wk, flags, bootVars, restarts>>
  BY DEF ResetTask
<1>2. ~booting
  BY <1>1, CallHere
<1>3. PICK t \in Tasks : client[c].task = t /\ CallAt(t, c) /\ TaskInv(t) /\ Known(t)
  BY <1>1, CallHere
<1>4. /\ doc[t].status = "FAILED" /\ AtHome(t) /\ Over(t)
      /\ "retry" \in Events /\ client[c].start = "PROCESSING"
  BY <1>1, <1>3 DEF CallAt, TaskInv, Failed, Retrying
<1> DEFINE r == [client[c] EXCEPT !.op = "resubmit"]
<1>5. /\ r \in Call /\ r.task = t /\ r.op = "resubmit" /\ r.start = "PROCESSING"
      /\ client' = [client EXCEPT ![c] = r] /\ client'[c] = r
      /\ \A k \in Clients : k = c
  BY <1>3, <1>4 DEF ResetTask, Call, Ops, IInv, CallInv, MovesApart
<1> HIDE DEF r
<1>6. /\ \A u \in Tasks \ {t} : doc'[u] = doc[u]
      /\ doc'[t].status = "PENDING" /\ doc'[t].src = doc[t].src
      /\ doc'[t].tgt = doc[t].tgt /\ doc'[t].overwrite = doc[t].overwrite
  BY <1>3 DEF ResetTask, Persist, IInv, DataInv, DocInv, Document
<1>7. AtHome(t)' /\ Known(t)' /\ Over(t)'
  BY <1>1, <1>4, <1>6 DEF AtHome, Known, Over, TaskOf, jobVars
<1>8. StoreInv' /\ PlacementStep
  BY <1>1, NothingPlaced DEF PlacedInv
<1>9. Paper(t)'
  <2>1. Ready(t, RESUME_POINT["PENDING"])'
    BY <1>7 DEF Ready, RESUME_POINT, Active, Phase
  <2> QED BY <1>3, <1>6, <1>7, <2>1 DEF TaskInv, Paper
<1>10. Failed(t)'
  BY <1>6 DEF Failed
<1>11. Planned(t)'
  <2>1. \A i \in DOMAIN queue : queue[i].task # t
    BY <1>4 DEF Over, IInv, JobInv, ExclusiveRun, TasksIn
  <2> QED BY <1>1, <1>2, <2>1 DEF Planned, PlacedInv, jobVars, bootVars
<1>12. \A w \in Workers : TaskOf(w) = t => RunAt(t, w)'
  BY <1>1, <1>4 DEF Over, RunAt, Knows, HasHome, HasCopy, HasMoved, Copying, InLoop
<1>13. \A k \in Clients : CallAt(t, k)'
  BY <1>4, <1>5, <1>6, <1>7 DEF CallAt, Creating, Retrying
<1> QED BY <1>1, <1>2, <1>5, <1>6, <1>8, <1>9, <1>10, <1>11, <1>12, <1>13, CallWrites
       DEF jobVars


-----------------------------------------------------------------------------
(* The process stops: whoever worked on a task is gone, and recovery finds *)
(* it as far as its document says.                                         *)
LEMMA RestartPlaced ==
  ASSUME IInv, MovesApart, PlacedInv, Restart
  PROVE  PlacedInv' /\ PlacementStep
<1>1. /\ UNCHANGED <<doc, file, rec>> /\ booting' /\ plan' = <<>> /\ queue' = <<>>
      /\ waiting' = {} /\ running' = {}
      /\ job' = [w \in Workers |-> NoJob] /\ client' = [c \in Clients |-> IdleClient]
  BY DEF Restart, Forget, dataVars
<1>2. restarts = 0 /\ restarts' # 0
  <2>1. restarts \in Nat /\ MaxRestarts \in Nat
    BY MigrationAssumption DEF IInv, BootInv, BootTypeOK
  <2>2. restarts < MaxRestarts /\ restarts' = restarts + 1 /\ MaxRestarts <= 1
    BY DEF Restart, MovesApart
  <2> QED BY <2>1, <2>2
<1>3. NoJob.task = None /\ IdleClient.task = None
  BY DEF NoJob, IdleClient
<1>4. ASSUME NEW u \in Tasks PROVE TaskInv(u)'
  <2>1. u # None
    BY NoneAssumption
  <2>2. \A w \in Workers : job'[w].task # u
    BY <1>1, <1>3, <2>1
  <2>3. \A c \in Clients : client'[c].task # u
    BY <1>1, <1>3, <2>1
  <2>4. DOMAIN queue' = {} /\ DOMAIN plan' = {}
    BY <1>1
  <2>5. Stays(u)
    BY <1>1, <1>2, <2>2, <2>3, <2>4 DEF Stays
  <2> QED BY <2>5, StaysPlaced DEF PlacedInv
<1>5. StoreInv' /\ PlacementStep
  BY <1>1, NothingPlaced DEF PlacedInv
<1> QED BY <1>1, <1>2, <1>4, <1>5 DEF PlacedInv

(* plan_recovery rewinds a task only as far as it may: what the resumed    *)
(* run relies on is left as it is.                                         *)
LEMMA PlanOrphanPlaced ==
  ASSUME IInv, MovesApart, PlacedInv, NEW t \in Tasks, PlanOrphan(t)
  PROVE  PlacedInv' /\ PlacementStep
<1>s. PICK s \in Phase : s = RESUME_POINT[doc[t].status]
  BY DEF PlanOrphan, IInv, BootInv, PlanInv, IsLive, RESUME_POINT, Active, Phase
<1>1. /\ booting /\ booting' /\ Alone /\ PlanInv /\ t \in orphans /\ IsLive(t) /\ TaskInv(t)
      /\ UNCHANGED <<jobVars, rec, wk, flags, client, restarts>>
      /\ restarts # 0 /\ orphans' = orphans \ {t}
      /\ file' \in IF s = "PROCESSING" THEN AfterCleanup(t) ELSE {file}
      /\ plan' = Append(plan, JobOf(t, s))
  BY <1>s DEF PlanOrphan, IInv, BootInv, PlanInv, PlacedInv
<1>2. UNCHANGED <<queue, waiting, running, job>>
  BY <1>1 DEF jobVars
<1>3. Known(t) /\ Ready(t, s) /\ doc[t].src = HomeOf(t) /\ doc[t].tgt \in Targets(t)
      /\ ~doc[t].overwrite /\ (AtHome(t) \/ Arrived(t))
  BY <1>s, <1>1 DEF TaskInv, Paper, Known, IsLive, Active, Phase
<1>4. /\ \A u \in Tasks \ {t} : doc'[u] = doc[u]
      /\ doc'[t].status = "PENDING" /\ doc'[t].src = doc[t].src
      /\ doc'[t].tgt = doc[t].tgt /\ doc'[t].overwrite = doc[t].overwrite
  BY DEF PlanOrphan, Persist, IInv, DataInv, DocInv, Document
<1>6. StoreInv' /\ PlacementStep
  <2>1. CASE s = "PROCESSING"
    <3>1. AtHome(t)
      BY <1>3, <2>1 DEF Ready
    <3> QED BY <1>1, <1>3, <2>1, <3>1, TargetWritten, NothingPlaced
            DEF AfterCleanup, IInv, DataInv, PlacedInv
  <2>2. CASE s # "PROCESSING"
    BY <1>1, <2>2, NothingPlaced DEF PlacedInv
  <2> QED BY <2>1, <2>2
<1>7. \A p \in Paths \ Targets(t) : file'[p] = file[p]
  BY <1>1, <1>3 DEF AfterCleanup, IInv, DataInv, StoreTypeOK
<1>8. /\ AtHome(t)' = AtHome(t) /\ Known(t)' /\ Arrived(t)' = Arrived(t)
      /\ s # "PROCESSING" => Copied(t)' = Copied(t)
  BY <1>1, <1>3, <1>4 DEF AtHome, Known, Arrived, Copied
<1>9. Ready(t, s)'
  <2>1. /\ s = "PROCESSING" => AtHome(t)'
        /\ s = "UPDATING_DB" => Copied(t)'
        /\ s = "DELETING_SOURCE" => Arrived(t)'
    BY <1>3, <1>8 DEF Ready
  <2> QED BY <2>1 DEF Ready
<1>10. Paper(t)'
  BY <1>1, <1>3, <1>4, <1>8 DEF Paper
<1>11. Failed(t)'
  BY <1>4 DEF Failed
<1>12. plan \in Seq(Job) /\ t \notin TasksIn(plan) /\ DOMAIN queue = {}
  <2>1. queue = <<>>
    BY <1>1, NothingQueued DEF IInv, Alone
  <2> QED BY <1>1, <2>1 DEF IInv, BootInv, BootTypeOK, PlanInv
<1>13. \A i \in DOMAIN plan' :
         \/ plan'[i] = JobOf(t, s) /\ i \notin DOMAIN plan
         \/ i \in DOMAIN plan /\ plan'[i] = plan[i] /\ plan[i].task # t
  BY <1>1, <1>12 DEF TasksIn
<1>14. Planned(t)'
  <2>1. \A i \in DOMAIN plan' : plan'[i].task = t => plan'[i].start = s
    BY <1>13 DEF JobOf
  <2> QED BY <1>2, <1>4, <1>9, <1>12, <2>1 DEF Planned, Ready
<1>15. \A w \in Workers : job[w].task = None
  BY <1>1 DEF Alone, IInv, RunInv
<1>16. TaskInv(t)'
  <2>1. \A w \in Workers : TaskOf(w)' # t
    BY <1>2, <1>15, NoneAssumption DEF TaskOf
  <2>2. \A c \in Clients : CallAt(t, c)'
    BY <1>1 DEF CallAt, Alone, Creating, Retrying
  <2> QED BY <1>10, <1>11, <1>14, <2>1, <2>2 DEF TaskInv
<1>17. ASSUME NEW u \in Tasks \ {t} PROVE TaskInv(u)'
  <2>1. \A p \in Targets(u) : file'[p] = file[p]
    BY <1>7, TargetsApart
  <2>2. \A i \in DOMAIN plan' : plan'[i].task = u => \E j \in DOMAIN plan : plan[j] = plan'[i]
    BY <1>13, <1>17 DEF JobOf
  <2>3. Stays(u)
    BY <1>1, <1>2, <1>4, <2>1, <2>2 DEF Stays
  <2> QED BY <2>3, StaysPlaced DEF PlacedInv
<1> QED BY <1>1, <1>6, <1>16, <1>17 DEF PlacedInv

(* recover() queues what was planned. *)
LEMMA BootEndPlaced ==
  ASSUME IInv, MovesApart, PlacedInv, RecoverPlan \/ \E t \in Tasks : RecoveryFails(t)
  PROVE  PlacedInv' /\ PlacementStep
<1>1. RecoverPlan
  BY DEF RecoveryFails, MovesApart
<1>2. /\ booting /\ booting' = FALSE /\ Alone /\ plan' = <<>> /\ orphans = {}
      /\ UNCHANGED <<doc, file, rec, wk, client, orphans, restarts, job, running>>
      /\ queue' = queue \o plan /\ restarts # 0
  BY <1>1 DEF RecoverPlan, SubmitPlan, dataVars, IInv, BootInv, PlacedInv
<1>3. queue = <<>> /\ plan \in Seq(Job) /\ queue' = plan
  BY <1>2, NothingQueued DEF IInv, Alone, BootInv, BootTypeOK
<1>4. StoreInv' /\ PlacementStep
  BY <1>2, NothingPlaced DEF PlacedInv
<1>5. \A w \in Workers : job[w].task = None
  BY <1>2 DEF Alone, IInv, RunInv
<1>6. ASSUME NEW t \in Tasks PROVE TaskInv(t)'
  <2>1. TaskInv(t)
    BY DEF PlacedInv
  <2>2. /\ AtHome(t)' = AtHome(t) /\ Arrived(t)' = Arrived(t)
        /\ \A s : Ready(t, s)' = Ready(t, s)
    BY <1>2, SameProgress
  <2>3. Paper(t)'
    BY <1>2, <2>1, <2>2 DEF TaskInv, Paper, Known, IsLive
  <2>4. doc[t].status = "FAILED" => t \notin TasksIn(plan)
    BY <2>1 DEF TaskInv, Planned, TasksIn
  <2>5. waiting' = TasksIn(plan)
    BY <1>1, <1>2 DEF RecoverPlan, SubmitPlan, Alone
  <2>6. Failed(t)'
    BY <1>2, <1>5, <2>1, <2>2, <2>4, <2>5, NoneAssumption DEF TaskInv, Failed, Over, TaskOf
  <2>7. Planned(t)'
    BY <1>2, <1>3, <2>1, <2>2 DEF TaskInv, Planned
  <2>8. \A w \in Workers : TaskOf(w)' # t
    BY <1>2, <1>5, NoneAssumption DEF TaskOf
  <2>9. \A c \in Clients : CallAt(t, c)'
    BY <1>2 DEF CallAt, Alone, Creating, Retrying
  <2> QED BY <2>3, <2>6, <2>7, <2>8, <2>9 DEF TaskInv
<1> QED BY <1>2, <1>4, <1>6 DEF PlacedInv


-----------------------------------------------------------------------------
LEMMA RequestPlaced ==
  ASSUME IInv, MovesApart, PlacedInv, NEW c \in Clients, RequestStep(c)
  PROVE  PlacedInv' /\ PlacementStep
BY CreatePlaced, AskPlaced, InsertPlaced, SubmitPlaced, SettlePlaced, RetryPlaced,
   ResetPlaced DEF RequestStep

LEMMA WorkPlaced ==
  ASSUME IInv, MovesApart, PlacedInv, NEW w \in Workers,
         TakeJob(w) \/ RunStep(w) \/ CopyStep(w) \/ UpdateStep(w)
  PROVE  PlacedInv' /\ PlacementStep
<1>1. CASE TakeJob(w)
  BY <1>1, TakeJobPlaced
<1>2. CASE RunStep(w)
  BY <1>2, LoadPlaced, SavesPlaced, NothingRaises, SaveFailedPlaced, EndRunPlaced
     DEF RunStep
<1>3. CASE CopyStep(w)
  BY <1>3, CopyPlaced, NothingRaises
<1>4. CASE UpdateStep(w)
  BY <1>4, UpdatePlaced, NothingRaises
<1> QED BY <1>1, <1>2, <1>3, <1>4

LEMMA InitPlaced ==
  ASSUME MovesApart, MigrationInit
  PROVE  PlacedInv
<1>1. /\ doc = [t \in Tasks |-> NoDoc] /\ rec = Home /\ queue = <<>> /\ plan = <<>>
      /\ job = [w \in Workers |-> NoJob] /\ client = [c \in Clients |-> IdleClient]
      /\ booting = FALSE /\ orphans = {}
  BY DEF MigrationInit, JobInit
<1>2. \A p \in Paths : file[p] =
        IF \E v \in Videos : Home[v] = p THEN CHOOSE v \in Videos : Home[v] = p ELSE None
  BY DEF MigrationInit
<1>3. \A v \in Videos : Home[v] \in Paths /\ file[Home[v]] = v
  BY <1>2, MigrationAssumption
<1>4. \A t \in Tasks : \A p \in Targets(t) : file[p] = None
  BY <1>2, TargetsApart
<1>5. StoreInv
  BY <1>1, <1>3, <1>4 DEF StoreInv
<1>6. ASSUME NEW t \in Tasks PROVE TaskInv(t)
  <2>1. doc[t].status = "NONE"
    BY <1>1 DEF NoDoc
  <2>2. ~IsLive(t) /\ ~Known(t) /\ doc[t].status # "FAILED" /\ AtHome(t)
    BY <1>1, <2>1 DEF IsLive, Known, Active, Phase, AtHome, HomeOf
  <2>3. Paper(t) /\ Failed(t)
    BY <2>2 DEF Paper, Failed
  <2>4. Planned(t)
    BY <1>1 DEF Planned
  <2>5. \A w \in Workers : TaskOf(w) # t
    BY <1>1, NoneAssumption DEF NoJob, TaskOf
  <2>6. \A c \in Clients : client[c].task # t
    BY <1>1, NoneAssumption DEF IdleClient
  <2> QED BY <2>3, <2>4, <2>5, <2>6 DEF TaskInv
<1> QED BY <1>1, <1>5, <1>6 DEF PlacedInv

LEMMA StepPlaced ==
  ASSUME MovesApart, IInv, PlacedInv, [Next]_vars
  PROVE  PlacedInv' /\ PlacementStep
<1>1. CASE UNCHANGED vars
  <2>1. /\ UNCHANGED <<doc, file, rec, wk, client, restarts>>
        /\ UNCHANGED <<queue, waiting, running, job, booting, orphans, plan>>
    BY <1>1 DEF vars, jobVars, dataVars, bootVars
  <2>2. \A u \in Tasks : Stays(u)
    BY <2>1 DEF Stays, IsLive
  <2>3. \A u \in Tasks : TaskInv(u)'
    BY <2>2, StaysPlaced DEF PlacedInv
  <2> QED BY <2>1, <2>3, NothingPlaced DEF PlacedInv
<1>2. CASE Next
  <2>1. ASSUME NEW t \in Tasks, PlanOrphan(t) PROVE PlacedInv' /\ PlacementStep
    BY <2>1, PlanOrphanPlaced
  <2>2. CASE RecoverPlan \/ \E t \in Tasks : RecoveryFails(t)
    BY <2>2, BootEndPlaced
  <2> QED BY <1>2, <2>1, <2>2, RequestPlaced, WorkPlaced, RestartPlaced DEF Next, BootStep
<1> QED BY <1>1, <1>2


LEMMA PlacedAlways == ASSUME MovesApart PROVE Spec => [](IInv /\ PlacedInv)
<1>1. MigrationInit => IInv /\ PlacedInv
  BY InitIInv, InitPlaced
<1>2. (IInv /\ PlacedInv) /\ [Next]_vars => (IInv /\ PlacedInv)'
  BY StepIInv, StepPlaced
<1> QED BY <1>1, <1>2, PTL DEF Spec

-----------------------------------------------------------------------------
(* A video with a record has its whole bytes somewhere, in every state of  *)
(* every run: no create, copy, cleanup, retry, rewind or deletion of a     *)
(* source ever removes the last copy.                                      *)
THEOREM BytesAreKept == ASSUME MovesApart PROVE Spec => []BytesKept
<1>1. ASSUME IInv, PlacedInv PROVE BytesKept
  <2>1. \A v \in Videos : rec[v] \in Paths /\ file[rec[v]] = v
    BY <1>1, RecordsApart DEF PlacedInv, StoreInv
  <2> QED BY <2>1, AllKept DEF BytesKept
<1> QED BY <1>1, PlacedAlways, PTL

(* The path in a record always leads to the bytes of its own video: what   *)
(* the catalogue lists, the player can open.                               *)
THEOREM RecordsArePlayable == ASSUME MovesApart PROVE Spec => []RecordPlayable
<1>1. ASSUME PlacedInv PROVE RecordPlayable
  BY <1>1, AllKept DEF RecordPlayable, PlacedInv, StoreInv
<1> QED BY <1>1, PlacedAlways, PTL

(* No job of a task whose record has moved starts with the copy, which     *)
(* would first remove the file the record points at.                       *)
THEOREM NothingRecopied == ASSUME MovesApart PROVE Spec => []NeverRecopied
<1>1. ASSUME PlacedInv PROVE NeverRecopied
  <2> SUFFICES ASSUME NEW t \in Tasks, Moved(t)
               PROVE  /\ \A i \in DOMAIN queue :
                           queue[i].task = t => queue[i].start # "PROCESSING"
                      /\ \A w \in Workers :
                           TaskOf(w) = t /\ wk[w].pc \in {"load", "save processing"}
                             => job[w].start # "PROCESSING"
    BY DEF NeverRecopied
  <2>1. TaskInv(t) /\ Known(t) /\ rec[Vid(t)] = doc[t].tgt
    BY <1>1 DEF PlacedInv, Moved, IsLive, Known, Active, Phase, Vid
  <2>2. ~AtHome(t)
    BY <2>1, TargetsApart DEF TaskInv, Paper, AtHome, HomeOf
  <2>3. ~Ready(t, "PROCESSING")
    BY <2>2 DEF Ready
  <2>4. \A i \in DOMAIN queue : queue[i].task = t => queue[i].start # "PROCESSING"
    BY <2>1, <2>3 DEF TaskInv, Planned
  <2>5. ASSUME NEW w \in Workers, TaskOf(w) = t,
               wk[w].pc \in {"load", "save processing"}
        PROVE  job[w].start # "PROCESSING"
    <3>1. RunAt(t, w)
      BY <2>1, <2>5 DEF TaskInv
    <3> QED BY <2>2, <2>3, <2>5, <3>1 DEF RunAt, Knows, HasHome
  <2> QED BY <2>4, <2>5
<1> QED BY <1>1, PlacedAlways, PTL

(* COMPLETED is written by one save only. *)
LEMMA OneSaveCompletes ==
  ASSUME IInv, Next, NEW t \in Tasks,
         doc[t].status # "COMPLETED", doc'[t].status = "COMPLETED"
  PROVE  \E w \in Workers : SaveCompleted(w) /\ TaskOf(w) = t
<1>0. doc \in [Tasks -> Document]
  BY DEF IInv, DataInv, DocInv
<1>1. ASSUME NEW u \in Tasks, NEW s, Persist(u, s)
      PROVE  u = t /\ s = "COMPLETED"
  BY <1>1 DEF Persist, IInv, DataInv, DocInv, Document
<1>2. ASSUME NEW w \in Workers, wk[w].pc # "idle" PROVE TaskOf(w) \in Tasks
  BY <1>2, TaskOfWorker
<1>3. ASSUME NEW c \in Clients, RequestStep(c) PROVE FALSE
  <2>1. client[c].op # "idle" => client[c].task \in Tasks
    BY DEF IInv, CallInv, CallOK
  <2>2. CASE InsertTask(c)
    BY <2>1, <2>2 DEF InsertTask, IInv, DataInv, DocInv, Document
  <2>3. CASE SettleCancel(c) \/ ResetTask(c)
    BY <1>1, <2>1, <2>3 DEF SettleCancel, ResetTask
  <2> QED BY <1>3, <2>2, <2>3 DEF RequestStep, CreateTask, CancelTask, PrepareRetry,
             SubmitTask, RequestCancel, WriteRefused, HangUp, dataVars
<1>4. ASSUME NEW w \in Workers, RunStep(w) PROVE SaveCompleted(w) /\ TaskOf(w) = t
  <2>1. ASSUME NEW pc \in Pcs, NEW x \in Status \ {"COMPLETED"}, NEW next \in Pcs,
               SaveStatus(w, pc, x, next), pc # "idle"
        PROVE  FALSE
    <3>1. wk[w].pc # "idle" /\ Persist(TaskOf(w), x)
      BY <2>1 DEF SaveStatus, At
    <3>2. TaskOf(w) \in Tasks
      BY <1>2, <3>1
    <3> QED BY <1>0, <3>1, <3>2 DEF Persist, Document
  <2>2. ~SaveProcessing(w) /\ ~SaveProcessDone(w)
    BY <2>1 DEF SaveProcessing, SaveProcessDone, Pcs, SavedStatus, Status, Active, Phase
  <2>3. ~SaveUpdating(w) /\ ~SaveDbUpdated(w)
    BY <2>1 DEF SaveUpdating, SaveDbUpdated, Pcs, SavedStatus, Status, Active, Phase
  <2>4. ~SaveDeleting(w) /\ ~SaveDropped(w) /\ ~SaveCancelled(w)
    BY <2>1 DEF SaveDeleting, SaveDropped, SaveCancelled, Pcs, SavedStatus, Status,
       Active, Phase, TERMINAL
  <2>5. ~SaveFailed(w)
    BY <1>2 DEF SaveFailed, At, IInv, DataInv, DocInv, Document
  <2>6. SaveCompleted(w)
    BY <1>4, <2>2, <2>3, <2>4, <2>5 DEF RunStep, SkipSettled, DropQueued, StartRun, SaveRaises,
       RunCrashes, EndRun, dataVars
  <2> QED BY <1>0, <1>2, <2>6 DEF SaveCompleted, SaveStatus, At, Persist, Document
<1>5. ASSUME NEW w \in Workers, TakeJob(w) \/ CopyStep(w) \/ UpdateStep(w) PROVE FALSE
  <2>1. ~FlushProgress(w)
    BY <1>1, <1>2 DEF FlushProgress, InLoop, Copying
  <2> QED BY <1>5, <2>1 DEF TakeJob, CopyStep, CopyOpen, CopyRead, CopyWrite,
      CopyCancelled, CopyFails, FlushRaises, UpdateStep, FindRecord, FindMissing,
      FindMoved, FindConflict, DeleteConflict, Repoint, UpdateRaises, DeleteSource,
      dataVars
<1>6. CASE Restart \/ BootStep
  <2>1. \A u \in Tasks : ~PlanOrphan(u)
    BY <1>1 DEF PlanOrphan
  <2> QED BY <1>6, <2>1 DEF Restart, BootStep, RecoverPlan, RecoveryFails, dataVars
<1> QED BY <1>3, <1>4, <1>5, <1>6 DEF Next

(* A task is reported COMPLETED only when its record is at the target and  *)
(* so are the bytes.                                                       *)
THEOREM CompletedIsMoved == ASSUME MovesApart PROVE Spec => CompletedMeansMoved
<1> DEFINE Done(t) == doc[t].status # "COMPLETED" /\ doc'[t].status = "COMPLETED"
                        => /\ rec[Request[t].video] = doc[t].tgt
                           /\ file[doc[t].tgt] = Request[t].video
<1>1. ASSUME IInv, PlacedInv, [Next]_vars
      PROVE  [\A t \in Tasks : Done(t)]_vars
  <2> SUFFICES ASSUME Next, NEW t \in Tasks, doc[t].status # "COMPLETED",
                      doc'[t].status = "COMPLETED"
               PROVE  rec[Request[t].video] = doc[t].tgt /\ file[doc[t].tgt] = Request[t].video
    BY <1>1
  <2>1. PICK w \in Workers : SaveCompleted(w) /\ TaskOf(w) = t
    BY <1>1, OneSaveCompletes
  <2>2. wk[w].pc = "save completed" /\ RunAt(t, w)
    BY <1>1, <2>1 DEF SaveCompleted, SaveStatus, At, PlacedInv, TaskInv
  <2>3. rec[Vid(t)] = doc[t].tgt
    BY <2>2 DEF RunAt, Knows, HasMoved, Arrived
  <2>4. file[rec[Vid(t)]] = Vid(t)
    BY <1>1, TargetsApart DEF PlacedInv, StoreInv
  <2> QED BY <2>3, <2>4 DEF Vid
<1> QED BY <1>1, PlacedAlways, PTL DEF Spec, CompletedMeansMoved

(* Migration implements Placement: every step of the whole system, of      *)
(* whichever request, worker or recovery, copies a video whole to a free   *)
(* path, points its record at a whole copy, drops a copy no record points  *)
(* at, or does nothing to the placement of the videos.                     *)
THEOREM ImplementsPlacement == ASSUME MovesApart PROVE Spec => KeepsPlacement
<1>1. MigrationInit => P!Init
  <2> SUFFICES ASSUME MigrationInit PROVE P!Init
    OBVIOUS
  <2>1. rec = Home /\ \A p \in Paths : file[p] =
          IF \E v \in Videos : Home[v] = p THEN CHOOSE v \in Videos : Home[v] = p ELSE None
    BY DEF MigrationInit
  <2>2. Kept = Videos /\ \A v \in Videos : Home[v] \in Paths
    BY AllKept, MigrationAssumption
  <2>3. At1 \in [Kept -> Paths]
    BY <2>1, <2>2 DEF At1
  <2>4. ASSUME NEW v \in Kept PROVE {p \in Paths : file[p] = v} = {At1[v]}
    BY <2>1, <2>2, MigrationAssumption DEF At1
  <2>5. Copies = [v \in Kept |-> {At1[v]}]
    BY <2>4 DEF Copies
  <2> QED BY <2>3, <2>5 DEF P!Init, At1, Copies
<1>2. ASSUME IInv, PlacedInv, [Next]_vars PROVE [P!Next]_<<At1, Copies>>
  BY <1>2, StepPlaced DEF PlacementStep
<1>3. Spec => P!Init /\ [][P!Next]_<<At1, Copies>>
  BY <1>1, <1>2, PlacedAlways, PTL DEF Spec
<1> QED BY <1>3, PTL DEF KeepsPlacement, P!Spec, At1, Copies
==============================================================================
