------------------------------ MODULE Catalogue ------------------------------
(***************************************************************************)
(* The catalogue: the video records, the series that list them, the tag    *)
(* counters, the files on the storage, and the requests that change them   *)
(* one database call at a time (features/catalog: catalog_service.py,      *)
(* series_service.py, tag_operation_service.py; features/browsing:         *)
(* batch_operation_service.py and the listing of browse_file_service.py;   *)
(* features/playback/thumbnail_service.py), beside a migration that moves  *)
(* one video and holds its two paths locked meanwhile.                     *)
(*                                                                         *)
(* Granularity.  A step is one database call with the code that runs until *)
(* the next one.  pc names the call a request is about to make; what it    *)
(* has read stays in its own copies, however old they get.                 *)
(*                                                                         *)
(* Data.  Of a record: its path, its tags, its back-reference to a series. *)
(* A file is there or not.  The directory aggregates a request refreshes   *)
(* at the end are in DirMetadata, the details of a migration in Migration. *)
(***************************************************************************)
EXTENDS SeriesOrder, Integers

CONSTANTS
  Requests,     \* bound: each of them asks for one thing
  Inputs,       \* what they may ask for
  Ids,          \* _id of the video records, those still unused among them
  Paths, Tags,
  Series,       \* _id of the series, each used once
  NameOf,       \* the name each of them has
  Dir,          \* the paths of one directory
  Home,         \* the path of each record at the start; None: unused
  Tagged,       \* its tags then
  Start,        \* the lists the series may have then; <<>>: no such series
  Stored,       \* the files there at the start, those with no record included
  Moves,        \* the migrations that may be asked for
  None

Ops == {"view", "thumbnail", "duration", "edit", "delete", "batch update",
        "batch delete", "directory update", "directory delete", "list"}
SeriesInputs == {"keep", "clear", "assign"}
Question == [op : Ops, id : Ids, ids : Seq(Ids), series : SeriesInputs,
             name : {NameOf[s] : s \in Series} \cup {None},
             add : SUBSET Tags, remove : SUBSET Tags]

(* _validated_series_sequence: the order an edit gives has its own video.  *)
Input ==
  {in \in Question : in.op = "edit" /\ in.series = "assign" => in.id \in Elems(in.ids)}

ASSUME CatalogueAssumption ==
  /\ None \notin Ids \cup Paths \cup Series \cup Int
  /\ IsFiniteSet(Ids) /\ IsFiniteSet(Paths) /\ IsFiniteSet(Series) /\ IsFiniteSet(Tags)
  /\ Inputs \subseteq Input
  /\ Dir \subseteq Paths /\ Stored \subseteq Paths
  /\ Home \in [Ids -> Stored \cup {None}]
  /\ \A i, j \in Ids : Home[i] = Home[j] /\ Home[i] # None => i = j
  /\ Tagged \in [Ids -> SUBSET Tags]
  /\ \A l \in Start :
       /\ l \in [Series -> Seq({i \in Ids : Home[i] # None})]
       /\ \A s \in Series : IsInjectiveSeq(l[s])
       /\ \A s, u \in Series : s # u /\ l[s] # <<>> /\ l[u] # <<>> =>
            Elems(l[s]) \cap Elems(l[u]) = {} /\ NameOf[s] # NameOf[u]
  /\ Moves \subseteq [id : Ids, tgt : Paths, overwrite : BOOLEAN]

VARIABLES
  doc,        \* the records in the collection "videos"
  fresh,      \* the _ids not given out yet
  alive,      \* the series in the collection "series"
  unborn,     \* those not inserted yet
  list,       \* videoIds of each series
  count,      \* the counter of each tag; None: no document
  files,      \* the paths where something lies
  move,       \* the migration that is under way
  req,        \* each request's call and copies
  contended   \* history: two actors worked on one video, or on series, at once

seriesVars == <<alive, unborn, list>>
dataVars == <<doc, fresh, seriesVars, count, files>>
vars == <<dataVars, move, req, contended>>

Rec == [path : Paths \cup {None}, tags : SUBSET Tags, series : Series \cup {None}]
NoRec == [path |-> None, tags |-> {}, series |-> None]
Exists(i) == doc[i].path # None
At(p) == {i \in Ids : doc[i].path = p}
Names == {NameOf[s] : s \in Series}
Named(n) == {s \in alive : NameOf[s] = n}

NoMove == [phase |-> "none", id |-> None, src |-> None, tgt |-> None, overwrite |-> FALSE]

Moving == move.phase \in {"copying", "copied", "moved"}

(* Bug: only the end a migration reads from is locked. *)
Locked_Source(p) == Moving /\ p = move.src

(* Both ends of an unfinished migration are. *)
Locked(p) == Moving /\ p \in {move.src, move.tgt}

Unread == [i \in Ids |-> NoRec]
NoChange == [t \in Tags |-> 0]
Fresh == [pc |-> "new", in |-> None, seen |-> Unread, delta |-> NoChange,
          order |-> <<>>, back |-> [i \in Ids |-> None], target |-> None,
          members |-> <<>>, placed |-> <<>>, ids |-> {}, refs |-> {},
          affected |-> {}, found |-> {}, held |-> {}]
Done == [Fresh EXCEPT !.pc = "done"]
Active(r) == req[r].pc \notin {"new", "done"}

(* Both halves of every membership agree, and no series is empty. *)
Agree(d, a, l) ==
  /\ \A s \in a : l[s] # <<>>
  /\ \A i \in Ids : d[i].series \in a \cup {None}
  /\ \A s \in a : Elems(l[s]) = {i \in Ids : d[i].series = s}

Refs(t) == Cardinality({i \in Ids : t \in doc[i].tags})
Exact(t) == count[t] = IF Refs(t) = 0 THEN None ELSE Refs(t)

(* A catalogue in order, as the requests before have left it. *)
CatalogueInit ==
  /\ list \in Start
  /\ doc = [i \in Ids |->
              IF Home[i] = None THEN NoRec
              ELSE [path |-> Home[i], tags |-> Tagged[i],
                    series |-> IF \E s \in Series : i \in Elems(list[s])
                               THEN CHOOSE s \in Series : i \in Elems(list[s]) ELSE None]]
  /\ fresh = {i \in Ids : Home[i] = None}
  /\ alive = {s \in Series : list[s] # <<>>}
  /\ unborn = Series \ alive
  /\ count = [t \in Tags |-> IF Refs(t) = 0 THEN None ELSE Refs(t)]
  /\ files = Stored
  /\ move = NoMove
  /\ req = [r \in Requests |-> Fresh]
  /\ contended = FALSE

Go(r, q) == req' = [req EXCEPT ![r] = q]
Finish(r) == Go(r, Done)

(* A database read by the request's query: copies of the records it finds. *)
ReadIds(ids) == [i \in Ids |-> IF i \in ids THEN doc[i] ELSE NoRec]
ReadPaths(paths) == [i \in Ids |-> IF doc[i].path \in paths THEN doc[i] ELSE NoRec]
Seen(q) == {i \in Ids : q.seen[i].path # None}
SeenPaths(q) == {q.seen[i].path : i \in Seen(q)}

-----------------------------------------------------------------------------
(* Who works on what, for the history of contention. *)

ByDirectory(in) == in.op \in {"directory update", "directory delete", "list"}
Touches(in) ==
  IF ByDirectory(in) THEN Ids ELSE {in.id} \cup Elems(in.ids)
WritesSeries(in) ==
  in.series # "keep" \/ in.op \in {"delete", "batch delete", "directory delete"}
Crosses(a, b) == Touches(a) \cap Touches(b) # {} \/ (WritesSeries(a) /\ WritesSeries(b))

(* Request r asks for in, and its first call is answered with q. *)
Asks(r, op, q) ==
  /\ req[r].pc = "new" /\ q.in \in Inputs /\ q.in.op = op
  /\ Go(r, q)
  /\ contended' =
       \/ contended
       \/ \E u \in Requests \ {r} : Active(u) /\ Crosses(q.in, req[u].in)
       \/ Moving /\ op \in {"directory update", "directory delete"}
  /\ UNCHANGED <<dataVars, move>>

-----------------------------------------------------------------------------
(* Reading a record and saving it whole, without asking about locks.       *)

ReadToSave(r, in, op) ==
  /\ Exists(in.id)
  /\ Asks(r, op, [Fresh EXCEPT !.pc = "save", !.in = in, !.seen = ReadIds({in.id})])

(* record_view: one more view, and the time of it. *)
RecordView(r) == \E in \in Inputs : ReadToSave(r, in, "view")

(* get_thumbnail: the file must be there; ffmpeg runs before the save. *)
GetThumbnail(r) ==
  \E in \in Inputs : doc[in.id].path \in files /\ ReadToSave(r, in, "thumbnail")

(* _ensure_duration, on each row of a search: ffprobe, then the save. *)
EnsureDuration(r) == \E in \in Inputs : ReadToSave(r, in, "duration")

(* VideoModel.save() of beanie: every field is set, and the record is made *)
(* again if it is gone.  The unique index on path refuses a second owner.  *)
SaveTakes(i, d) == At(d.path) \subseteq {i}

(* The request's copy goes over the whole record; an edit counts its tags  *)
(* afterwards, a refused save raises DatabaseOperationError.               *)
Save(r) ==
  LET q == req[r]  i == q.in.id IN
  /\ q.pc = "save"
  /\ IF SaveTakes(i, q.seen[i])
     THEN /\ doc' = [doc EXCEPT ![i] = q.seen[i]]
          /\ Go(r, IF q.delta = NoChange THEN Done ELSE [q EXCEPT !.pc = "count"])
     ELSE doc' = doc /\ Finish(r)
  /\ UNCHANGED <<fresh, seriesVars, count, files, move, contended>>

-----------------------------------------------------------------------------
(* Tag counters. *)

(* Bug: the counters move by what was asked for. *)
TagDelta_Asked(q, new) ==
  [t \in Tags |-> Cardinality({i \in Seen(q) : t \in new[i]})
                    - Cardinality({i \in Seen(q) : t \in q.seen[i].tags \ new[i]})]

(* track_tag_change over the records seen: how often each tag came or went *)
(* when record i goes from its tags to new[i].  One request moves a tag in *)
(* one direction only, so a number and a direction are enough.             *)
TagDelta(q, new) ==
  [t \in Tags |->
     Cardinality({i \in Seen(q) : t \in new[i] \ q.seen[i].tags})
       - Cardinality({i \in Seen(q) : t \in q.seen[i].tags \ new[i]})]

AfterCount(q) == IF q.in.op = "delete" THEN [q EXCEPT !.pc = "unlink"] ELSE Done

(* The next call of a request whose series are settled: its counters, if   *)
(* there is anything to count.                                             *)
ToCount(q) ==
  IF q.delta = NoChange THEN AfterCount(q) ELSE [q EXCEPT !.pc = "count"]

(* A batch update with nothing to write ends. *)
ToBulk(q) == IF q.delta = NoChange THEN Done ELSE [q EXCEPT !.pc = "bulk"]

(* One $inc: only an increment makes a counter that is not there. *)
Counted(c, n) == IF c = None THEN (IF n > 0 THEN n ELSE None) ELSE c + n

(* update_tag_counts: the bulk write; then, if any tag went down, *)
CountTags(r) ==
  LET q == req[r] IN
  /\ q.pc = "count"
  /\ count' = [t \in Tags |->
                 IF q.delta[t] = 0 THEN count[t] ELSE Counted(count[t], q.delta[t])]
  /\ Go(r, IF \E t \in Tags : q.delta[t] < 0 THEN [q EXCEPT !.pc = "prune"]
           ELSE AfterCount(q))
  /\ UNCHANGED <<doc, fresh, seriesVars, files, move, contended>>

(* every counter that is not above zero is deleted. *)
PruneTags(r) ==
  /\ req[r].pc = "prune"
  /\ count' = [t \in Tags |->
                 IF count[t] # None /\ count[t] <= 0 THEN None ELSE count[t]]
  /\ Go(r, AfterCount(req[r]))
  /\ UNCHANGED <<doc, fresh, seriesVars, files, move, contended>>

-----------------------------------------------------------------------------
(* Series: assign, clear, detach, and the _pull they share. *)

(* Bug: the copy that is saved keeps the back-reference it was read with. *)
AfterSeries_Stale(q) ==
  CASE q.in.op = "edit" -> [q EXCEPT !.pc = "save"]
    [] q.in.op = "batch update" -> ToBulk(q)
    [] OTHER -> ToCount(q)

(* What comes after the series: an edit saves its copy with the            *)
(* back-reference the series write returned, a batch update writes its     *)
(* records, a delete counts its tags.                                      *)
AfterSeries(q) ==
  CASE q.in.op = "edit" -> [q EXCEPT !.pc = "save", !.seen[q.in.id].series = q.target]
    [] q.in.op = "batch update" -> ToBulk(q)
    [] OTHER -> ToCount(q)

AfterPull(q) == IF q.refs = {} THEN AfterSeries(q) ELSE [q EXCEPT !.pc = "refer"]
ToPull(q) == IF q.ids = {} THEN AfterPull(q) ELSE [q EXCEPT !.pc = "affected"]

(* _resolve: the named videos that exist, and the series each refers to. *)
Resolve(r) ==
  LET q == req[r]
      named == IF q.in.op = "edit" /\ q.in.series = "clear" THEN {q.in.id}
               ELSE Elems(q.in.ids)
      there == {i \in named : Exists(i)}
      known == [q EXCEPT !.back = [i \in Ids |-> doc[i].series]]
  IN
  /\ q.pc = "resolve"
  /\ Go(r, IF q.in.series = "assign"
           THEN [known EXCEPT !.pc = "target",
                   !.order = Resolved(q.in.ids, there)]
           ELSE ToPull([known EXCEPT !.ids = there,
                          !.refs = {i \in there : doc[i].series # None}]))
  /\ UNCHANGED <<dataVars, move, contended>>

(* The videos of an assign that do not refer to its target yet. *)
Joining(q, s) == {i \in Elems(q.order) : q.back[i] # s}
ToJoin(q, s) ==
  ToPull([q EXCEPT !.target = s, !.ids = Joining(q, s), !.refs = Joining(q, s)])

(* assign: the series of that name, if there is one, and the list it will  *)
(* have.  Nothing of the selection left: nothing is written.               *)
FindTarget(r) ==
  LET q == req[r]
      target == IF Named(q.in.name) = {} THEN None ELSE CHOOSE s \in Named(q.in.name) : TRUE
      members == IF target = None THEN <<>> ELSE list[target]
      placed == Place(members, q.order)
  IN
  /\ q.pc = "target"
  /\ Go(r, CASE q.order = <<>> -> AfterSeries([q EXCEPT !.target = target])
             [] q.order # <<>> /\ (target = None \/ placed # members) ->
                  [q EXCEPT !.pc = "place", !.target = target, !.members = members,
                            !.placed = placed]
             [] OTHER -> ToJoin(q, target))
  /\ UNCHANGED <<dataVars, move, contended>>

(* assign: a new series is inserted, unless the name has been taken, which *)
(* ends the request.                                                       *)
InsertSeries(r) ==
  LET q == req[r] IN
  /\ q.pc = "place" /\ q.target = None
  /\ IF Named(q.in.name) # {}
     THEN Finish(r) /\ UNCHANGED seriesVars
     ELSE \E s \in unborn :
            /\ NameOf[s] = q.in.name
            /\ alive' = alive \cup {s} /\ unborn' = unborn \ {s}
            /\ list' = [list EXCEPT ![s] = q.placed]
            /\ Go(r, ToJoin(q, s))
  /\ UNCHANGED <<doc, fresh, count, files, move, contended>>

(* assign: the whole list of an existing series is set, if it still exists. *)
SetMembers(r) ==
  LET q == req[r] IN
  /\ q.pc = "place" /\ q.target # None
  /\ list' = IF q.target \in alive THEN [list EXCEPT ![q.target] = q.placed] ELSE list
  /\ Go(r, ToJoin(q, q.target))
  /\ UNCHANGED <<doc, fresh, alive, unborn, count, files, move, contended>>

(* _pull: the series that list one of the ids, but for the target. *)
FindAffected(r) ==
  LET q == req[r]
      affected == {s \in alive \ {q.target} : Elems(list[s]) \cap q.ids # {}} IN
  /\ q.pc = "affected"
  /\ Go(r, IF affected = {} THEN AfterPull(q)
           ELSE [q EXCEPT !.pc = "pull", !.affected = affected])
  /\ UNCHANGED <<dataVars, move, contended>>

(* _pull: the ids are taken out of them, *)
PullIds(r) ==
  LET q == req[r] IN
  /\ q.pc = "pull"
  /\ list' = [s \in Series |->
                IF s \in q.affected THEN Only(list[s], Ids \ q.ids)
                ELSE list[s]]
  /\ Go(r, [q EXCEPT !.pc = "sweep"])
  /\ UNCHANGED <<doc, fresh, alive, unborn, count, files, move, contended>>

(* Bug: an emptied series is left behind. *)
SweepSeries_Skip(r) ==
  /\ req[r].pc = "sweep"
  /\ Go(r, AfterPull(req[r]))
  /\ UNCHANGED <<dataVars, move, contended>>

(* and those of them that are empty now are deleted. *)
SweepSeries(r) ==
  LET q == req[r] IN
  /\ q.pc = "sweep"
  /\ alive' = alive \ {s \in q.affected : list[s] = <<>>}
  /\ Go(r, AfterPull(q))
  /\ UNCHANGED <<doc, fresh, unborn, list, count, files, move, contended>>

(* assign and clear: the back-references of the videos that need it. *)
Refer(r) ==
  LET q == req[r] IN
  /\ q.pc = "refer"
  /\ doc' = [i \in Ids |-> IF i \in q.refs /\ Exists(i)
                           THEN [doc[i] EXCEPT !.series = q.target] ELSE doc[i]]
  /\ Go(r, AfterSeries(q))
  /\ UNCHANGED <<fresh, seriesVars, count, files, move, contended>>

-----------------------------------------------------------------------------
(* Locks. *)

(* The first call of the series change the input asks for. *)
ToSeries(q) ==
  CASE q.in.series = "clear" -> [q EXCEPT !.pc = "resolve"]
    [] q.in.series = "assign" ->
         [q EXCEPT !.pc = IF q.in.op = "edit" /\ Elems(q.in.ids) # {q.in.id}
                          THEN "others" ELSE "resolve"]
    [] q.in.series = "keep" /\ q.in.op = "edit" -> [q EXCEPT !.pc = "save"]
    [] OTHER -> ToBulk(q)

(* update_metadata: the copy takes the new fields; the counters will move  *)
(* by the difference to the tags it had.                                   *)
Edited(q) ==
  LET i == q.in.id IN
  [q EXCEPT !.seen[i].tags = q.in.add,
            !.delta = TagDelta(q, [j \in Ids |-> q.in.add])]

(* is_locked on the path of the copy, and assert_videos_unlocked on the    *)
(* paths of a whole selection: a request that finds a path locked changes  *)
(* nothing.                                                                *)
CheckLocks(r) ==
  LET q == req[r] IN
  /\ q.pc = "lock"
  /\ Go(r, CASE \E p \in SeenPaths(q) : Locked(p) -> Done
             [] (\A p \in SeenPaths(q) : ~Locked(p)) /\ q.in.op = "edit" -> ToSeries(Edited(q))
             [] (\A p \in SeenPaths(q) : ~Locked(p)) /\ q.in.op = "delete" ->
                  [q EXCEPT !.pc = "remove"]
             [] OTHER -> [q EXCEPT !.pc = "read"])
  /\ UNCHANGED <<dataVars, move, contended>>

-----------------------------------------------------------------------------
(* update_metadata. *)

(* The record is read; the copy is what will be saved in the end. *)
EditVideo(r) ==
  \E in \in Inputs :
    /\ Exists(in.id)
    /\ Asks(r, "edit", [Fresh EXCEPT !.pc = "lock", !.in = in, !.seen = ReadIds({in.id})])

(* _assert_orders_stay_within_the_series: every other video of the panel   *)
(* is read, and has to exist;                                              *)
CheckOthers(r) ==
  LET q == req[r] IN
  /\ q.pc = "others"
  /\ Go(r, IF \A i \in Elems(q.in.ids) \ {q.in.id} : Exists(i)
           THEN [q EXCEPT !.pc = "foreign", !.back = [i \in Ids |-> doc[i].series]]
           ELSE Done)
  /\ UNCHANGED <<dataVars, move, contended>>

(* the series is read, and each of them has to refer to it already. *)
CheckForeign(r) ==
  LET q == req[r] IN
  /\ q.pc = "foreign"
  /\ Go(r, IF \E s \in Named(q.in.name) :
                \A i \in Elems(q.in.ids) \ {q.in.id} : q.back[i] = s
           THEN [q EXCEPT !.pc = "resolve"] ELSE Done)
  /\ UNCHANGED <<dataVars, move, contended>>

-----------------------------------------------------------------------------
(* Requests on a selection, and on a whole directory. *)

(* assert_videos_unlocked: the selection is read for its paths. *)
AskBatch(r) ==
  \E in \in Inputs, op \in {"batch update", "batch delete"} :
    Asks(r, op, [Fresh EXCEPT !.pc = "lock", !.in = in, !.seen = ReadIds(Elems(in.ids))])

(* The walk over the directory: the files that are in it now. *)
WalkDirectory(r) ==
  \E in \in Inputs, op \in {"directory update", "directory delete", "list"} :
    /\ files \cap Dir # {}
    /\ Asks(r, op, [Fresh EXCEPT !.pc = IF op = "list" THEN "locks" ELSE "find",
                      !.in = in, !.found = files \cap Dir])

(* The listing asks which of its files are locked. *)
CheckListing(r) ==
  LET q == req[r] IN
  /\ q.pc = "locks"
  /\ Go(r, [q EXCEPT !.pc = "find", !.held = {p \in q.found : Locked(p)}])
  /\ UNCHANGED <<dataVars, move, contended>>

(* The tags each record will have, and the tags new records will count. *)
Retagged(q) == [i \in Ids |-> (q.seen[i].tags \cup q.in.add) \ q.in.remove]
New(q) == q.found \ SeenPaths(q)
Counting(q) ==
  [q EXCEPT !.delta = [t \in Tags |-> TagDelta(q, Retagged(q))[t]
                         + IF t \in q.in.add THEN Cardinality(New(q)) ELSE 0]]

(* Bug: a file being written by a migration counts as a new video. *)
Listed_NoLocks(q) == New(q)

(* _sync_video_documents: the new files that get a record; a locked one    *)
(* without a record is the target of a migration, and no video yet.        *)
Listed(q) == New(q) \ q.held

(* batch_update and batch_delete read the selection, by _id or by path. *)
ReadSelection(r) ==
  LET q == req[r]
      byId == [q EXCEPT !.seen = ReadIds(Elems(q.in.ids))]
      byPath == [q EXCEPT !.seen = ReadPaths(q.found)] IN
  /\ \/ /\ q.pc = "read" /\ q.in.op = "batch update"
        /\ Go(r, ToSeries(Counting(byId)))
     \/ /\ q.pc = "read" /\ q.in.op = "batch delete"
        /\ Go(r, [byId EXCEPT !.pc = "remove"])
     \/ /\ q.pc = "find" /\ q.in.op = "directory update"
        /\ Go(r, IF Counting(byPath).delta = NoChange /\ New(byPath) = {} THEN Done
                 ELSE [Counting(byPath) EXCEPT !.pc = "bulk"])
     \/ /\ q.pc = "find" /\ q.in.op = "directory delete"
        /\ Go(r, [byPath EXCEPT !.pc = "remove"])
     \/ /\ q.pc = "find" /\ q.in.op = "list"
        /\ Go(r, IF Listed(byPath) = {} THEN Done ELSE [byPath EXCEPT !.pc = "insert"])
  /\ UNCHANGED <<dataVars, move, contended>>

(* Bug: the _id of a new record may be given out again. *)
Upsert_Reused(d, paths, tags) ==
  \E ids \in [{p \in paths : At(p) = {}} -> fresh] :
    /\ \A p, o \in DOMAIN ids : ids[p] = ids[o] => p = o
    /\ fresh' = fresh
    /\ doc' = [i \in Ids |->
                 IF \E p \in DOMAIN ids : ids[p] = i
                 THEN [path |-> CHOOSE p \in DOMAIN ids : ids[p] = i,
                       tags |-> tags, series |-> None]
                 ELSE d[i]]

(* Upserts by path: a record of its own for each path that has none. *)
Upsert(d, paths, tags) ==
  \E ids \in [{p \in paths : At(p) = {}} -> fresh] :
    /\ \A p, o \in DOMAIN ids : ids[p] = ids[o] => p = o
    /\ fresh' = fresh \ {ids[p] : p \in DOMAIN ids}
    /\ doc' = [i \in Ids |->
                 IF \E p \in DOMAIN ids : ids[p] = i
                 THEN [path |-> CHOOSE p \in DOMAIN ids : ids[p] = i,
                       tags |-> tags, series |-> None]
                 ELSE d[i]]

(* The bulk write: new tags by _id, or by path, where they differ from     *)
(* those read, and a record for every file that had none.                  *)
BulkWrite(r) ==
  LET q == req[r]
      new == Retagged(q)
      retagged == {i \in Seen(q) : new[i] # q.seen[i].tags}
      source == [i \in Ids |-> IF q.in.op = "batch update" THEN {i} \cap retagged
                               ELSE {j \in retagged : q.seen[j].path = doc[i].path}]
  IN
  /\ q.pc = "bulk"
  /\ Upsert([i \in Ids |-> IF Exists(i) /\ source[i] # {}
                           THEN [doc[i] EXCEPT !.tags = new[CHOOSE j \in source[i] : TRUE]]
                           ELSE doc[i]],
            IF q.in.op = "batch update" THEN {} ELSE New(q), q.in.add)
  /\ Go(r, ToCount(q))
  /\ UNCHANGED <<seriesVars, count, files, move, contended>>

(* The listing's bulk write. *)
InsertListed(r) ==
  /\ req[r].pc = "insert"
  /\ Upsert(doc, Listed(req[r]), {})
  /\ Finish(r)
  /\ UNCHANGED <<seriesVars, count, files, move, contended>>

-----------------------------------------------------------------------------
(* Deleting. *)

(* delete_video reads the record. *)
DeleteVideo(r) ==
  \E in \in Inputs :
    /\ Exists(in.id)
    /\ Asks(r, "delete", [Fresh EXCEPT !.pc = "lock", !.in = in, !.seen = ReadIds({in.id})])

(* What is left to settle once the records of ids are gone. *)
Detaching(q, ids) ==
  [q EXCEPT !.ids = ids,
            !.delta = [t \in Tags |-> -Cardinality({i \in ids : t \in q.seen[i].tags})]]

(* The records go first: by _id, or all those at the paths found. *)
RemoveRecords(r) ==
  LET q == req[r]
      gone == CASE q.in.op = "delete" -> {q.in.id}
                [] q.in.op = "batch delete" -> Elems(q.in.ids)
                [] OTHER -> {i \in Ids : doc[i].path \in q.found} IN
  /\ q.pc = "remove"
  /\ doc' = [i \in Ids |-> IF i \in gone THEN NoRec ELSE doc[i]]
  /\ Go(r, IF q.in.op = "delete" THEN ToPull(Detaching(q, {q.in.id}))
           ELSE [q EXCEPT !.pc = "recheck"])
  /\ UNCHANGED <<fresh, seriesVars, count, files, move, contended>>

(* A batch looks which of its records really are gone. *)
Recheck(r) ==
  LET q == req[r]
      gone == IF q.in.op = "batch delete" THEN {i \in Seen(q) : ~Exists(i)}
              ELSE {i \in Seen(q) : At(q.seen[i].path) = {}} IN
  /\ q.pc = "recheck"
  /\ Go(r, IF gone = {} THEN Done
           ELSE [Detaching(q, gone) EXCEPT !.pc = "unlink",
                   !.found = {q.seen[i].path : i \in gone}])
  /\ UNCHANGED <<dataVars, move, contended>>

(* _remove_videos_and_update_tags, up to the series: the files of the      *)
(* records that are gone.  One that is missing raises FileBrowseError and  *)
(* ends the request, before series and counters.                           *)
UnlinkMany(r) ==
  LET q == req[r] IN
  /\ q.pc = "unlink" /\ q.in.op # "delete"
  /\ IF q.found \subseteq files
     THEN files' = files \ q.found /\ Go(r, ToPull(q))
     ELSE /\ \E removed \in SUBSET (q.found \cap files) : files' = files \ removed
          /\ Finish(r)
  /\ UNCHANGED <<doc, fresh, seriesVars, count, move, contended>>

(* The end of delete_video: its file, if it is there. *)
UnlinkOne(r) ==
  LET q == req[r] IN
  /\ q.pc = "unlink" /\ q.in.op = "delete"
  /\ files' = files \ {q.seen[q.in.id].path}
  /\ Finish(r)
  /\ UNCHANGED <<doc, fresh, seriesVars, count, move, contended>>

-----------------------------------------------------------------------------
(* One migration.  Its phases, as others see them; Migration has the rest. *)

MoveTo(phase) == move' = [move EXCEPT !.phase = phase]
Interrupts ==
  contended' = (contended \/ \E r \in Requests : Active(r)
                  /\ Touches(req[r].in) \cap ({move'.id} \cup At(move'.tgt)) # {})

(* create_task: the file is there, the target is free or may be replaced.  *)
BeginMove ==
  /\ move.phase = "none"
  /\ \E m \in Moves :
       /\ doc[m.id].path \in files \ {m.tgt}
       /\ m.tgt \notin files \/ m.overwrite
       /\ move' = [phase |-> "copying", id |-> m.id, src |-> doc[m.id].path,
                   tgt |-> m.tgt, overwrite |-> m.overwrite]
  /\ Interrupts
  /\ UNCHANGED <<dataVars, req>>

(* The bytes arrive at the target, *)
CopyMove ==
  /\ move.phase = "copying" /\ move.src \in files
  /\ files' = files \cup {move.tgt}
  /\ MoveTo("copied") /\ Interrupts
  /\ UNCHANGED <<doc, fresh, seriesVars, count, req>>

(* or the copy fails and what has arrived is removed. *)
FailMove ==
  /\ move.phase \in {"copying", "copied"}
  /\ files' = files \ {move.tgt}
  /\ MoveTo("failed") /\ Interrupts
  /\ UNCHANGED <<doc, fresh, seriesVars, count, req>>

(* _execute_db_update: the record at the source goes to the target, in the *)
(* place of the record it overwrites.  Neither there, or the target taken: *)
(* the task fails.                                                         *)
RepointMove ==
  LET conflicting == IF move.overwrite THEN At(move.tgt) ELSE {}
      left == [s \in Series |-> Only(list[s], Ids \ conflicting)] IN
  /\ move.phase = "copied"
  /\ \/ /\ At(move.src) # {} /\ At(move.tgt) \subseteq conflicting
        /\ doc' = [i \in Ids |-> CASE i \in At(move.src) -> [doc[i] EXCEPT !.path = move.tgt]
                                   [] i \in conflicting -> NoRec
                                   [] OTHER -> doc[i]]
        /\ list' = left
        /\ alive' = alive \ {s \in alive : left[s] = <<>> /\ list[s] # <<>>}
        /\ MoveTo("moved")
     \/ /\ At(move.src) = {} /\ At(move.tgt) # {}
        /\ MoveTo("moved") /\ UNCHANGED <<doc, list, alive>>
     \/ /\ At(move.src) = {} <=> At(move.tgt) = {}
        /\ ~(At(move.src) # {} /\ At(move.tgt) \subseteq conflicting)
        /\ MoveTo("failed") /\ UNCHANGED <<doc, list, alive>>
  /\ Interrupts
  /\ UNCHANGED <<fresh, unborn, count, files, req>>

(* _execute_fs_cleanup: the source goes. *)
FinishMove ==
  /\ move.phase = "moved"
  /\ files' = files \ {move.src}
  /\ MoveTo("finished") /\ Interrupts
  /\ UNCHANGED <<doc, fresh, seriesVars, count, req>>

-----------------------------------------------------------------------------
Asking(r) ==
  \/ RecordView(r) \/ GetThumbnail(r) \/ EnsureDuration(r) \/ EditVideo(r)
  \/ DeleteVideo(r) \/ AskBatch(r) \/ WalkDirectory(r)
SeriesStep(r) ==
  \/ Resolve(r) \/ FindTarget(r) \/ InsertSeries(r) \/ SetMembers(r)
  \/ FindAffected(r) \/ PullIds(r) \/ SweepSeries(r) \/ Refer(r)
RecordStep(r) ==
  \/ Save(r) \/ CheckLocks(r) \/ CheckOthers(r) \/ CheckForeign(r)
  \/ CheckListing(r) \/ ReadSelection(r) \/ BulkWrite(r) \/ InsertListed(r)
  \/ RemoveRecords(r) \/ Recheck(r) \/ UnlinkMany(r) \/ UnlinkOne(r)
TagStep(r) == CountTags(r) \/ PruneTags(r)
MoveStep == BeginMove \/ CopyMove \/ FailMove \/ RepointMove \/ FinishMove

CatalogueNext ==
  \/ \E r \in Requests : Asking(r) \/ SeriesStep(r) \/ RecordStep(r) \/ TagStep(r)
  \/ MoveStep

CatalogueSpec == CatalogueInit /\ [][CatalogueNext]_vars

-----------------------------------------------------------------------------
(* Properties. *)

Quiet == \A r \in Requests : ~Active(r)

CatalogueTypeOK ==
  /\ doc \in [Ids -> Rec]
  /\ fresh \subseteq Ids /\ \A i \in fresh : doc[i] = NoRec
  /\ alive \subseteq Series /\ unborn \subseteq Series \ alive
  /\ list \in [Series -> Seq(Ids)]
  /\ count \in [Tags -> Int \cup {None}]
  /\ files \subseteq Paths
  /\ move.phase \in {"none", "copying", "copied", "moved", "finished", "failed"}
  /\ contended \in BOOLEAN

(* A series never lists a video twice, whatever requests run side by side: *)
(* the list an assign writes is free of repeats even when it was worked    *)
(* out from members that have changed since.                               *)
ListsVideosOnce == \A s \in Series : IsInjectiveSeq(list[s])

(* A series is only ever empty while the request that emptied it is about  *)
(* to delete it (_pull takes the ids out first and deletes afterwards); no *)
(* other request can take that duty away.                                  *)
EmptySeriesIsSwept ==
  \A s \in alive : list[s] = <<>> =>
    \E r \in Requests : req[r].pc = "sweep" /\ s \in req[r].affected

(* One stands before another in a list. *)
Before(s, x, y) == \E i, j \in 1..Len(s) : i < j /\ s[i] = x /\ s[j] = y

(* What an assign is about to store: every member and everything selected, *)
(* once each, the selection in the order asked for, the other members in   *)
(* theirs, and nobody pushed past a member that was not selected.          *)
OrderAsAsked ==
  \A r \in Requests : req[r].pc = "place" =>
    LET q == req[r]
        chosen == Elems(q.order)
        kept == Elems(q.members) \ chosen IN
    /\ Elems(q.placed) = chosen \cup kept /\ IsInjectiveSeq(q.placed)
    /\ \A x, y \in chosen : Before(q.placed, x, y) <=> Before(q.order, x, y)
    /\ \A x, y \in kept : Before(q.placed, x, y) <=> Before(q.members, x, y)
    /\ \A k \in 1..Len(q.members) : q.members[k] \in chosen <=> q.placed[k] \in chosen

(* Both halves of series membership, the videoIds of the series and the    *)
(* seriesId of the videos, agree whenever no request is at work, provided  *)
(* that no two of them worked on one video or on series at once.           *)
MembershipAgrees == Quiet /\ ~contended => Agree(doc, alive, list)

(* So do the counters and the tags of the records.  The requests may run   *)
(* side by side on different videos: the increments commute, and a counter *)
(* deleted at zero by one is made again by another.                        *)
CountsAgree == Quiet /\ ~contended => \A t \in Tags : Exact(t)

(* No broken row: every record points at a file, whatever was edited,      *)
(* deleted, listed or moved, in any order, as long as no two actors were   *)
(* at one video at once; a migration may be under way all the time, the    *)
(* locks keep the requests off.                                            *)
RowsHaveFiles ==
  Quiet /\ ~contended => \A i \in Ids : Exists(i) => doc[i].path \in files

(* Nobody takes a migration's ground away: the file it reads from stays,   *)
(* the record it will repoint is where it left it, and no record is made   *)
(* for its half-written target (the lock checks of every mutation, and of  *)
(* the listing that gives new files a record).  A request on a whole       *)
(* directory asks for no lock: beside a migration it counts as contended.  *)
MoveIsNotBlocked ==
  move.phase \in {"copying", "copied"} /\ ~contended =>
    /\ move.src \in files
    /\ doc[move.id].path = move.src
    /\ At(move.tgt) # {} => move.overwrite
=============================================================================
