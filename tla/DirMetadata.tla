----------------------------- MODULE DirMetadata -----------------------------
(***************************************************************************)
(* What is recorded about directories (features/browsing: dir_metadata_    *)
(* service.py, the directory rows of browse_file_service.py, the end of a  *)
(* batch_operation_service.py delete): the aggregate of each directory in  *)
(* the database, the same in the cache, two flags that say what a user     *)
(* decided about it, and the requests that read and refresh them.          *)
(*                                                                         *)
(* Granularity.  A step is one call of the database or of the cache.  A    *)
(* recursive count awaits nothing and is one step, however deep; one that  *)
(* is not recursive reads its directory in one step and asks for each      *)
(* sub-directory in steps of their own.                                    *)
(*                                                                         *)
(* Data.  The aggregate (size, newest time) is a number of videos: both    *)
(* halves are zero for a directory without videos and -1 for one that      *)
(* could not be read.  A deletion is over when its requests get here; how  *)
(* it removes records and files is in Catalogue.                           *)
(***************************************************************************)
EXTENDS Integers, Sequences, FiniteSets

CONSTANTS
  Requests,
  Inputs,     \* what may be asked for
  Dirs,
  Up,         \* the way from each directory up to its configured root
  Stray,      \* directories that hold something that is not a video
  Start,      \* the videos in each directory at the start; None: no such directory
  Marks,      \* what users may have decided about them before
  Known,      \* those that are on record then, or marked
  MaxOwn,     \* bound: videos in one directory
  MaxAsks,    \* bound: requests made in all
  None

Ops == {"list", "refresh", "recount", "measure", "find", "delete", "move", "update",
        "keep folder", "delete folder", "create"}

Meta == [size : Int, created : BOOLEAN, deleted : BOOLEAN]

ASSUME DirMetadataAssumption ==
  /\ IsFiniteSet(Dirs) /\ None \notin Dirs \cup Int \cup Meta
  /\ Up \in [Dirs -> Seq(Dirs)]
  /\ \A d \in Dirs :
       /\ Up[d] # <<>> /\ Up[d][1] = d
       /\ \A i \in 1..Len(Up[d]) : Up[Up[d][i]] = SubSeq(Up[d], i, Len(Up[d]))
  /\ Stray \subseteq Dirs
  /\ Start \in [Dirs -> Nat \cup {None}]
  /\ \A d \in Dirs : Start[d] # None => \A i \in 1..Len(Up[d]) : Start[Up[d][i]] # None
  /\ Marks \subseteq [Dirs -> {"none", "kept", "deleted"}]
  /\ Known \subseteq SUBSET Dirs
  /\ Inputs \subseteq [op : Ops, dir : Dirs, to : Dirs]
  /\ MaxOwn \in Nat /\ MaxAsks \in Nat

VARIABLES
  own,        \* the videos in each directory; None: it is not on the storage
  meta,       \* the documents of "dir_metadata"; None: no document
  cache,      \* the cache; None: no entry
  req,        \* each request's next call and copies
  asks,       \* how many requests there have been
  decided,    \* history: what a user last decided about each directory
  disputed,   \* history: directories about which two users decided at once
  overlap,    \* history: two requests were at work at once
  neglected   \* history: videos went whose directory nobody counts again

storeVars == <<meta, cache>>
history == <<decided, disputed, overlap, neglected>>
vars == <<own, storeVars, req, asks, history>>

(* The directory it is in, the way up, the other way as a bug, and what is *)
(* under a directory.                                                      *)
Parent(d) == IF Len(Up[d]) = 1 THEN None ELSE Up[d][2]
Path_Down(d) == [i \in 1..Len(Up[d]) |-> Up[d][Len(Up[d]) + 1 - i]]
Path(d) == Up[d]
Below == [d \in Dirs |-> {e \in Dirs : \E i \in 1..Len(Up[e]) : Up[e][i] = d}]

Present(d) == own[d] # None
Subs(d) == {e \in Dirs : Parent(e) = d /\ Present(e)}

(* The videos in a directory, numbered, and those in it and everything     *)
(* under it.                                                               *)
Held(d) == IF Present(d) THEN {d} \X (1..own[d]) ELSE {}
HeldUnder(d) == UNION {Held(e) : e \in Below[d]}

(* _calculate_directory_metadata_impl, recursive: nothing is awaited. *)
Total(d) == IF Present(d) THEN Cardinality(HeldUnder(d)) ELSE -1

NoFlags == [created |-> FALSE, deleted |-> FALSE]
NoValues == [d \in Dirs |-> None]

(* An upsert of the aggregate leaves the flags, one of the flags leaves    *)
(* the aggregate; each fills in what a new document needs.                 *)
Sized(m, n) ==
  IF m = None THEN [size |-> n, created |-> FALSE, deleted |-> FALSE]
  ELSE [m EXCEPT !.size = n]

(* Bug: the flag that is not set is left as it was. *)
Flagged_One(m, mark) ==
  [size |-> IF m = None THEN 0 ELSE m.size,
   created |-> mark = "kept" \/ (m # None /\ m.created),
   deleted |-> mark = "deleted" \/ (m # None /\ m.deleted)]

Flagged(m, mark) ==
  [size |-> IF m = None THEN 0 ELSE m.size,
   created |-> mark = "kept", deleted |-> mark = "deleted"]

Flags(m) ==
  IF m = None THEN NoFlags ELSE [created |-> m.created, deleted |-> m.deleted]

Idle == [pc |-> "idle", in |-> None, stage |-> "none", routes |-> <<>>, left |-> {},
         row |-> None, value |-> 0, total |-> 0, values |-> NoValues,
         flags |-> [d \in Dirs |-> NoFlags], asked |-> [d \in Dirs |-> "none"],
         shown |-> {}, alone |-> TRUE]
Active(r) == req[r].pc # "idle"

DirMetadataInit ==
  /\ own = Start
  /\ decided \in Marks
  /\ \E known \in Known :
       /\ meta = [d \in Dirs |->
                    IF d \in known /\ Present(d)
                    THEN Sized(IF decided[d] = "none" THEN None ELSE Flagged(None, decided[d]),
                               Total(d))
                    ELSE IF decided[d] = "none" THEN None ELSE Flagged(None, decided[d])]
       /\ neglected = \E d \in Dirs \ known : Present(d)
  /\ cache = [d \in Dirs |-> None]
  /\ req = [r \in Requests |-> Idle]
  /\ asks = 0
  /\ disputed = {}
  /\ overlap = FALSE

Go(r, q) == req' = [req EXCEPT ![r] = q]

-----------------------------------------------------------------------------
(* Where a request goes next. *)

(* The next directory of a forward update, or the end. *)
NextDir(q) ==
  IF q.routes = <<>> THEN Idle
  ELSE [Idle EXCEPT !.in = q.in, !.alone = q.alone, !.stage = "forward", !.pc = "scan",
                    !.routes = q.routes]
Forward(q, routes) == NextDir([q EXCEPT !.routes = routes])
ParentRoute(d) == IF Parent(d) = None THEN <<>> ELSE <<Path(Parent(d))>>

(* The directory a forward update is at, and what is left once it is done, *)
(* or cut short.                                                           *)
At(q) == Head(Head(q.routes))
CutShort(q) == NextDir([q EXCEPT !.routes = Tail(@)])
Onward(q) ==
  IF Tail(Head(q.routes)) = <<>> THEN CutShort(q)
  ELSE NextDir([q EXCEPT !.routes = <<Tail(Head(@))>> \o Tail(@)])

(* The next sub-directory of a directory that is summed up, or the sum. *)
NextChild(q) ==
  IF q.left # {} THEN [q EXCEPT !.pc = "get"]
  ELSE [q EXCEPT !.pc = "bulk", !.values[At(q)] = q.total]

(* The next row of a listing: from the cache, or counted again. *)
NextRow(q) ==
  [q EXCEPT !.pc = CASE q.left = {} -> "listed"
                     [] q.left # {} /\ q.in.op = "recount" -> "count"
                     [] OTHER -> "get"]

(* The next row of a refresh, each a route of its own, or the end. *)
NextRefreshed(q) ==
  [Idle EXCEPT !.in = q.in, !.alone = q.alone, !.flags = q.flags, !.asked = q.asked,
               !.shown = q.shown, !.routes = q.routes,
               !.stage = IF q.routes = <<>> THEN "list" ELSE "rows",
               !.pc = IF q.routes = <<>> THEN "listed" ELSE "scan"]

(* _get_directory_node: is there a row for it? *)
Listed(flags, n) == ~flags.deleted /\ (n # 0 \/ flags.created)

Shown(q, d, n) == IF Listed(q.flags[d], n) THEN q.shown \cup {d} ELSE q.shown

(* The aggregate of d, a row of a listing or a sub-directory, is n. *)
Got(q, d, n) ==
  IF q.stage = "list"
  THEN NextRow([q EXCEPT !.left = @ \ {d}, !.row = None, !.value = 0, !.values = NoValues,
                         !.shown = Shown(q, d, n)])
  ELSE NextChild([q EXCEPT !.left = @ \ {d}, !.row = None, !.value = 0, !.total = @ + n,
                           !.values[d] = n])

(* Bug: only the directory itself is collected. *)
Counted_Top(q, d) ==
  [q EXCEPT !.pc = "bulk", !.row = d,
            !.values = [e \in Dirs |-> IF e = d THEN Total(e) ELSE None]]

(* calculate_directory_metadata, recursive: d and everything under it is   *)
(* counted on the storage, and collected.                                  *)
Counted(q, d) ==
  [q EXCEPT !.pc = "bulk", !.row = d,
            !.values = [e \in Dirs |-> IF e = d \/ (e \in Below[d] /\ Present(e) /\ Present(d))
                                       THEN Total(e) ELSE None]]

-----------------------------------------------------------------------------
(* A request begins.                                                       *)

Decides(in) == in.op \in {"keep folder", "delete folder", "create"}

MayAsk(r) == ~Active(r) /\ asks < MaxAsks

Asks(r, in, q) ==
  LET others == {u \in Requests \ {r} : Active(u)} IN
  /\ MayAsk(r)
  /\ in \in Inputs
  /\ asks' = asks + 1
  /\ req' = [u \in Requests |->
               IF u = r THEN [q EXCEPT !.in = in, !.alone = (others = {})]
               ELSE [req[u] EXCEPT !.alone = @ /\ ~Active(u)]]
  /\ overlap' = (overlap \/ others # {})
  /\ disputed' = IF Decides(in)
                 THEN disputed \cup ({in.dir} \cap {req[u].in.dir : u \in {v \in others : Decides(req[v].in)}})
                 ELSE disputed

(* _list_directory_level scans the directory.  "list": what is on record   *)
(* will do (skipCache is false).  "refresh": the rows are counted again,   *)
(* but not what is under them (recursiveCalculation is false, too).        *)
(* "recount": all is counted again.  "find": the listing comes upon a      *)
(* video that was put there meanwhile.                                     *)
ListDirectory(r) ==
  \E in \in Inputs :
    /\ in.op \in {"list", "refresh", "recount", "find"} /\ Present(in.dir)
    /\ in.op = "find" => own[in.dir] < MaxOwn
    /\ own' = IF in.op = "find" THEN [own EXCEPT ![in.dir] = @ + 1] ELSE own
    /\ Asks(r, in, [Idle EXCEPT !.stage = "list", !.pc = "flags", !.left = Subs(in.dir)])
    /\ UNCHANGED <<storeVars, decided, neglected>>

(* resolve_directory_metadata. *)
Measure(r) ==
  \E in \in Inputs :
    /\ in.op = "measure" /\ Present(in.dir)
    /\ Asks(r, in, Counted([Idle EXCEPT !.stage = "list", !.left = {in.dir}], in.dir))
    /\ UNCHANGED <<own, storeVars, decided, neglected>>

(* Something is about to change in a directory: delete_video, a batch      *)
(* delete of a selection, the end of a migration, "Delete all".            *)
ChangeDirectory(r) ==
  \E in \in Inputs :
    /\ in.op \in {"delete", "move", "keep folder", "delete folder"} /\ Present(in.dir)
    /\ in.op \in {"delete", "move"} => own[in.dir] > 0
    /\ in.op = "move" => Present(in.to) /\ own[in.to] < MaxOwn
    /\ own' = IF in.op = "move" THEN [own EXCEPT ![in.to] = @ + 1] ELSE own
    /\ Asks(r, in, [Idle EXCEPT !.pc = IF in.op \in {"delete", "move"} THEN "unlink" ELSE "clear"])
    /\ UNCHANGED <<storeVars, decided, neglected>>

(* batch_update_metadata_forward goes through all the ancestors of some    *)
(* directories once, the deepest first.                                    *)
DeepestFirst(ds) ==
  LET all == UNION {{Up[d][i] : i \in 1..Len(Up[d])} : d \in ds} IN
  {p \in [1..Cardinality(all) -> all] :
     \A i, j \in DOMAIN p : i < j => p[i] # p[j] /\ Len(Up[p[i]]) >= Len(Up[p[j]])}

(* A batch update meets new files in two directories. *)
UpdateDirectories(r) ==
  \E in \in Inputs :
    /\ in.op = "update" /\ MayAsk(r)
    /\ \A d \in {in.dir, in.to} : Present(d) /\ own[d] < MaxOwn
    /\ own' = [d \in Dirs |-> IF d \in {in.dir, in.to} THEN own[d] + 1 ELSE own[d]]
    /\ \E route \in DeepestFirst({in.dir, in.to}) :
         Asks(r, in, Forward([Idle EXCEPT !.in = in], <<route>>))
    /\ UNCHANGED <<storeVars, decided, neglected>>

(* create_directory: made, or refused because there is one already. *)
CreateDirectory(r) ==
  \E in \in Inputs :
    /\ in.op = "create" /\ Present(Parent(in.dir))
    /\ own' = IF Present(in.dir) THEN own ELSE [own EXCEPT ![in.dir] = 0]
    /\ Asks(r, in, [Idle EXCEPT !.pc = IF Present(in.dir) THEN "taken" ELSE "mark"])
    /\ UNCHANGED <<storeVars, decided, neglected>>

-----------------------------------------------------------------------------
(* get_metadata: the cache, then the database, then the cache is filled.   *)
(* An entry lives for its TTL at most, and may have to go before.          *)

GetCached(r) ==
  LET q == req[r] IN
  /\ q.pc = "get"
  /\ \E d \in q.left :
       \/ /\ cache[d] # None
          /\ Go(r, Got(q, d, cache[d])) /\ UNCHANGED cache
       \/ /\ cache' = [cache EXCEPT ![d] = None]
          /\ Go(r, [q EXCEPT !.pc = "read", !.row = d])
  /\ UNCHANGED <<own, meta, asks, history>>

(* Without a document a forward update and a refresh take the              *)
(* sub-directory for empty, and a listing counts it.                       *)
ReadMetadata(r) ==
  LET q == req[r]  d == q.row IN
  /\ q.pc = "read"
  /\ Go(r, CASE meta[d] # None -> [q EXCEPT !.pc = "fill", !.value = meta[d].size]
             [] meta[d] = None /\ q.stage # "list" -> Got(q, d, 0)
             [] OTHER -> Counted(q, d))
  /\ UNCHANGED <<own, storeVars, asks, history>>

FillCache(r) ==
  LET q == req[r] IN
  /\ q.pc = "fill"
  /\ cache' = [cache EXCEPT ![q.row] = q.value]
  /\ Go(r, Got(q, q.row, q.value))
  /\ UNCHANGED <<own, meta, asks, history>>

-----------------------------------------------------------------------------
(* bulk_set_metadata, and set_metadata of a forward update.                *)

BulkSet(r) ==
  LET q == req[r] IN
  /\ q.pc = "bulk"
  /\ meta' = [d \in Dirs |-> IF q.values[d] = None THEN meta[d]
                             ELSE Sized(meta[d], q.values[d])]
  /\ Go(r, [q EXCEPT !.pc = "many"])
  /\ UNCHANGED <<own, cache, asks, history>>

(* A listing or a refresh has its row.  update_directory_metadata_forward  *)
(* sets the directory once more, and stops at one that could not be read;  *)
(* batch_update_metadata_forward goes on.                                  *)
SetMany(r) ==
  LET q == req[r] IN
  /\ q.pc = "many"
  /\ cache' = [d \in Dirs |-> IF q.values[d] = None THEN cache[d] ELSE q.values[d]]
  /\ Go(r, CASE q.stage = "list" -> Got(q, q.row, q.values[q.row])
             [] q.stage = "rows" -> NextRefreshed([q EXCEPT !.routes = Tail(@),
                                                            !.shown = Shown(q, At(q), q.total)])
             [] q.stage = "forward" /\ q.in.op = "update" -> Onward(q)
             [] q.stage = "forward" /\ q.in.op # "update" /\ q.total = -1 -> CutShort(q)
             [] OTHER -> [q EXCEPT !.pc = "set"])
  /\ UNCHANGED <<own, meta, asks, history>>

SetMetadata(r) ==
  LET q == req[r] IN
  /\ q.pc = "set"
  /\ meta' = [meta EXCEPT ![At(q)] = Sized(@, q.total)]
  /\ Go(r, [q EXCEPT !.pc = "cache"])
  /\ UNCHANGED <<own, cache, asks, history>>

SetCached(r) ==
  LET q == req[r] IN
  /\ q.pc = "cache"
  /\ cache' = [cache EXCEPT ![At(q)] = q.total]
  /\ Go(r, Onward(q))
  /\ UNCHANGED <<own, meta, asks, history>>

(* Bug: the files that are not in a sub-directory are left out. *)
Scan_Subs(r) ==
  LET q == req[r]  d == At(q) IN
  /\ q.pc = "scan"
  /\ Go(r, NextChild([q EXCEPT !.total = IF Present(d) THEN 0 ELSE -1, !.left = Subs(d)]))
  /\ UNCHANGED <<own, storeVars, asks, history>>

(* calculate_directory_metadata, not recursive: the files of the directory *)
(* are counted, and its sub-directories are to be asked about.             *)
Scan(r) ==
  LET q == req[r]  d == At(q) IN
  /\ q.pc = "scan"
  /\ Go(r, IF Present(d) THEN NextChild([q EXCEPT !.total = own[d], !.left = Subs(d)])
           ELSE NextChild([q EXCEPT !.total = -1, !.left = {}]))
  /\ UNCHANGED <<own, storeVars, asks, history>>

-----------------------------------------------------------------------------
(* The rows of a listing. *)

(* The rows of a refresh, in the order in which the storage gave them. *)
RowsOf(ds) ==
  {p \in [1..Cardinality(ds) -> {<<d>> : d \in ds}] :
     \A i, j \in DOMAIN p : i < j => p[i] # p[j]}

(* get_flags, for all the sub-directories at once. *)
ReadFlags(r) ==
  LET q == req[r]
      flags == [d \in Dirs |-> IF d \in q.left THEN Flags(meta[d]) ELSE NoFlags]
      read == [q EXCEPT !.flags = flags, !.left = {d \in @ : ~flags[d].deleted},
                        !.asked = [d \in Dirs |-> IF d \in q.left THEN decided[d]
                                                  ELSE "none"]] IN
  /\ q.pc = "flags"
  /\ \/ q.in.op # "refresh" /\ Go(r, NextRow(read))
     \/ /\ q.in.op = "refresh"
        /\ \E rows \in RowsOf(read.left) : Go(r, NextRefreshed([read EXCEPT !.routes = rows]))
  /\ UNCHANGED <<own, storeVars, asks, history>>

(* A row of a recount. *)
CountRow(r) ==
  /\ req[r].pc = "count"
  /\ \E d \in req[r].left : Go(r, Counted(req[r], d))
  /\ UNCHANGED <<own, storeVars, asks, history>>

(* The rows are there.  If the listing has met a new file, *)
EndListing(r) ==
  LET q == req[r] IN
  /\ q.pc = "listed"
  /\ Go(r, IF q.in.op = "find" THEN Forward(q, <<Path(q.in.dir)>>) ELSE Idle)
  /\ UNCHANGED <<own, storeVars, asks, history>>

-----------------------------------------------------------------------------
(* What a request does to its directory.                                   *)

(* The file goes, and the ways up are refreshed; a delete that finds none  *)
(* ends with an error, a migration with a warning.                         *)
Unlink(r) ==
  LET q == req[r]  d == q.in.dir  there == Present(d) /\ own[d] > 0 IN
  /\ q.pc = "unlink"
  /\ own' = IF there THEN [own EXCEPT ![d] = @ - 1] ELSE own
  /\ Go(r, CASE q.in.op = "move" -> Forward(q, <<Path(d), Path(q.in.to)>>)
             [] q.in.op = "delete" /\ there -> Forward(q, <<Path(d)>>)
             [] OTHER -> Idle)
  /\ UNCHANGED <<storeVars, asks, history>>

(* "Delete all": the videos of the directory and of everything under it    *)
(* go.  Nobody counts the directories under it again.                      *)
Clear(r) ==
  LET q == req[r]  d == q.in.dir
      cleared == {e \in Below[d] : Present(e) /\ own[e] > 0} IN
  /\ q.pc = "clear"
  /\ own' = [e \in Dirs |-> IF e \in cleared THEN 0 ELSE own[e]]
  /\ neglected' = (neglected \/ cleared \ {d} # {})
  /\ Go(r, [q EXCEPT !.pc = IF q.in.op = "keep folder" THEN "mark" ELSE "remove",
                     !.value = IF d \in cleared THEN 1 ELSE 0])
  /\ UNCHANGED <<storeVars, asks, decided, disputed, overlap>>

(* Bug: a directory goes with whatever is in it. *)
Removable_Always(d) == Present(d)

(* _delete_directory_if_empty: neither a file nor a directory is in it. *)
Removable(d) == Present(d) /\ own[d] = 0 /\ d \notin Stray /\ Subs(d) = {}

Remove(r) ==
  LET q == req[r]  d == q.in.dir  gone == Removable(d) IN
  /\ q.pc = "remove"
  /\ own' = IF gone THEN [own EXCEPT ![d] = None] ELSE own
  /\ decided' = IF gone THEN [decided EXCEPT ![d] = "none"] ELSE decided
  /\ Go(r, [q EXCEPT !.pc = IF gone THEN "forget" ELSE "mark"])
  /\ UNCHANGED <<storeVars, asks, disputed, overlap, neglected>>

(* Bug: the cache still knows the directory. *)
Forget_InDatabase(r) ==
  LET q == req[r] IN
  /\ q.pc = "forget"
  /\ meta' = [meta EXCEPT ![q.in.dir] = None]
  /\ Go(r, Forward(q, ParentRoute(q.in.dir)))
  /\ UNCHANGED <<own, cache, asks, history>>

(* forget: the document, *)
Forget(r) ==
  LET q == req[r] IN
  /\ q.pc = "forget"
  /\ meta' = [meta EXCEPT ![q.in.dir] = None]
  /\ Go(r, [q EXCEPT !.pc = "uncache"])
  /\ UNCHANGED <<own, cache, asks, history>>

(* and the cached pair; then the parent is refreshed. *)
Uncache(r) ==
  LET q == req[r] IN
  /\ q.pc = "uncache"
  /\ cache' = [cache EXCEPT ![q.in.dir] = None]
  /\ Go(r, Forward(q, ParentRoute(q.in.dir)))
  /\ UNCHANGED <<own, meta, asks, history>>

(* mark_user_created and mark_user_deleted.  A directory that is only      *)
(* marked as deleted is not counted again, its parent is.                  *)
Mark(r) ==
  LET q == req[r]  d == q.in.dir
      mark == IF q.in.op = "delete folder" THEN "deleted" ELSE "kept" IN
  /\ q.pc = "mark"
  /\ meta' = [meta EXCEPT ![d] = Flagged(@, mark)]
  /\ decided' = [decided EXCEPT ![d] = mark]
  /\ neglected' = (neglected \/ (mark = "deleted" /\ q.value = 1))
  /\ Go(r, CASE q.in.op = "create" -> Idle
             [] q.in.op = "keep folder" -> Forward(q, <<Path(d)>>)
             [] OTHER -> Forward(q, ParentRoute(d)))
  /\ UNCHANGED <<own, cache, asks, disputed, overlap>>

(* create_directory: the name is taken, but may be marked as deleted. *)
CheckTaken(r) ==
  LET q == req[r] IN
  /\ q.pc = "taken"
  /\ Go(r, IF Flags(meta[q.in.dir]).deleted THEN [q EXCEPT !.pc = "mark"] ELSE Idle)
  /\ UNCHANGED <<own, storeVars, asks, history>>

-----------------------------------------------------------------------------
Asking(r) ==
  \/ ListDirectory(r) \/ Measure(r) \/ ChangeDirectory(r) \/ UpdateDirectories(r)
  \/ CreateDirectory(r)
MetadataStep(r) ==
  \/ GetCached(r) \/ ReadMetadata(r) \/ FillCache(r) \/ BulkSet(r) \/ SetMany(r)
  \/ SetMetadata(r) \/ SetCached(r) \/ Scan(r) \/ ReadFlags(r) \/ CountRow(r)
  \/ EndListing(r)
DirectoryStep(r) ==
  \/ Unlink(r) \/ Clear(r) \/ Remove(r) \/ Forget(r) \/ Uncache(r) \/ Mark(r)
  \/ CheckTaken(r)

DirMetadataNext ==
  \E r \in Requests : Asking(r) \/ MetadataStep(r) \/ DirectoryStep(r)

DirMetadataSpec == DirMetadataInit /\ [][DirMetadataNext]_vars

-----------------------------------------------------------------------------
(* Properties. *)

Quiet == \A r \in Requests : ~Active(r)

DirMetadataTypeOK ==
  /\ own \in [Dirs -> Nat \cup {None}]
  /\ meta \in [Dirs -> Meta \cup {None}]
  /\ cache \in [Dirs -> Int \cup {None}]
  /\ asks \in 0..MaxAsks
  /\ decided \in [Dirs -> {"none", "kept", "deleted"}]
  /\ disputed \subseteq Dirs
  /\ overlap \in BOOLEAN /\ neglected \in BOOLEAN
  /\ \A d \in Dirs : Present(d) => \A i \in 1..Len(Up[d]) : Present(Up[d][i])

(* "folders you created or chose to keep stay listed even when empty;      *)
(* folders you deleted stay hidden regardless of what is still inside      *)
(* them" (README.md): the rows of a listing follow what users had decided  *)
(* when it read the flags, whatever aggregates are written meanwhile.      *)
ListingHonours ==
  \A r \in Requests : req[r].pc = "listed" =>
    \A d \in Dirs \ disputed :
      /\ req[r].asked[d] = "kept" => d \in req[r].shown
      /\ req[r].asked[d] = "deleted" => d \notin req[r].shown

(* After any sequence of requests that did not overlap the record of every *)
(* directory is the number of videos under it: the forward updates reach   *)
(* every ancestor, children first, and take nothing stale from the cache.  *)
(* Not so where "Delete all" took videos out of directories that are not   *)
(* counted again, or where directories have no record yet.                 *)
AggregatesExact ==
  Quiet /\ ~overlap /\ ~neglected =>
    \A d \in Dirs : Present(d) => meta[d] # None /\ meta[d].size = Total(d)

(* Then the cache never contradicts the database: an entry is either gone  *)
(* or equal to the record, and there is none of a forgotten directory.     *)
CacheAgrees ==
  Quiet /\ ~overlap =>
    \A d \in Dirs : cache[d] # None => meta[d] # None /\ cache[d] = meta[d].size

(* The record of a directory is right, and the cache does not deny it. *)
Exactly(d) ==
  meta[d] # None /\ meta[d].size = Total(d) /\ cache[d] \in {None, Total(d)}

(* A recursive count ("bypass any caching and get the latest info from     *)
(* disk") repairs whatever went wrong before, in everything under the rows *)
(* it counted, as long as nobody else was at work meanwhile.               *)
RecountRepairs ==
  \A r \in Requests :
    req[r].pc = "listed" /\ req[r].in.op \in {"recount", "measure"} /\ req[r].alone =>
      \A s \in req[r].shown : \A d \in Below[s] : Present(d) => Exactly(d)

(* A refresh is not recursive and repairs less: it sees the files of each  *)
(* row, and believes of the row's sub-directories what the cache or the    *)
(* record says.  Where those are right, the row is; where one is wrong or  *)
(* unknown, the row is wrong as well, and no cache was bypassed.           *)
RefreshRepairs ==
  \A r \in Requests :
    req[r].pc = "listed" /\ req[r].in.op = "refresh" /\ req[r].alone =>
      \A s \in req[r].shown :
        Present(s) /\ (\A d \in Subs(s) : Exactly(d)) => Exactly(s)
=============================================================================
