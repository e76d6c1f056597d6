------------------------- MODULE DirMetadata_proofs -------------------------
(***************************************************************************)
(* What the requests on directories keep, for any tree of directories and  *)
(* any number of videos and requests.                                      *)
(***************************************************************************)
EXTENDS DirMetadata, FiniteSetTheorems, SequenceTheorems, TLAPS

-----------------------------------------------------------------------------
(* The tree. *)

(* The way up from a directory, and from each one on it. *)
LEMMA WayUp ==
  ASSUME NEW d \in Dirs
  PROVE  /\ Up[d] \in Seq(Dirs) /\ Len(Up[d]) \in Nat \ {0} /\ Up[d][1] = d
         /\ \A i \in 1..Len(Up[d]) :
              /\ Up[d][i] \in Dirs
              /\ Len(Up[Up[d][i]]) = Len(Up[d]) - i + 1
              /\ \A j \in 1..(Len(Up[d]) - i + 1) : Up[Up[d][i]][j] = Up[d][i + j - 1]
<1>1. Up[d] \in Seq(Dirs) /\ Up[d] # <<>> /\ Up[d][1] = d
  BY DirMetadataAssumption
<1>2. Len(Up[d]) \in Nat \ {0} /\ \A i \in 1..Len(Up[d]) : Up[d][i] \in Dirs
  BY <1>1
<1>3. ASSUME NEW i \in 1..Len(Up[d])
      PROVE  /\ Len(Up[Up[d][i]]) = Len(Up[d]) - i + 1
             /\ \A j \in 1..(Len(Up[d]) - i + 1) : Up[Up[d][i]][j] = Up[d][i + j - 1]
  <2>1. Up[Up[d][i]] = SubSeq(Up[d], i, Len(Up[d]))
    BY DirMetadataAssumption
  <2>2. \A k \in i .. Len(Up[d]) : Up[d][k] \in Dirs
    BY <1>2
  <2> QED BY <1>2, <2>1, <2>2, SubSeqProperties
<1> QED BY <1>1, <1>2, <1>3

(* Where the way up goes on. *)
LEMMA ParentIs ==
  ASSUME NEW d \in Dirs
  PROVE  /\ Parent(d) \in Dirs \cup {None}
         /\ Parent(d) = None <=> Len(Up[d]) = 1
         /\ Parent(d) # None => /\ Parent(d) = Up[d][2] /\ Parent(d) \in Dirs
                                /\ Len(Up[Parent(d)]) = Len(Up[d]) - 1
<1>1. None \notin Dirs
  BY DirMetadataAssumption
<1>2. Len(Up[d]) # 1 => 2 \in 1..Len(Up[d])
  <2>1. Len(Up[d]) \in Nat \ {0}
    BY WayUp
  <2>2. \A n \in Nat \ {0} : n # 1 => 2 \in 1..n
    OBVIOUS
  <2> QED BY <2>1, <2>2, Zenon
<1> QED BY <1>1, <1>2, WayUp DEF Parent

(* No directory is on the way twice, and each is the parent of the one     *)
(* before it.                                                              *)
LEMMA WayIsTree ==
  ASSUME NEW d \in Dirs
  PROVE  /\ \A i, j \in 1..Len(Up[d]) : Up[d][i] = Up[d][j] => i = j
         /\ \A i \in 1..Len(Up[d]) :
              Parent(Up[d][i]) = IF i = Len(Up[d]) THEN None ELSE Up[d][i + 1]
<1>1. \A i, j \in 1..Len(Up[d]) : Up[d][i] = Up[d][j] => i = j
  <2> SUFFICES ASSUME NEW i \in 1..Len(Up[d]), NEW j \in 1..Len(Up[d]),
                      Up[d][i] = Up[d][j]
               PROVE  i = j
    OBVIOUS
  <2>1. Len(Up[Up[d][i]]) = Len(Up[d]) - i + 1 /\ Len(Up[Up[d][j]]) = Len(Up[d]) - j + 1
    BY WayUp
  <2>2. Len(Up[d]) \in Nat
    BY WayUp
  <2> QED BY <2>1, <2>2
<1>2. ASSUME NEW i \in 1..Len(Up[d])
      PROVE  Parent(Up[d][i]) = IF i = Len(Up[d]) THEN None ELSE Up[d][i + 1]
  <2>1. /\ Up[d][i] \in Dirs /\ Len(Up[Up[d][i]]) = Len(Up[d]) - i + 1
        /\ Len(Up[d]) \in Nat
    BY WayUp
  <2>2. CASE i = Len(Up[d])
    BY <2>1, <2>2, ParentIs
  <2>3. CASE i # Len(Up[d])
    <3>1. Len(Up[d]) - i + 1 # 1 /\ 2 \in 1..(Len(Up[d]) - i + 1)
      BY <2>1, <2>3
    <3>2. Up[Up[d][i]][2] = Up[d][i + 2 - 1] /\ i + 2 - 1 = i + 1
      BY <3>1, WayUp
    <3> QED BY <2>1, <2>3, <3>1, <3>2 DEF Parent
  <2> QED BY <2>2, <2>3
<1> QED BY <1>1, <1>2

(* What is under a directory is itself and, apart from each other, what is *)
(* under each directory in it.                                             *)
LEMMA BelowIs ==
  ASSUME NEW d \in Dirs
  PROVE  /\ d \in Below[d] /\ Below[d] \subseteq Dirs
         /\ \A e \in Below[d] \ {d} : \E c \in Dirs : Parent(c) = d /\ e \in Below[c]
         /\ \A c \in Dirs : Parent(c) = d => Below[c] \subseteq Below[d] \ {d}
         /\ \A b, c \in Dirs : Parent(b) = d /\ Parent(c) = d /\ b # c
                                 => Below[b] \cap Below[c] = {}
<1>1. \A x \in Dirs : Below[x] = {e \in Dirs : \E i \in 1..Len(Up[e]) : Up[e][i] = x}
  BY DEF Below
<1>2. d \in Below[d] /\ Below[d] \subseteq Dirs
  <2>1. 1 \in 1..Len(Up[d]) /\ Up[d][1] = d
    BY WayUp
  <2> QED BY <1>1, <2>1
<1>3. ASSUME NEW e \in Below[d] \ {d}
      PROVE  \E c \in Dirs : Parent(c) = d /\ e \in Below[c]
  <2>1. PICK i \in 1..Len(Up[e]) : Up[e][i] = d
    BY <1>1, <1>3
  <2>2. e \in Dirs /\ i - 1 \in 1..Len(Up[e]) /\ i - 1 # Len(Up[e])
    BY <1>2, <1>3, <2>1, WayUp
  <2>3. Up[e][i - 1] \in Dirs /\ Parent(Up[e][i - 1]) = Up[e][(i - 1) + 1]
    BY <2>2, WayUp, WayIsTree
  <2>4. e \in Below[Up[e][i - 1]]
    BY <1>1, <2>2, <2>3
  <2> QED BY <2>1, <2>3, <2>4
<1>4. ASSUME NEW c \in Dirs, Parent(c) = d, NEW e \in Below[c]
      PROVE  \E i \in 1..Len(Up[e]) : i + 1 \in 1..Len(Up[e]) /\ Up[e][i] = c
                                      /\ Up[e][i + 1] = d
  <2>1. PICK i \in 1..Len(Up[e]) : Up[e][i] = c
    BY <1>1, <1>4
  <2>2. e \in Dirs
    BY <1>1, <1>4
  <2>3. i # Len(Up[e]) /\ Up[e][i + 1] = d
    <3>1. d # None
      BY DirMetadataAssumption
    <3>2. Parent(Up[e][i]) = IF i = Len(Up[e]) THEN None ELSE Up[e][i + 1]
      BY <2>1, <2>2, WayIsTree
    <3> QED BY <1>4, <2>1, <3>1, <3>2
  <2> QED BY <2>1, <2>2, <2>3, WayUp
<1>5. ASSUME NEW c \in Dirs, Parent(c) = d
      PROVE  Below[c] \subseteq Below[d] \ {d}
  <2> SUFFICES ASSUME NEW e \in Below[c] PROVE e \in Below[d] \ {d}
    OBVIOUS
  <2>1. PICK i \in 1..Len(Up[e]) : i + 1 \in 1..Len(Up[e]) /\ Up[e][i] = c
                                   /\ Up[e][i + 1] = d
    BY <1>4, <1>5
  <2>2. e \in Dirs /\ e \in Below[d]
    BY <1>1, <1>5, <2>1
  <2>3. Up[e][1] = e /\ 1 \in 1..Len(Up[e]) /\ i + 1 # 1
    BY <2>1, <2>2, WayUp
  <2>4. e # d
    BY <2>1, <2>2, <2>3, WayIsTree
  <2> QED BY <2>2, <2>4
<1>6. ASSUME NEW b \in Dirs, NEW c \in Dirs, Parent(b) = d, Parent(c) = d,
             NEW e \in Below[b] \cap Below[c]
      PROVE  b = c
  <2>1. PICK i \in 1..Len(Up[e]) : i + 1 \in 1..Len(Up[e]) /\ Up[e][i] = b
                                   /\ Up[e][i + 1] = d
    BY <1>4, <1>6
  <2>2. PICK j \in 1..Len(Up[e]) : j + 1 \in 1..Len(Up[e]) /\ Up[e][j] = c
                                   /\ Up[e][j + 1] = d
    BY <1>4, <1>6
  <2>3. e \in Dirs
    BY <1>1, <1>6
  <2>4. i + 1 = j + 1
    BY <2>1, <2>2, <2>3, WayIsTree
  <2> QED BY <2>1, <2>2, <2>4
<1> QED BY <1>2, <1>3, <1>5, <1>6

(* The videos under a directory are finitely many. *)
LEMMA HeldFinite ==
  ASSUME NEW d \in Dirs, own \in [Dirs -> Nat \cup {None}]
  PROVE  /\ \A e \in Dirs : IsFiniteSet(Held(e))
         /\ IsFiniteSet(HeldUnder(d)) /\ Total(d) \in Int
         /\ Present(d) => Total(d) \in Nat
<1>1. ASSUME NEW e \in Dirs PROVE IsFiniteSet(Held(e))
  <2>1. CASE Present(e)
    <3>1. own[e] \in Nat
      BY <2>1 DEF Present
    <3>2. IsFiniteSet({e})
      BY FS_Singleton
    <3>3. own[e] \in Int /\ 1 \in Int
      BY <3>1
    <3>4. IsFiniteSet(1..own[e])
      BY <3>3, FS_Interval
    <3> QED BY <2>1, <3>2, <3>4, FS_Product DEF Held
  <2>2. CASE ~Present(e)
    BY <2>2, FS_EmptySet DEF Held
  <2> QED BY <2>1, <2>2
<1>2. IsFiniteSet(HeldUnder(d))
  <2>1. Below[d] \subseteq Dirs /\ IsFiniteSet(Below[d])
    BY BelowIs, DirMetadataAssumption, FS_Subset
  <2>2. IsFiniteSet({Held(e) : e \in Below[d]})
    <3> DEFINE f == [e \in Below[d] |-> Held(e)]
               T == {Held(e) : e \in Below[d]}
    <3>1. f \in Surjection(Below[d], T)
      BY DEF Surjection
    <3> QED BY <2>1, <3>1, FS_Surjection
  <2> QED BY <1>1, <2>1, <2>2, FS_UNION DEF HeldUnder
<1> QED BY <1>1, <1>2, FS_CardinalityType DEF Total
-----------------------------------------------------------------------------
(* Types. *)

OwnPcs == {"unlink", "clear", "mark", "remove", "forget", "uncache", "taken"}
ListPcs == {"flags", "get", "read", "fill", "count", "bulk", "many", "listed"}
ForwardPcs == {"scan", "get", "read", "fill", "bulk", "many", "set", "cache"}
RowPcs == {"scan", "get", "read", "fill", "bulk", "many"}
Pcs == OwnPcs \cup ListPcs \cup ForwardPcs \cup {"idle"}
ListOps == {"list", "refresh", "recount", "find", "measure"}
Summing == {"forward", "rows"}
FlagPair == [created : BOOLEAN, deleted : BOOLEAN]
Opinions == {"none", "kept", "deleted"}

Query ==
  [pc : Pcs, in : Inputs \cup {None},
   stage : {"none", "list", "forward", "rows"}, routes : Seq(Seq(Dirs) \ {<<>>}),
   left : SUBSET Dirs, row : Dirs \cup {None}, value : Int, total : Int,
   values : [Dirs -> Int \cup {None}], flags : [Dirs -> FlagPair],
   asked : [Dirs -> Opinions], shown : SUBSET Dirs, alone : BOOLEAN]

(* The rows of a refresh are ways of one directory. *)
Single(routes) == \A i \in 1..Len(routes) : Len(routes[i]) = 1

(* Which steps come in which part of a request, and for which requests. *)
Placed(q) ==
  /\ q.pc # "idle" => q.in \in Inputs
  /\ q.stage = "none" <=> q.pc \in OwnPcs \cup {"idle"}
  /\ q.stage = "list" => q.pc \in ListPcs /\ q.in.op \in ListOps
  /\ q.stage = "rows" => /\ q.pc \in RowPcs /\ q.in.op = "refresh"
                         /\ q.routes # <<>> /\ Single(q.routes)
  /\ q.stage = "forward" => q.pc \in ForwardPcs /\ q.routes # <<>>
  /\ q.pc = "unlink" => q.in.op \in {"delete", "move"}
  /\ q.pc = "clear" => q.in.op \in {"keep folder", "delete folder"}
  /\ q.pc = "mark" => Decides(q.in)
  /\ q.pc \in {"remove", "forget", "uncache"} => q.in.op = "delete folder"
  /\ q.pc = "taken" => q.in.op = "create"

(* What a step finds that an earlier one left it. *)
Ready(q) ==
  /\ q.pc \in {"read", "fill"} => q.row \in q.left
  /\ q.stage = "list" /\ q.pc \in {"bulk", "many"} => q.row \in q.left /\ q.values[q.row] # None
  /\ q.stage \in Summing /\ q.pc \in {"bulk", "many", "set"} => q.values[At(q)] = q.total
  /\ q.stage = "list" /\ q.in.op \in {"recount", "measure"} => q.pc \notin {"get", "read", "fill"}
  /\ q.stage = "list" /\ q.in.op = "refresh" => q.pc \in {"flags", "listed"}
  /\ q.stage = "list" /\ q.in.op = "measure" => q.pc # "flags" /\ q.left \subseteq {q.row}
  /\ q.pc = "listed" => q.left = {}

QueryOK(q) == q \in Query /\ Placed(q) /\ Ready(q)

(* A request stays one whatever is put in a field. *)
LEMMA FieldsKeep ==
  ASSUME NEW q \in Query
  PROVE  /\ \A x \in Pcs : [q EXCEPT !.pc = x] \in Query
         /\ \A x \in SUBSET Dirs : [q EXCEPT !.left = x] \in Query
         /\ \A x \in Dirs \cup {None} : [q EXCEPT !.row = x] \in Query
         /\ \A x \in Int : [q EXCEPT !.value = x] \in Query
         /\ \A x \in Int : [q EXCEPT !.total = x] \in Query
         /\ \A x \in [Dirs -> Int \cup {None}] : [q EXCEPT !.values = x] \in Query
         /\ \A x \in [Dirs -> FlagPair] : [q EXCEPT !.flags = x] \in Query
         /\ \A x \in [Dirs -> Opinions] : [q EXCEPT !.asked = x] \in Query
         /\ \A x \in SUBSET Dirs : [q EXCEPT !.shown = x] \in Query
<1>1. \A x \in Pcs : [q EXCEPT !.pc = x] \in Query
  BY DEF Query
<1>2. \A x \in SUBSET Dirs : [q EXCEPT !.left = x] \in Query
  BY DEF Query
<1>3. \A x \in Dirs \cup {None} : [q EXCEPT !.row = x] \in Query
  BY DEF Query
<1>4. \A x \in Int : [q EXCEPT !.value = x] \in Query
  BY DEF Query
<1>5. \A x \in Int : [q EXCEPT !.total = x] \in Query
  BY DEF Query
<1>6. \A x \in [Dirs -> Int \cup {None}] : [q EXCEPT !.values = x] \in Query
  BY DEF Query
<1>7. \A x \in [Dirs -> FlagPair] : [q EXCEPT !.flags = x] \in Query
  BY DEF Query
<1>8. \A x \in [Dirs -> Opinions] : [q EXCEPT !.asked = x] \in Query
  BY DEF Query
<1>9. \A x \in SUBSET Dirs : [q EXCEPT !.shown = x] \in Query
  BY DEF Query
<1> QED BY <1>1, <1>2, <1>3, <1>4, <1>5, <1>6, <1>7, <1>8, <1>9

LEMMA IdleIs ==
  /\ QueryOK(Idle) /\ Idle.pc = "idle" /\ Idle.stage = "none" /\ Idle.values = NoValues
  /\ Idle.routes = <<>> /\ Idle.left = {} /\ Idle.shown = {}
  /\ Idle.asked = [d \in Dirs |-> "none"]
<1>1. /\ NoValues \in [Dirs -> Int \cup {None}]
      /\ [d \in Dirs |-> NoFlags] \in [Dirs -> FlagPair]
      /\ [d \in Dirs |-> "none"] \in [Dirs -> Opinions]
  BY DEF NoValues, NoFlags, FlagPair, Opinions
<1>2. /\ Idle \in Query /\ Idle.pc = "idle" /\ Idle.stage = "none"
      /\ Idle.values = NoValues
  BY <1>1 DEF Idle, Query, Pcs
<1>3. /\ Idle.routes = <<>> /\ Idle.left = {} /\ Idle.shown = {}
      /\ Idle.asked = [d \in Dirs |-> "none"]
  BY DEF Idle
<1> QED BY <1>2, <1>3 DEF QueryOK, Placed, Ready, OwnPcs, Summing

(* A request whose ways are gone, or that is at the first directory of     *)
(* those that are left.                                                    *)
LEMMA NextDirIs ==
  ASSUME NEW q \in Query, q.in \in Inputs
  PROVE  /\ QueryOK(NextDir(q))
         /\ q.routes = <<>> => NextDir(q) = Idle
         /\ q.routes # <<>> => /\ NextDir(q).pc = "scan" /\ NextDir(q).stage = "forward"
                               /\ NextDir(q).in = q.in /\ NextDir(q).alone = q.alone
                               /\ NextDir(q).routes = q.routes
                               /\ NextDir(q).values = NoValues
<1>1. CASE q.routes = <<>>
  BY <1>1, IdleIs DEF NextDir
<1>2. CASE q.routes # <<>>
  <2> DEFINE n == NextDir(q)
  <2>1. n = [Idle EXCEPT !.in = q.in, !.alone = q.alone, !.stage = "forward", !.pc = "scan",
                         !.routes = q.routes]
    BY <1>2 DEF NextDir
  <2>2. q.routes \in Seq(Seq(Dirs) \ {<<>>}) /\ q.alone \in BOOLEAN
    BY DEF Query
  <2>3. "scan" \in Pcs
    BY DEF Pcs, ForwardPcs
  <2>4. Idle \in Query
    BY IdleIs DEF QueryOK
  <2> HIDE DEF n
  <2>5. n \in Query
    BY <2>1, <2>2, <2>3, <2>4 DEF Query
  <2>6. /\ n.pc = "scan" /\ n.stage = "forward" /\ n.in = q.in
        /\ n.alone = q.alone /\ n.routes = q.routes
    BY <2>1, <2>4 DEF Query
  <2>7. n.values = NoValues
    BY <2>1, <2>4, IdleIs DEF Query
  <2>8. Placed(n) /\ Ready(n)
    BY <1>2, <2>6 DEF Placed, Ready, ForwardPcs, OwnPcs
  <2> QED BY <1>2, <2>5, <2>6, <2>7, <2>8 DEF QueryOK, n
<1> QED BY <1>1, <1>2

(* A forward update on its way: at the first of these ways, or done. *)
OnItsWay(n, q, routes) ==
  IF routes = <<>> THEN n = Idle
  ELSE /\ n.pc = "scan" /\ n.stage = "forward" /\ n.in = q.in /\ n.alone = q.alone
       /\ n.routes = routes /\ n.values = NoValues

Routes == Seq(Seq(Dirs) \ {<<>>})

LEMMA ForwardIs ==
  ASSUME NEW q \in Query, q.in \in Inputs, NEW routes \in Routes
  PROVE  QueryOK(Forward(q, routes)) /\ OnItsWay(Forward(q, routes), q, routes)
<1> DEFINE p == [q EXCEPT !.routes = routes]
<1>1. /\ p \in Query /\ p.in = q.in /\ p.routes = routes /\ p.alone = q.alone
      /\ Forward(q, routes) = NextDir(p)
  BY DEF Query, Routes, Forward
<1> HIDE DEF p
<1> QED BY <1>1, NextDirIs DEF OnItsWay

(* What is left of its ways when one directory is done. *)
Rest(q) ==
  IF Tail(Head(q.routes)) = <<>> THEN Tail(q.routes)
  ELSE <<Tail(Head(q.routes))>> \o Tail(q.routes)

LEMMA OnwardIs ==
  ASSUME NEW q \in Query, q.in \in Inputs, q.routes # <<>>
  PROVE  /\ At(q) \in Dirs /\ Head(q.routes) \in Seq(Dirs) /\ Head(q.routes) # <<>>
         /\ Tail(q.routes) \in Routes /\ Rest(q) \in Routes
         /\ QueryOK(Onward(q)) /\ OnItsWay(Onward(q), q, Rest(q))
         /\ QueryOK(CutShort(q)) /\ OnItsWay(CutShort(q), q, Tail(q.routes))
<1>1. q.routes \in Routes
  BY DEF Query, Routes
<1>2. Head(q.routes) \in Seq(Dirs) \ {<<>>} /\ Tail(q.routes) \in Routes
  BY <1>1, HeadTailProperties DEF Routes
<1>3. At(q) \in Dirs /\ Tail(Head(q.routes)) \in Seq(Dirs)
  BY <1>2, HeadTailProperties DEF At
<1>4. Rest(q) \in Routes
  <2>1. CASE Tail(Head(q.routes)) = <<>>
    BY <1>2, <2>1 DEF Rest
  <2>2. CASE Tail(Head(q.routes)) # <<>>
    <3>1. <<Tail(Head(q.routes))>> \in Routes
      BY <1>3, <2>2 DEF Routes
    <3>2. <<Tail(Head(q.routes))>> \o Tail(q.routes) \in Routes
      BY <1>2, <3>1, ConcatProperties DEF Routes
    <3> QED BY <2>2, <3>2 DEF Rest
  <2> QED BY <2>1, <2>2
<1>5. CutShort(q) = Forward(q, Tail(q.routes))
  BY DEF CutShort, Forward, Query
<1>6. Onward(q) = Forward(q, Rest(q))
  BY <1>5 DEF Onward, Forward, Rest, Query
<1> QED BY <1>2, <1>3, <1>4, <1>5, <1>6, ForwardIs

(* The ways up from a directory, or from the one it is in. *)
LEMMA RoutesAre ==
  ASSUME NEW d \in Dirs
  PROVE  /\ Path(d) = Up[d] /\ <<Path(d)>> \in Routes
         /\ \A e \in Dirs : <<Path(d), Path(e)>> \in Routes
         /\ ParentRoute(d) \in Routes
         /\ ParentRoute(d) = IF Parent(d) = None THEN <<>> ELSE <<Up[Parent(d)]>>
<1>1. \A e \in Dirs : Up[e] \in Seq(Dirs) \ {<<>>}
  BY DirMetadataAssumption
<1>2. Parent(d) # None => Parent(d) \in Dirs
  BY ParentIs
<1>3. \A e \in Dirs : <<Up[e]>> \in Routes
  BY <1>1 DEF Routes
<1>4. \A e \in Dirs : <<Up[d], Up[e]>> \in Routes
  BY <1>1 DEF Routes
<1>5. ParentRoute(d) = IF Parent(d) = None THEN <<>> ELSE <<Up[Parent(d)]>>
  BY DEF ParentRoute, Path
<1>6. ParentRoute(d) \in Routes
  <2>1. <<>> \in Routes
    BY DEF Routes
  <2> QED BY <1>2, <1>3, <1>5, <2>1
<1> QED BY <1>3, <1>4, <1>5, <1>6 DEF Path

(* The directories on some ways. *)
Ahead(routes) == UNION {{routes[i][j] : j \in 1..Len(routes[i])} : i \in 1..Len(routes)}
Apart(routes) == \A i, j \in 1..Len(routes) : routes[i] = routes[j] => i = j

LEMMA AheadIs ==
  ASSUME NEW routes, NEW x
  PROVE  x \in Ahead(routes) <=>
           \E i \in 1..Len(routes) : \E j \in 1..Len(routes[i]) : routes[i][j] = x
BY DEF Ahead

(* The rows of a refresh are there once each. *)
LEMMA RowsAre ==
  ASSUME NEW ds \in SUBSET Dirs, NEW rows \in RowsOf(ds)
  PROVE  /\ rows \in Routes /\ Single(rows) /\ Apart(rows) /\ Ahead(rows) = ds
<1> DEFINE n == Cardinality(ds)
           S == {<<d>> : d \in ds}
<1>1. IsFiniteSet(ds) /\ n \in Nat
  BY DirMetadataAssumption, FS_Subset, FS_CardinalityType
<1>2. /\ rows \in [1..n -> S]
      /\ \A i, j \in DOMAIN rows : i < j => rows[i] # rows[j]
  BY DEF RowsOf
<1>3. IsFiniteSet(S) /\ Cardinality(S) = n
  <2> DEFINE f == [d \in ds |-> <<d>>]
  <2>1. f \in Bijection(ds, S)
    <3>1. f \in Surjection(ds, S)
      BY DEF Surjection
    <3>2. \A d, e \in ds : <<d>> = <<e>> => d = e
      OBVIOUS
    <3>3. f \in Injection(ds, S)
      BY <3>2 DEF Injection, IsInjective
    <3> QED BY <3>1, <3>3 DEF Bijection
  <2> HIDE DEF S, f
  <2>2. Cardinality(S) = Cardinality(ds) /\ IsFiniteSet(S)
    BY <1>1, <2>1, FS_Bijection DEF ExistsBijection
  <2> QED BY <2>2
<1>4. S \subseteq Seq(Dirs) \ {<<>>}
  <2>1. \A d \in Dirs : <<d>> \in Seq(Dirs) /\ <<d>> # <<>>
    OBVIOUS
  <2> QED BY <2>1
<1> HIDE DEF n, S
<1>5. \A i, j \in 1..n : rows[i] = rows[j] => i = j
  <2>1. DOMAIN rows = 1..n
    BY <1>2
  <2>2. \A i, j \in 1..n : i < j \/ j < i \/ i = j
    BY <1>1
  <2> QED BY <1>2, <2>1, <2>2
<1>6. Len(rows) = n /\ rows \in Seq(S)
  BY <1>1, <1>2
<1>7. rows \in Routes
  BY <1>4, <1>6 DEF Routes
<1>8. \A i \in 1..n : \E d \in ds : rows[i] = <<d>>
  BY <1>2 DEF S
<1>9. Single(rows) /\ Apart(rows)
  <2>1. \A d : Len(<<d>>) = 1
    OBVIOUS
  <2>2. Single(rows)
    BY <1>6, <1>8, <2>1 DEF Single
  <2>3. Apart(rows)
    BY <1>5, <1>6 DEF Apart
  <2> QED BY <2>2, <2>3
<1>10. \A d \in ds : \E i \in 1..n : rows[i] = <<d>>
  <2>1. rows \in Injection(1..n, S)
    BY <1>2, <1>5 DEF Injection, IsInjective
  <2>2. Cardinality(1..n) = n
    BY <1>1, FS_Interval
  <2>3. rows \in Surjection(1..n, S)
    BY <1>1, <1>3, <2>1, <2>2, FS_Injection, FS_Interval
  <2> QED BY <2>3 DEF Surjection, S
<1>11. ASSUME NEW x PROVE x \in Ahead(rows) <=> x \in ds
  <2>1. x \in Ahead(rows) <=> \E i \in 1..n : \E j \in 1..Len(rows[i]) : rows[i][j] = x
    BY <1>6, AheadIs
  <2>2. ASSUME x \in ds PROVE x \in Ahead(rows)
    <3>1. PICK i \in 1..n : rows[i] = <<x>>
      BY <1>10, <2>2
    <3>2. Len(<<x>>) = 1 /\ <<x>>[1] = x /\ 1 \in 1..1
      OBVIOUS
    <3> QED BY <2>1, <3>1, <3>2
  <2>3. ASSUME x \in Ahead(rows) PROVE x \in ds
    <3>1. PICK i \in 1..n : \E j \in 1..Len(rows[i]) : rows[i][j] = x
      BY <2>1, <2>3
    <3>2. PICK d \in ds : rows[i] = <<d>>
      BY <1>8
    <3>3. Len(<<d>>) = 1 /\ <<d>>[1] = d /\ 1..1 = {1}
      OBVIOUS
    <3> QED BY <3>1, <3>2, <3>3
  <2> QED BY <2>2, <2>3
<1> QED BY <1>7, <1>9, <1>11

(* One of them, and those that are left. *)
LEMMA RowsLeftAre ==
  ASSUME NEW q, q.routes \in Routes, q.routes # <<>>, Single(q.routes)
  PROVE  /\ Rest(q) = Tail(q.routes) /\ Tail(q.routes) \in Routes /\ Single(Tail(q.routes))
         /\ At(q) \in Dirs /\ Ahead(q.routes) = {At(q)} \cup Ahead(Tail(q.routes))
         /\ Apart(q.routes) => Apart(Tail(q.routes)) /\ At(q) \notin Ahead(Tail(q.routes))
<1>0. PICK rs, rest, a : rs = q.routes /\ rest = Tail(rs) /\ a = At(q)
  OBVIOUS
<1>1. rs \in Routes /\ Len(rs) \in Nat \ {0} /\ Head(rs) = rs[1] /\ Single(rs)
  BY <1>0 DEF Routes
<1>2. /\ rest \in Routes /\ Len(rest) = Len(rs) - 1
      /\ \A i \in 1..(Len(rs) - 1) : rest[i] = rs[i + 1]
  BY <1>0, <1>1, HeadTailProperties DEF Routes
<1>3. \A i \in 1..Len(rs) : rs[i] \in Seq(Dirs) /\ Len(rs[i]) = 1 /\ rs[i][1] \in Dirs
  BY <1>1 DEF Routes, Single
<1>4. a = rs[1][1] /\ a \in Dirs /\ Tail(rs[1]) = <<>>
  <2>1. rs[1] \in Seq(Dirs) /\ Len(rs[1]) = 1 /\ rs[1][1] \in Dirs /\ Head(rs[1]) = rs[1][1]
    BY <1>1, <1>3
  <2>2. Tail(rs[1]) \in Seq(Dirs) /\ Len(Tail(rs[1])) = 0
    BY <2>1, HeadTailProperties
  <2>3. Tail(rs[1]) = <<>>
    BY <2>2, EmptySeq
  <2>4. a = Head(Head(rs))
    BY <1>0 DEF At
  <2> QED BY <1>1, <2>1, <2>3, <2>4
<1>5. Rest(q) = rest
  BY <1>0, <1>1, <1>4 DEF Rest
<1>6. \A x : x \in Ahead(rs) <=> \E i \in 1..Len(rs) : rs[i][1] = x
  <2>1. \A x : x \in Ahead(rs) <=> \E i \in 1..Len(rs) : \E j \in 1..Len(rs[i]) : rs[i][j] = x
    BY AheadIs
  <2> QED BY <1>3, <2>1
<1>7. \A i \in 1..Len(rest) : i + 1 \in 1..Len(rs) /\ rest[i] = rs[i + 1]
  BY <1>1, <1>2
<1>8. Single(rest)
  BY <1>3, <1>7 DEF Single
<1>9. \A x : x \in Ahead(rest) <=> \E i \in 1..Len(rest) : rest[i][1] = x
  <2>1. \A x : x \in Ahead(rest)
                <=> \E i \in 1..Len(rest) : \E j \in 1..Len(rest[i]) : rest[i][j] = x
    BY AheadIs
  <2> QED BY <1>8, <2>1 DEF Single
<1>10. \A i \in 1..Len(rs) : i = 1 \/ (i - 1 \in 1..Len(rest) /\ rest[i - 1] = rs[i])
  <2> SUFFICES ASSUME NEW i \in 1..Len(rs), i # 1
               PROVE  i - 1 \in 1..Len(rest) /\ rest[i - 1] = rs[i]
    OBVIOUS
  <2>1. i - 1 \in 1..Len(rest) /\ (i - 1) + 1 = i
    BY <1>1, <1>2
  <2> QED BY <1>7, <2>1
<1>11. Ahead(rs) = {a} \cup Ahead(rest)
  <2> SUFFICES ASSUME NEW x
               PROVE  x \in Ahead(rs) <=> x = a \/ x \in Ahead(rest)
    OBVIOUS
  <2>1. 1 \in 1..Len(rs)
    BY <1>1
  <2>2. x \in Ahead(rs) <=> \E i \in 1..Len(rs) : rs[i][1] = x
    BY <1>6
  <2>3. x \in Ahead(rest) <=> \E i \in 1..Len(rest) : rest[i][1] = x
    BY <1>9
  <2> QED BY <1>4, <1>7, <1>10, <2>1, <2>2, <2>3
<1>12. ASSUME Apart(rs) PROVE Apart(rest) /\ a \notin Ahead(rest)
  <2>1. \A i, j \in 1..Len(rest) : rest[i] = rest[j] => i = j
    <3> SUFFICES ASSUME NEW i \in 1..Len(rest), NEW j \in 1..Len(rest), rest[i] = rest[j]
                 PROVE  i = j
      OBVIOUS
    <3>1. i + 1 \in 1..Len(rs) /\ j + 1 \in 1..Len(rs) /\ rs[i + 1] = rs[j + 1]
      BY <1>7
    <3>2. i + 1 = j + 1
      BY <1>12, <3>1 DEF Apart
    <3> QED BY <3>2
  <2>2. ASSUME NEW i \in 1..Len(rest), rest[i][1] = a PROVE FALSE
    <3>1. i + 1 \in 1..Len(rs) /\ rs[i + 1][1] = rs[1][1] /\ 1 \in 1..Len(rs) /\ i + 1 # 1
      BY <1>1, <1>4, <1>7, <2>2
    <3>2. rs[i + 1] \in Seq(Dirs) /\ Len(rs[i + 1]) = 1 /\ rs[1] \in Seq(Dirs) /\ Len(rs[1]) = 1
      BY <1>3, <3>1
    <3>3. rs[i + 1] = rs[1]
      BY <3>1, <3>2
    <3> QED BY <1>12, <3>1, <3>3 DEF Apart
  <2> QED BY <1>9, <2>1, <2>2 DEF Apart
<1> QED BY <1>0, <1>2, <1>4, <1>5, <1>8, <1>11, <1>12

(* The next row of a listing. *)
LEMMA NextRowIs ==
  ASSUME NEW q \in Query, q.in \in Inputs, q.stage = "list",
         q.in.op \in ListOps \ {"refresh"},
         q.in.op = "measure" => q.left = {}
  PROVE  LET n == NextRow(q) IN
         /\ QueryOK(n) /\ n.pc \in {"listed", "count", "get"}
         /\ n.in = q.in /\ n.stage = "list" /\ n.routes = q.routes /\ n.left = q.left
         /\ n.values = q.values /\ n.flags = q.flags /\ n.asked = q.asked
         /\ n.shown = q.shown /\ n.alone = q.alone
         /\ n.pc = "listed" <=> q.left = {}
<1> DEFINE n == NextRow(q)
<1>1. n = [q EXCEPT !.pc = n.pc] /\ n.pc \in {"listed", "count", "get"}
      /\ (n.pc = "listed" <=> q.left = {}) /\ (q.in.op = "recount" => n.pc # "get")
  BY DEF NextRow, Query
<1> HIDE DEF n
<1>2. n.pc \in Pcs
  BY <1>1 DEF Pcs, ListPcs
<1>3. n \in Query
  BY <1>1, <1>2 DEF Query
<1>4. /\ n.in = q.in /\ n.stage = "list" /\ n.routes = q.routes /\ n.left = q.left
      /\ n.values = q.values /\ n.flags = q.flags /\ n.asked = q.asked
      /\ n.shown = q.shown /\ n.alone = q.alone
  BY <1>1 DEF Query
<1>5. Placed(n)
  BY <1>1, <1>4 DEF Placed, ListPcs, OwnPcs
<1>6. Ready(n)
  BY <1>1, <1>4 DEF Ready, Summing
<1> QED BY <1>1, <1>3, <1>4, <1>5, <1>6 DEF QueryOK, n

(* The next directory a forward update or a refresh asks about, or the sum. *)
LEMMA NextChildIs ==
  ASSUME NEW q \in Query, q.in \in Inputs, q.stage \in Summing, q.routes # <<>>,
         q.stage = "rows" => q.in.op = "refresh" /\ Single(q.routes)
  PROVE  LET n == NextChild(q) IN
         /\ QueryOK(n) /\ n.in = q.in /\ n.stage = q.stage /\ n.routes = q.routes
         /\ n.left = q.left /\ n.total = q.total /\ n.alone = q.alone
         /\ n.shown = q.shown /\ n.flags = q.flags /\ n.asked = q.asked
         /\ q.left # {} => n.pc = "get" /\ n.values = q.values
         /\ q.left = {} => n.pc = "bulk" /\ n.values = [q.values EXCEPT ![At(q)] = q.total]
<1> DEFINE n == NextChild(q)
           v == [q.values EXCEPT ![At(q)] = q.total]
<1>1. At(q) \in Dirs
  BY OnwardIs
<1>2. v \in [Dirs -> Int \cup {None}] /\ v[At(q)] = q.total
  BY <1>1 DEF Query
<1>3. {"get", "bulk"} \subseteq Pcs
  BY DEF Pcs, ListPcs
<1>4. CASE q.left # {}
  <2>1. n = [q EXCEPT !.pc = "get"]
    BY <1>4 DEF NextChild
  <2> HIDE DEF n
  <2>2. /\ n \in Query /\ n.in = q.in /\ n.stage = q.stage /\ n.routes = q.routes
        /\ n.left = q.left /\ n.total = q.total /\ n.alone = q.alone /\ n.values = q.values
        /\ n.shown = q.shown /\ n.flags = q.flags /\ n.asked = q.asked /\ n.pc = "get"
    BY <1>3, <2>1 DEF Query
  <2>3. Placed(n) /\ Ready(n)
    BY <2>2 DEF Placed, Ready, ForwardPcs, RowPcs, OwnPcs, Summing
  <2> QED BY <1>4, <2>2, <2>3 DEF QueryOK, n
<1>5. CASE q.left = {}
  <2>1. n = [q EXCEPT !.pc = "bulk", !.values = v]
    BY <1>5 DEF NextChild, Query
  <2> HIDE DEF n, v
  <2>2. /\ n \in Query /\ n.in = q.in /\ n.stage = q.stage /\ n.routes = q.routes
        /\ n.left = q.left /\ n.total = q.total /\ n.alone = q.alone /\ n.values = v
        /\ n.shown = q.shown /\ n.flags = q.flags /\ n.asked = q.asked /\ n.pc = "bulk"
    BY <1>2, <1>3, <2>1 DEF Query
  <2>3. Placed(n)
    BY <2>2 DEF Placed, ForwardPcs, RowPcs, OwnPcs, Summing
  <2>4. Ready(n)
    BY <1>2, <2>2 DEF Ready, At, Summing
  <2> QED BY <1>5, <2>2, <2>3, <2>4 DEF QueryOK, n, v
<1> QED BY <1>4, <1>5

(* A sub-directory's aggregate is there. *)
GotAs(n, q, d, i) ==
  /\ n.in = q.in /\ n.stage = q.stage /\ n.routes = q.routes
  /\ n.left = q.left \ {d} /\ n.alone = q.alone
  /\ n.flags = q.flags /\ n.asked = q.asked
  /\ q.stage = "list" =>
       /\ n.pc \in {"listed", "count", "get"} /\ n.values = NoValues
       /\ n.pc = "listed" <=> q.left \ {d} = {}
       /\ n.shown = Shown(q, d, i)
  /\ q.stage \in Summing =>
       /\ n.shown = q.shown /\ n.total = q.total + i
       /\ q.left \ {d} # {} => /\ n.pc = "get"
                               /\ n.values = [q.values EXCEPT ![d] = i]
       /\ q.left \ {d} = {} =>
            /\ n.pc = "bulk"
            /\ n.values = [[q.values EXCEPT ![d] = i] EXCEPT ![At(q)] = q.total + i]

LEMMA GotIs ==
  ASSUME NEW q, QueryOK(q), q.stage # "none", NEW d \in Dirs, NEW i \in Int,
         q.stage = "list" => q.in.op # "refresh" /\ (q.in.op = "measure" => q.left \subseteq {d})
  PROVE  QueryOK(Got(q, d, i)) /\ GotAs(Got(q, d, i), q, d, i)
<1>1. q \in Query /\ q.in \in Inputs
  BY DEF QueryOK, Placed
<1>2. CASE q.stage \in Summing
  <2> DEFINE v == [q.values EXCEPT ![d] = i]
             p == [q EXCEPT !.left = @ \ {d}, !.row = None, !.value = 0, !.total = @ + i,
                            !.values = v]
  <2>1. Got(q, d, i) = NextChild(p)
    BY <1>1, <1>2 DEF Got, Query, Summing
  <2>2. v \in [Dirs -> Int \cup {None}]
    BY <1>1 DEF Query
  <2>5. q.left \ {d} \in SUBSET Dirs /\ q.total + i \in Int
    BY <1>1 DEF Query
  <2> HIDE DEF v
  <2>6. /\ p.in = q.in /\ p.stage = q.stage /\ p.routes = q.routes
        /\ p.left = q.left \ {d} /\ p.alone = q.alone /\ p.total = q.total + i
        /\ p.flags = q.flags /\ p.asked = q.asked /\ p.shown = q.shown /\ p.values = v
    BY <1>1, <1>2 DEF Query
  <2>7. p \in Query
    <3> DEFINE p1 == [q EXCEPT !.left = q.left \ {d}]
               p2 == [p1 EXCEPT !.row = None]
               p3 == [p2 EXCEPT !.value = 0]
               p4 == [p3 EXCEPT !.total = q.total + i]
    <3>1. p = [p4 EXCEPT !.values = v]
      BY <1>1 DEF Query
    <3> HIDE DEF p, p1, p2, p3, p4
    <3>2. p1 \in Query
      BY <1>1, <2>5, FieldsKeep DEF p1
    <3>3. p2 \in Query
      BY <3>2, FieldsKeep DEF p2
    <3>4. p3 \in Query
      BY <3>3, FieldsKeep DEF p3
    <3>5. p4 \in Query
      BY <2>5, <3>4, FieldsKeep DEF p4
    <3> QED BY <2>2, <3>1, <3>5, FieldsKeep
  <2>3. p \in Query /\ p.in \in Inputs /\ p.stage \in Summing
    BY <1>1, <1>2, <2>6, <2>7
  <2>4. /\ q.routes # <<>> /\ At(p) = At(q)
        /\ q.stage = "rows" => q.in.op = "refresh" /\ Single(q.routes)
    BY <1>2, <2>6 DEF QueryOK, Placed, At, Summing
  <2> HIDE DEF p
  <2> DEFINE n == NextChild(p)
  <2>8. /\ QueryOK(n) /\ n.in = q.in /\ n.stage = q.stage /\ n.routes = q.routes
        /\ n.left = q.left \ {d} /\ n.total = q.total + i /\ n.alone = q.alone
        /\ n.shown = q.shown /\ n.flags = q.flags /\ n.asked = q.asked
        /\ q.left \ {d} # {} => n.pc = "get" /\ n.values = v
        /\ q.left \ {d} = {} => n.pc = "bulk" /\ n.values = [v EXCEPT ![At(q)] = q.total + i]
    BY <2>3, <2>4, <2>6, NextChildIs
  <2> HIDE DEF n
  <2> QED BY <1>2, <2>1, <2>8 DEF v, n, GotAs, Summing
<1>3. CASE q.stage = "list"
  <2> DEFINE s == Shown(q, d, i)
             p == [q EXCEPT !.left = @ \ {d}, !.row = None, !.value = 0, !.values = NoValues,
                            !.shown = s]
  <2>1. Got(q, d, i) = NextRow(p)
    BY <1>1, <1>3 DEF Got, Query
  <2>2. s \in SUBSET Dirs
    BY <1>1 DEF Query, Shown
  <2>3. NoValues \in [Dirs -> Int \cup {None}]
    BY DEF NoValues
  <2>7. q.left \ {d} \in SUBSET Dirs
    BY <1>1 DEF Query
  <2> HIDE DEF s
  <2>8. p \in Query
    <3> DEFINE p1 == [q EXCEPT !.left = q.left \ {d}]
               p2 == [p1 EXCEPT !.row = None]
               p3 == [p2 EXCEPT !.value = 0]
               p4 == [p3 EXCEPT !.values = NoValues]
    <3>1. p = [p4 EXCEPT !.shown = s]
      BY <1>1 DEF Query
    <3> HIDE DEF p, p1, p2, p3, p4
    <3>2. p1 \in Query
      BY <1>1, <2>7, FieldsKeep DEF p1
    <3>3. p2 \in Query
      BY <3>2, FieldsKeep DEF p2
    <3>4. p3 \in Query
      BY <3>3, FieldsKeep DEF p3
    <3>5. p4 \in Query
      BY <2>3, <3>4, FieldsKeep DEF p4
    <3> QED BY <2>2, <3>1, <3>5, FieldsKeep
  <2>4. /\ p.in = q.in /\ p.stage = "list" /\ p.routes = q.routes
        /\ p.left = q.left \ {d} /\ p.alone = q.alone
        /\ p.flags = q.flags /\ p.asked = q.asked /\ p.shown = s /\ p.values = NoValues
    BY <1>1, <1>3 DEF Query
  <2>5. q.in.op \in ListOps \ {"refresh"}
    BY <1>3 DEF QueryOK, Placed
  <2>6. p.in.op = "measure" => p.left = {}
    BY <1>3, <2>4
  <2> HIDE DEF p
  <2> DEFINE n == NextRow(p)
  <2>9. /\ QueryOK(n) /\ n.pc \in {"listed", "count", "get"}
        /\ n.in = p.in /\ n.stage = "list" /\ n.routes = p.routes /\ n.left = p.left
        /\ n.values = p.values /\ n.flags = p.flags /\ n.asked = p.asked
        /\ n.shown = p.shown /\ n.alone = p.alone
        /\ (n.pc = "listed" <=> p.left = {})
    BY <1>1, <2>4, <2>5, <2>6, <2>8, NextRowIs
  <2> HIDE DEF n
  <2> QED BY <1>3, <2>1, <2>4, <2>9 DEF s, n, GotAs, Summing
<1> QED BY <1>1, <1>2, <1>3 DEF Query, Summing

(* The next row of a refresh. *)
RefreshedAs(n, q, routes) ==
  /\ n.in = q.in /\ n.alone = q.alone /\ n.routes = routes /\ n.values = NoValues
  /\ n.left = {}
  /\ IF routes = <<>> THEN n.stage = "list" /\ n.pc = "listed"
     ELSE n.stage = "rows" /\ n.pc = "scan"

LEMMA NextRefreshedIs ==
  ASSUME NEW q \in Query, q.in \in Inputs, q.in.op = "refresh", Single(q.routes)
  PROVE  LET n == NextRefreshed(q) IN
         /\ QueryOK(n) /\ RefreshedAs(n, q, q.routes)
         /\ n.flags = q.flags /\ n.asked = q.asked /\ n.shown = q.shown
<1> DEFINE n == NextRefreshed(q)
<1>1. PICK stage \in {"list", "rows"} : stage = IF q.routes = <<>> THEN "list" ELSE "rows"
  OBVIOUS
<1>2. PICK pc \in {"listed", "scan"} : pc = IF q.routes = <<>> THEN "listed" ELSE "scan"
  OBVIOUS
<1>3. n = [Idle EXCEPT !.in = q.in, !.alone = q.alone, !.flags = q.flags, !.asked = q.asked,
                       !.shown = q.shown, !.routes = q.routes, !.stage = stage, !.pc = pc]
  BY <1>1, <1>2 DEF NextRefreshed
<1>4. Idle \in Query /\ Idle.values = NoValues /\ Idle.left = {}
  BY IdleIs DEF QueryOK
<1>5. pc \in Pcs
  BY DEF Pcs, ListPcs, ForwardPcs
<1> HIDE DEF n
<1>6. n \in Query
  BY <1>3, <1>4, <1>5 DEF Query
<1>7. /\ n.in = q.in /\ n.alone = q.alone /\ n.flags = q.flags /\ n.asked = q.asked
      /\ n.shown = q.shown /\ n.routes = q.routes /\ n.stage = stage /\ n.pc = pc
  BY <1>3, <1>4 DEF Query
<1>8. n.values = NoValues /\ n.left = {}
  BY <1>3, <1>4 DEF Query
<1>9. RefreshedAs(n, q, q.routes)
  BY <1>1, <1>2, <1>7, <1>8 DEF RefreshedAs
<1>10. Placed(n)
  BY <1>1, <1>2, <1>7 DEF Placed, ListPcs, RowPcs, OwnPcs, ListOps
<1>11. Ready(n)
  BY <1>1, <1>2, <1>7, <1>8 DEF Ready, Summing
<1> QED BY <1>6, <1>7, <1>9, <1>10, <1>11 DEF QueryOK, n

(* A row that is counted. *)
CountedValues(d) ==
  [e \in Dirs |-> IF e = d \/ (e \in Below[d] /\ Present(e) /\ Present(d)) THEN Total(e) ELSE None]

CountedAs(n, q, d) ==
  /\ n.pc = "bulk" /\ n.row = d /\ n.values = CountedValues(d)
  /\ n.in = q.in /\ n.stage = "list" /\ n.routes = q.routes /\ n.left = q.left
  /\ n.flags = q.flags /\ n.asked = q.asked /\ n.shown = q.shown /\ n.alone = q.alone

LEMMA CountedIs ==
  ASSUME NEW q \in Query, q.in \in Inputs, q.stage = "list", NEW d \in q.left,
         q.in.op \in ListOps \ {"refresh"},
         q.in.op = "measure" => q.left \subseteq {d},
         own \in [Dirs -> Nat \cup {None}], NEW n, n = Counted(q, d)
  PROVE  QueryOK(n) /\ CountedAs(n, q, d)
<1> DEFINE v == CountedValues(d)
<1>1. d \in Dirs /\ None \notin Int
  BY DirMetadataAssumption DEF Query
<1>2. v \in [Dirs -> Int \cup {None}] /\ v[d] # None
  BY <1>1, HeldFinite DEF CountedValues
<1>3. n = [q EXCEPT !.pc = "bulk", !.row = d, !.values = v]
  BY DEF Counted, CountedValues
<1> HIDE DEF v
<1>4. /\ n.pc = "bulk" /\ n.row = d /\ n.values = v /\ n.in = q.in /\ n.stage = "list"
      /\ n.routes = q.routes /\ n.left = q.left /\ n.flags = q.flags /\ n.asked = q.asked
      /\ n.shown = q.shown /\ n.alone = q.alone
  BY <1>3 DEF Query
<1>5. n \in Query
  <2> DEFINE p1 == [q EXCEPT !.pc = "bulk"]
             p2 == [p1 EXCEPT !.row = d]
  <2>1. n = [p2 EXCEPT !.values = v]
    BY <1>3 DEF Query
  <2>2. "bulk" \in Pcs
    BY DEF Pcs, ListPcs
  <2> HIDE DEF p1, p2
  <2>3. p1 \in Query
    BY <2>2, FieldsKeep DEF p1
  <2>4. p2 \in Query
    BY <1>1, <2>3, FieldsKeep DEF p2
  <2> QED BY <1>2, <2>1, <2>4, FieldsKeep
<1>6. Placed(n)
  BY <1>4 DEF Placed, ListPcs, OwnPcs
<1>7. Ready(n)
  BY <1>2, <1>4 DEF Ready, Summing
<1> QED BY <1>4, <1>5, <1>6, <1>7 DEF QueryOK, v, CountedAs

(* The start of a request, and what another one that starts does to it. *)
LEMMA AskedIs ==
  ASSUME NEW q \in Query, NEW in \in Inputs, NEW x \in BOOLEAN
  PROVE  LET n == [q EXCEPT !.in = in, !.alone = x] IN
         /\ n \in Query /\ n.in = in /\ n.alone = x /\ n.pc = q.pc /\ n.stage = q.stage
         /\ n.routes = q.routes /\ n.left = q.left /\ n.row = q.row /\ n.value = q.value
         /\ n.total = q.total /\ n.values = q.values /\ n.flags = q.flags
         /\ n.asked = q.asked /\ n.shown = q.shown
<1> DEFINE n == [q EXCEPT !.in = in, !.alone = x]
<1>1. n \in Query
  BY DEF Query
<1>2. /\ n.in = in /\ n.alone = x /\ n.pc = q.pc /\ n.stage = q.stage
      /\ n.routes = q.routes /\ n.left = q.left /\ n.row = q.row /\ n.value = q.value
      /\ n.total = q.total /\ n.values = q.values /\ n.flags = q.flags
      /\ n.asked = q.asked /\ n.shown = q.shown
  BY DEF Query
<1> QED BY <1>1, <1>2

(* The same request but for its company. *)
Alike(n, q) ==
  /\ n.in = q.in /\ n.pc = q.pc /\ n.stage = q.stage /\ n.routes = q.routes
  /\ n.left = q.left /\ n.row = q.row /\ n.value = q.value /\ n.total = q.total
  /\ n.values = q.values /\ n.flags = q.flags /\ n.asked = q.asked /\ n.shown = q.shown

LEMMA AloneIs ==
  ASSUME NEW q \in Query, NEW x \in BOOLEAN
  PROVE  LET n == [q EXCEPT !.alone = x] IN
         n \in Query /\ Alike(n, q) /\ n.alone = x /\ (QueryOK(q) => QueryOK(n))
<1> DEFINE n == [q EXCEPT !.alone = x]
<1>1. n \in Query
  BY DEF Query
<1>2. Alike(n, q) /\ n.alone = x
  BY DEF Query, Alike
<1> HIDE DEF n
<1>3. Placed(q) => Placed(n)
  BY <1>2 DEF Alike, Placed
<1>4. Ready(q) => Ready(n)
  BY <1>2 DEF Alike, Ready, At
<1> QED BY <1>1, <1>2, <1>3, <1>4 DEF QueryOK, n

Queries ==
  req \in [Requests -> Query] /\ \A r \in Requests : QueryOK(req[r])

TypeInv == DirMetadataTypeOK /\ Queries

LEMMA GoKeeps ==
  ASSUME Queries, NEW r \in Requests, NEW q, QueryOK(q), Go(r, q)
  PROVE  Queries' /\ req'[r] = q /\ \A u \in Requests \ {r} : req'[u] = req[u]
BY DEF Queries, Go, QueryOK

LEMMA CountUp ==
  ASSUME NEW m \in Nat, NEW k \in 0..m, k < m
  PROVE  k + 1 \in 0..m
OBVIOUS

Joins(r, q, in) ==
  \E x \in BOOLEAN : /\ req'[r] = [q EXCEPT !.in = in, !.alone = x]
                     /\ x => \A u \in Requests \ {r} : ~Active(u)

LEMMA AsksKeeps ==
  ASSUME TypeInv, NEW r \in Requests, NEW in, NEW q \in Query, Asks(r, in, q),
         \A x \in BOOLEAN : QueryOK([q EXCEPT !.in = in, !.alone = x])
  PROVE  /\ Queries' /\ asks' \in 0..MaxAsks /\ overlap' \in BOOLEAN /\ disputed' \subseteq Dirs
         /\ in \in Inputs /\ ~Active(r) /\ disputed \subseteq disputed'
         /\ Joins(r, q, in)
         /\ \A u \in Requests \ {r} :
              req'[u] = [req[u] EXCEPT !.alone = req[u].alone /\ ~Active(u)]
         /\ overlap' = (overlap \/ \E u \in Requests \ {r} : Active(u))
<1>1. /\ in \in Inputs /\ ~Active(r) /\ asks < MaxAsks /\ asks' = asks + 1
      /\ overlap' = (overlap \/ {u \in Requests \ {r} : Active(u)} # {})
  BY DEF Asks, MayAsk
<1>2. asks' \in 0..MaxAsks
  <2>1. MaxAsks \in Nat
    BY DirMetadataAssumption
  <2>2. asks \in 0..MaxAsks
    BY DEF TypeInv, DirMetadataTypeOK
  <2> QED BY <1>1, <2>1, <2>2, CountUp
<1>3. /\ overlap' = (overlap \/ \E u \in Requests \ {r} : Active(u))
      /\ overlap' \in BOOLEAN
  BY <1>1 DEF TypeInv, DirMetadataTypeOK
<1>4. disputed' \subseteq Dirs /\ disputed \subseteq disputed'
  <2>1. in.dir \in Dirs
    BY <1>1, DirMetadataAssumption
  <2> QED BY <2>1 DEF Asks, TypeInv, DirMetadataTypeOK
<1> DEFINE x == {u \in Requests \ {r} : Active(u)} = {}
<1>5. /\ req'[r] = [q EXCEPT !.in = in, !.alone = x]
      /\ \A u \in Requests \ {r} : req'[u] = [req[u] EXCEPT !.alone = req[u].alone /\ ~Active(u)]
      /\ req' = [u \in Requests |-> IF u = r THEN [q EXCEPT !.in = in, !.alone = x]
                                    ELSE [req[u] EXCEPT !.alone = req[u].alone /\ ~Active(u)]]
  BY DEF Asks
<1>6. x \in BOOLEAN /\ (x => \A u \in Requests \ {r} : ~Active(u))
  OBVIOUS
<1> HIDE DEF x
<1>7. \A u \in Requests \ {r} : QueryOK(req'[u])
  <2> SUFFICES ASSUME NEW u \in Requests \ {r} PROVE QueryOK(req'[u])
    OBVIOUS
  <2>1. req[u] \in Query /\ QueryOK(req[u])
    BY DEF TypeInv, Queries
  <2>2. (req[u].alone /\ ~Active(u)) \in BOOLEAN
    OBVIOUS
  <2>3. req'[u] = [req[u] EXCEPT !.alone = req[u].alone /\ ~Active(u)]
    BY <1>5
  <2> QED BY <2>1, <2>2, <2>3, AloneIs
<1>8. QueryOK(req'[r])
  BY <1>5, <1>6
<1>9. Queries'
  <2>1. DOMAIN req' = Requests /\ req' = [u \in Requests |-> req'[u]]
    BY <1>5
  <2>2. \A u \in Requests : QueryOK(req'[u])
    BY <1>7, <1>8
  <2> QED BY <2>1, <2>2 DEF Queries, QueryOK
<1>10. Joins(r, q, in)
  BY <1>5, <1>6 DEF Joins
<1> QED BY <1>1, <1>2, <1>3, <1>4, <1>5, <1>9, <1>10

(* What a step of a request under way finds. *)
LEMMA AtWork ==
  ASSUME TypeInv, NEW r \in Requests, Active(r)
  PROVE  /\ QueryOK(req[r]) /\ req[r] \in Query /\ Placed(req[r]) /\ Ready(req[r])
         /\ req[r].in \in Inputs /\ req[r].in.op \in Ops
         /\ req[r].in.dir \in Dirs /\ req[r].in.to \in Dirs
<1>1. QueryOK(req[r])
  BY DEF TypeInv, Queries
<1>2. req[r].in \in Inputs
  BY <1>1 DEF QueryOK, Placed, Active
<1> QED BY <1>1, <1>2, DirMetadataAssumption DEF QueryOK

(* A listing, a refresh, a measurement, a deletion that begins. *)
BegunAs(s, in, pc, stage, left) ==
  /\ s \in Query
  /\ \A x \in BOOLEAN : LET n == [s EXCEPT !.in = in, !.alone = x] IN
       /\ QueryOK(n) /\ n.in = in /\ n.pc = pc /\ n.stage = stage
       /\ n.left = left /\ n.alone = x /\ n.shown = {} /\ n.value = 0

LEMMA StartIs ==
  ASSUME NEW in \in Inputs, NEW pc, NEW stage, NEW left \in SUBSET Dirs,
         \/ stage = "list" /\ pc = "flags" /\ in.op \in ListOps \ {"measure"}
         \/ stage = "none" /\ pc = "unlink" /\ in.op \in {"delete", "move"}
         \/ stage = "none" /\ pc = "clear" /\ in.op \in {"keep folder", "delete folder"}
         \/ stage = "none" /\ pc = "mark" /\ in.op = "create"
         \/ stage = "none" /\ pc = "taken" /\ in.op = "create"
  PROVE  BegunAs([Idle EXCEPT !.stage = stage, !.pc = pc, !.left = left], in, pc, stage, left)
<1> DEFINE s == [Idle EXCEPT !.stage = stage, !.pc = pc, !.left = left]
<1>1. Idle \in Query /\ Idle.shown = {} /\ Idle.value = 0
  <2>1. Idle.value = 0
    BY DEF Idle
  <2> QED BY <2>1, IdleIs DEF QueryOK
<1>2. stage \in {"none", "list", "forward", "rows"} /\ pc \in Pcs
  BY DEF Pcs, OwnPcs, ListPcs
<1>3. /\ s \in Query /\ s.pc = pc /\ s.stage = stage /\ s.left = left /\ s.shown = {}
      /\ s.value = 0
  BY <1>1, <1>2 DEF Query
<1> HIDE DEF s
<1>4. ASSUME NEW x \in BOOLEAN
      PROVE  LET n == [s EXCEPT !.in = in, !.alone = x] IN
             /\ QueryOK(n) /\ n.in = in /\ n.pc = pc /\ n.stage = stage
             /\ n.left = left /\ n.alone = x /\ n.shown = {} /\ n.value = 0
  <2> DEFINE n == [s EXCEPT !.in = in, !.alone = x]
  <2>1. n \in Query
    BY <1>3 DEF Query
  <2>2. /\ n.in = in /\ n.alone = x /\ n.pc = s.pc /\ n.stage = s.stage /\ n.left = s.left
        /\ n.shown = s.shown /\ n.value = s.value
    BY <1>3 DEF Query
  <2> HIDE DEF n
  <2>3. Placed(n)
    BY <1>3, <2>2 DEF Placed, OwnPcs, ListPcs, Decides
  <2>4. Ready(n)
    BY <1>3, <2>2 DEF Ready, Summing
  <2> QED BY <1>3, <2>1, <2>2, <2>3, <2>4 DEF QueryOK, n
<1> QED BY <1>3, <1>4 DEF s, BegunAs

(* Every directory that is there is in one that is there. *)
Standing(o) == \A d \in Dirs : o[d] # None => \A i \in 1..Len(Up[d]) : o[Up[d][i]] # None

LEMMA SameDirectories ==
  ASSUME NEW o, NEW p, Standing(o), \A d \in Dirs : p[d] = None <=> o[d] = None
  PROVE  Standing(p)
BY WayUp DEF Standing

LEMMA OneMore ==
  ASSUME NEW o \in [Dirs -> Nat \cup {None}], NEW d \in Dirs, o[d] # None, Standing(o)
  PROVE  LET p == [o EXCEPT ![d] = o[d] + 1] IN
         p \in [Dirs -> Nat \cup {None}] /\ Standing(p)
<1> DEFINE p == [o EXCEPT ![d] = o[d] + 1]
<1>1. o[d] \in Nat /\ None \notin Nat
  BY DirMetadataAssumption
<1>2. p \in [Dirs -> Nat \cup {None}] /\ \A e \in Dirs : p[e] = None <=> o[e] = None
  BY <1>1
<1> HIDE DEF p
<1> QED BY <1>2, SameDirectories DEF p

LEMMA IdleAs ==
  \A pc : [Idle EXCEPT !.pc = pc] = [Idle EXCEPT !.stage = "none", !.pc = pc, !.left = {}]
<1>1. Idle \in Query /\ Idle.stage = "none" /\ Idle.left = {}
  BY IdleIs DEF QueryOK
<1> QED BY <1>1 DEF Query

(* A measurement begins with the count. *)
LEMMA MeasureIs ==
  ASSUME NEW in \in Inputs, in.op = "measure", own \in [Dirs -> Nat \cup {None}]
  PROVE  LET s == Counted([Idle EXCEPT !.stage = "list", !.left = {in.dir}], in.dir) IN
         /\ s \in Query /\ s.shown = {}
         /\ \A x \in BOOLEAN : LET n == [s EXCEPT !.in = in, !.alone = x] IN
              /\ QueryOK(n) /\ n.in = in /\ n.pc = "bulk" /\ n.stage = "list"
              /\ n.left = {in.dir} /\ n.row = in.dir /\ n.values = CountedValues(in.dir)
              /\ n.shown = {} /\ n.alone = x /\ n.asked = [e \in Dirs |-> "none"]
<1> DEFINE d == in.dir
           i == [Idle EXCEPT !.stage = "list", !.left = {d}]
           v == CountedValues(d)
           s == Counted(i, d)
<1>1. d \in Dirs /\ None \notin Int
  BY DirMetadataAssumption
<1>2. v \in [Dirs -> Int \cup {None}] /\ v[d] # None
  BY <1>1, HeldFinite DEF CountedValues
<1> HIDE DEF d
<1> DEFINE a == [e \in Dirs |-> "none"]
<1>3. Idle \in Query /\ Idle.shown = {} /\ Idle.asked = a
  BY IdleIs DEF QueryOK
<1> HIDE DEF a
<1>4. i \in Query /\ i.stage = "list" /\ i.left = {d} /\ i.shown = {} /\ i.asked = a
  BY <1>1, <1>3 DEF Query
<1>5. s = [i EXCEPT !.pc = "bulk", !.row = d, !.values = v]
  BY DEF Counted, CountedValues
<1> HIDE DEF i, v, s
<1>6. s \in Query
  <2> DEFINE p1 == [i EXCEPT !.pc = "bulk"]
             p2 == [p1 EXCEPT !.row = d]
  <2>1. s = [p2 EXCEPT !.values = v]
    BY <1>4, <1>5 DEF Query
  <2>2. "bulk" \in Pcs
    BY DEF Pcs, ListPcs
  <2> HIDE DEF p1, p2
  <2>3. p1 \in Query
    BY <1>4, <2>2, FieldsKeep DEF p1
  <2>4. p2 \in Query
    BY <1>1, <2>3, FieldsKeep DEF p2
  <2> QED BY <1>2, <2>1, <2>4, FieldsKeep
<1>7. /\ s.pc = "bulk" /\ s.stage = "list" /\ s.left = {d} /\ s.row = d /\ s.values = v
      /\ s.shown = {} /\ s.asked = a
  BY <1>4, <1>5 DEF Query
<1>8. ASSUME NEW x \in BOOLEAN
      PROVE  LET n == [s EXCEPT !.in = in, !.alone = x] IN
              /\ QueryOK(n) /\ n.in = in /\ n.pc = "bulk" /\ n.stage = "list"
              /\ n.left = {d} /\ n.row = d /\ n.values = v
              /\ n.shown = {} /\ n.alone = x /\ n.asked = a
  <2> DEFINE n == [s EXCEPT !.in = in, !.alone = x]
  <2>1. n \in Query
    BY <1>6 DEF Query
  <2>2. /\ n.in = in /\ n.pc = "bulk" /\ n.stage = "list" /\ n.left = {d} /\ n.row = d
        /\ n.values = v /\ n.shown = {} /\ n.alone = x /\ n.asked = a
    BY <1>6, <1>7 DEF Query
  <2> HIDE DEF n
  <2>3. Placed(n)
    BY <2>2 DEF Placed, ListPcs, OwnPcs, ListOps
  <2>4. Ready(n)
    BY <1>2, <2>2 DEF Ready, Summing
  <2> QED BY <2>1, <2>2, <2>3, <2>4 DEF QueryOK, n
<1> QED BY <1>6, <1>7, <1>8 DEF s, i, d, v, a

(* A batch update goes the whole way. *)
LEMMA UpdateIs ==
  ASSUME NEW in \in Inputs, NEW route \in DeepestFirst({in.dir, in.to})
  PROVE  LET s == Forward([Idle EXCEPT !.in = in], <<route>>) IN
         /\ <<route>> \in Routes /\ s \in Query
         /\ \A x \in BOOLEAN : LET n == [s EXCEPT !.in = in, !.alone = x] IN
              /\ QueryOK(n) /\ n.in = in /\ n.alone = x /\ n.pc = "scan" /\ n.stage = "forward"
              /\ n.routes = <<route>> /\ n.values = NoValues
<1> DEFINE i == [Idle EXCEPT !.in = in]
           s == Forward(i, <<route>>)
<1>1. in.dir \in Dirs /\ in.to \in Dirs
  BY DirMetadataAssumption
<1>2. i \in Query /\ i.in = in
  <2>1. Idle \in Query
    BY IdleIs DEF QueryOK
  <2> QED BY <2>1 DEF Query
<1>3. <<route>> \in Routes
  <2> DEFINE all == UNION {{Up[d][j] : j \in 1..Len(Up[d])} : d \in {in.dir, in.to}}
  <2>1. all \subseteq Dirs /\ IsFiniteSet(all) /\ all # {}
    <3>1. all \subseteq Dirs
      BY <1>1, WayUp
    <3>2. Up[in.dir][1] \in all
      BY <1>1, WayUp
    <3> QED BY <3>1, <3>2, DirMetadataAssumption, FS_Subset
  <2>2. route \in [1..Cardinality(all) -> all]
    BY DEF DeepestFirst
  <2>3. Cardinality(all) \in Nat \ {0}
    BY <2>1, FS_CardinalityType, FS_EmptySet
  <2> HIDE DEF all
  <2>4. route \in Seq(Dirs) /\ Len(route) = Cardinality(all)
    BY <2>1, <2>2, <2>3
  <2>5. route # <<>>
    BY <2>3, <2>4
  <2> QED BY <2>4, <2>5 DEF Routes
<1> HIDE DEF i
<1>4. QueryOK(s) /\ OnItsWay(s, i, <<route>>)
  BY <1>2, <1>3, ForwardIs
<1>5. s.pc = "scan" /\ s.stage = "forward" /\ s.routes = <<route>> /\ s.in = in
      /\ s.values = NoValues /\ s \in Query
  BY <1>2, <1>4 DEF OnItsWay, QueryOK
<1> HIDE DEF s
<1>6. ASSUME NEW x \in BOOLEAN
      PROVE  LET n == [s EXCEPT !.in = in, !.alone = x] IN
             /\ QueryOK(n) /\ n.in = in /\ n.alone = x /\ n.pc = "scan" /\ n.stage = "forward"
             /\ n.routes = <<route>> /\ n.values = NoValues
  <2>1. [s EXCEPT !.in = in, !.alone = x] = [s EXCEPT !.alone = x]
    BY <1>5 DEF Query
  <2> QED BY <1>4, <1>5, <2>1, AloneIs DEF Alike
<1> QED BY <1>3, <1>5, <1>6 DEF s, i

(* A new directory in one that is there. *)
LEMMA Made ==
  ASSUME NEW o \in [Dirs -> Nat \cup {None}], Standing(o), NEW d \in Dirs,
         o[Parent(d)] # None
  PROVE  LET p == [o EXCEPT ![d] = 0] IN p \in [Dirs -> Nat \cup {None}] /\ Standing(p)
<1> DEFINE p == [o EXCEPT ![d] = 0]
<1>1. p \in [Dirs -> Nat \cup {None}] /\ p[d] = 0 /\ \A e \in Dirs \ {d} : p[e] = o[e]
  BY DirMetadataAssumption
<1>2. 0 # None
  BY DirMetadataAssumption
<1> HIDE DEF p
<1>3. ASSUME NEW e \in Dirs, p[e] # None, NEW i \in 1..Len(Up[e])
      PROVE  p[Up[e][i]] # None
  <2>1. CASE e # d
    BY <1>1, <1>2, <1>3, <2>1, WayUp DEF Standing
  <2>2. CASE e = d /\ i = 1
    BY <1>1, <1>2, <2>2, WayUp
  <2>3. CASE e = d /\ i # 1
    <3>1. Len(Up[d]) \in Nat /\ Len(Up[d]) # 1 /\ Parent(d) \in Dirs
      BY <1>3, <2>3, WayUp, ParentIs
    <3>4. Parent(d) = Up[d][2] /\ Len(Up[Parent(d)]) = Len(Up[d]) - 1
      BY <3>1, ParentIs, DirMetadataAssumption
    <3>5. /\ 2 \in 1..Len(Up[d]) /\ i - 1 \in 1..(Len(Up[d]) - 1)
          /\ i - 1 \in 1..(Len(Up[d]) - 2 + 1) /\ i = 2 + (i - 1) - 1
      BY <1>3, <2>3, <3>1
    <3>7. \A j \in 1..(Len(Up[d]) - 2 + 1) : Up[Up[d][2]][j] = Up[d][2 + j - 1]
      BY <3>5, WayUp
    <3>6. Up[Up[d][2]][i - 1] = Up[d][2 + (i - 1) - 1]
      BY <3>5, <3>7
    <3>2. i - 1 \in 1..Len(Up[Parent(d)]) /\ Up[Parent(d)][i - 1] = Up[d][i]
      BY <3>4, <3>5, <3>6
    <3>3. o[Up[d][i]] # None /\ Up[d][i] \in Dirs
      BY <1>3, <2>3, <3>1, <3>2, WayUp DEF Standing
    <3> QED BY <1>1, <1>2, <2>3, <3>3
  <2> QED BY <2>1, <2>2, <2>3
<1> QED BY <1>1, <1>3 DEF p, Standing

(* What each kind of request begins with, in a world where it changes the  *)
(* files from o to p.                                                      *)
Listing(n, o, p) ==
  /\ n.stage = "list" /\ n.pc = "flags" /\ n.in.op \in ListOps \ {"measure"}
  /\ n.left = Subs(n.in.dir) /\ n.shown = {}
  /\ o[n.in.dir] # None
  /\ IF n.in.op = "find" THEN p = [o EXCEPT ![n.in.dir] = o[n.in.dir] + 1] ELSE p = o
Measuring(n, o, p) ==
  /\ n.stage = "list" /\ n.pc = "bulk" /\ n.in.op = "measure"
  /\ n.left = {n.in.dir} /\ n.row = n.in.dir /\ n.values = CountedValues(n.in.dir)
  /\ n.shown = {} /\ n.asked = [e \in Dirs |-> "none"]
  /\ o[n.in.dir] # None /\ p = o
Changing(n, o, p) ==
  /\ n.stage = "none" /\ o[n.in.dir] # None
  /\ n.in.op = "move" => o[n.in.to] # None
  /\ IF n.in.op = "move" THEN p = [o EXCEPT ![n.in.to] = o[n.in.to] + 1] ELSE p = o
  /\ \/ n.pc = "unlink" /\ n.in.op \in {"delete", "move"}
     \/ n.pc = "clear" /\ n.in.op \in {"keep folder", "delete folder"}
Updating(n, o, p) ==
  /\ n.stage = "forward" /\ n.pc = "scan" /\ n.in.op = "update" /\ n.values = NoValues
  /\ \E route \in DeepestFirst({n.in.dir, n.in.to}) : n.routes = <<route>>
  /\ o[n.in.dir] # None /\ o[n.in.to] # None
  /\ p = [d \in Dirs |-> IF d \in {n.in.dir, n.in.to} THEN o[d] + 1 ELSE o[d]]
Creating(n, o, p) ==
  /\ n.stage = "none" /\ n.in.op = "create" /\ o[Parent(n.in.dir)] # None
  /\ IF o[n.in.dir] # None THEN n.pc = "taken" /\ p = o
     ELSE n.pc = "mark" /\ p = [o EXCEPT ![n.in.dir] = 0]

Beginning(n, o, p) ==
  \/ Listing(n, o, p) \/ Measuring(n, o, p) \/ Changing(n, o, p)
  \/ Updating(n, o, p) \/ Creating(n, o, p)

(* A request that begins: what it is, what it knows of the others, and     *)
(* that nothing but the files has changed.                                 *)
LEMMA AskingIs ==
  ASSUME TypeInv, NEW r \in Requests, Asking(r)
  PROVE  /\ \E q : Asks(r, req'[r].in, q)
         /\ QueryOK(req'[r]) /\ req'[r].in \in Inputs /\ Beginning(req'[r], own, own')
         /\ ~Active(r) /\ disputed \subseteq disputed'
         /\ req'[r].alone => \A u \in Requests \ {r} : ~Active(u)
         /\ \A u \in Requests \ {r} :
              req'[u] = [req[u] EXCEPT !.alone = req[u].alone /\ ~Active(u)]
         /\ overlap' = (overlap \/ \E u \in Requests \ {r} : Active(u))
         /\ UNCHANGED <<meta, cache, decided, neglected>>
         /\ Queries' /\ asks' \in 0..MaxAsks /\ overlap' \in BOOLEAN /\ disputed' \subseteq Dirs
<1> USE DEF Present
<1>2. \A in \in Inputs : in \in [op : Ops, dir : Dirs, to : Dirs]
  BY DirMetadataAssumption
<1>3. \A d : Subs(d) \in SUBSET Dirs
  BY DEF Subs
<1>4. UNCHANGED <<meta, cache, decided, neglected>>
  BY DEF Asking, ListDirectory, Measure, ChangeDirectory, UpdateDirectories, CreateDirectory,
         storeVars
<1>5. ASSUME NEW in \in Inputs, NEW q \in Query, Asks(r, in, q),
             \A x \in BOOLEAN : LET n == [q EXCEPT !.in = in, !.alone = x] IN
               QueryOK(n) /\ n.in = in /\ n.alone = x /\ Beginning(n, own, own')
      PROVE  /\ \E p : Asks(r, req'[r].in, p)
             /\ QueryOK(req'[r]) /\ req'[r].in \in Inputs /\ Beginning(req'[r], own, own')
             /\ ~Active(r) /\ disputed \subseteq disputed'
             /\ req'[r].alone => \A u \in Requests \ {r} : ~Active(u)
             /\ \A u \in Requests \ {r} :
                  req'[u] = [req[u] EXCEPT !.alone = req[u].alone /\ ~Active(u)]
             /\ overlap' = (overlap \/ \E u \in Requests \ {r} : Active(u))
             /\ Queries' /\ asks' \in 0..MaxAsks /\ overlap' \in BOOLEAN /\ disputed' \subseteq Dirs
  <2>1. \A x \in BOOLEAN : QueryOK([q EXCEPT !.in = in, !.alone = x])
    BY <1>5
  <2>2. /\ Queries' /\ asks' \in 0..MaxAsks /\ overlap' \in BOOLEAN /\ disputed' \subseteq Dirs
        /\ ~Active(r) /\ disputed \subseteq disputed'
        /\ \A u \in Requests \ {r} :
              req'[u] = [req[u] EXCEPT !.alone = req[u].alone /\ ~Active(u)]
        /\ overlap' = (overlap \/ \E u \in Requests \ {r} : Active(u))
    BY <1>5, <2>1, AsksKeeps
  <2>5. Joins(r, q, in)
    BY <1>5, <2>1, AsksKeeps
  <2>3. PICK x \in BOOLEAN : /\ req'[r] = [q EXCEPT !.in = in, !.alone = x]
                             /\ (x => \A u \in Requests \ {r} : ~Active(u))
    BY <2>5 DEF Joins
  <2>4. QueryOK(req'[r]) /\ req'[r].in = in /\ req'[r].alone = x /\ Beginning(req'[r], own, own')
    BY <1>5, <2>3
  <2> QED BY <1>5, <2>2, <2>3, <2>4
<1>6. CASE ListDirectory(r)
  <2>1. PICK in \in Inputs :
          /\ in.op \in ListOps \ {"measure"} /\ own[in.dir] # None
          /\ own' = IF in.op = "find" THEN [own EXCEPT ![in.dir] = own[in.dir] + 1] ELSE own
          /\ Asks(r, in, [Idle EXCEPT !.stage = "list", !.pc = "flags", !.left = Subs(in.dir)])
    BY <1>6 DEF ListDirectory, ListOps
  <2> DEFINE s == [Idle EXCEPT !.stage = "list", !.pc = "flags", !.left = Subs(in.dir)]
  <2>2. in.op \in ListOps \ {"measure"} /\ Subs(in.dir) \in SUBSET Dirs
    BY <1>3, <2>1
  <2>3. BegunAs(s, in, "flags", "list", Subs(in.dir))
    BY <2>2, StartIs
  <2>4. Asks(r, in, s)
    BY <2>1
  <2> HIDE DEF s
  <2>5. \A x \in BOOLEAN : LET n == [s EXCEPT !.in = in, !.alone = x] IN
          QueryOK(n) /\ n.in = in /\ n.alone = x /\ Listing(n, own, own')
    BY <2>1, <2>3 DEF Listing, BegunAs
  <2> QED BY <1>4, <1>5, <2>3, <2>4, <2>5 DEF Beginning, BegunAs
<1>7. CASE Measure(r)
  <2>1. PICK in \in Inputs :
          /\ in.op = "measure" /\ own' = own /\ own[in.dir] # None
          /\ Asks(r, in, Counted([Idle EXCEPT !.stage = "list", !.left = {in.dir}], in.dir))
    BY <1>7 DEF Measure
  <2> DEFINE s == Counted([Idle EXCEPT !.stage = "list", !.left = {in.dir}], in.dir)
  <2>2. own \in [Dirs -> Nat \cup {None}]
    BY DEF TypeInv, DirMetadataTypeOK
  <2>3. /\ s \in Query
        /\ \A x \in BOOLEAN : LET n == [s EXCEPT !.in = in, !.alone = x] IN
             /\ QueryOK(n) /\ n.in = in /\ n.pc = "bulk" /\ n.stage = "list"
             /\ n.left = {in.dir} /\ n.row = in.dir /\ n.values = CountedValues(in.dir)
             /\ n.shown = {} /\ n.alone = x /\ n.asked = [e \in Dirs |-> "none"]
    BY <2>1, <2>2, MeasureIs
  <2>4. Asks(r, in, s)
    BY <2>1
  <2> HIDE DEF s
  <2>5. \A x \in BOOLEAN : LET n == [s EXCEPT !.in = in, !.alone = x] IN
          QueryOK(n) /\ n.in = in /\ n.alone = x /\ Measuring(n, own, own')
    BY <2>1, <2>3 DEF Measuring
  <2> QED BY <1>4, <1>5, <2>3, <2>4, <2>5 DEF Beginning
<1>8. CASE ChangeDirectory(r)
  <2>1. PICK in \in Inputs :
          /\ in.op \in {"delete", "move", "keep folder", "delete folder"} /\ own[in.dir] # None
          /\ in.op = "move" => own[in.to] # None
          /\ own' = IF in.op = "move" THEN [own EXCEPT ![in.to] = own[in.to] + 1] ELSE own
          /\ Asks(r, in, [Idle EXCEPT !.pc = IF in.op \in {"delete", "move"} THEN "unlink" ELSE "clear"])
    BY <1>8 DEF ChangeDirectory
  <2>2. PICK pc \in {"unlink", "clear"} :
          pc = IF in.op \in {"delete", "move"} THEN "unlink" ELSE "clear"
    OBVIOUS
  <2> DEFINE s == [Idle EXCEPT !.stage = "none", !.pc = pc, !.left = {}]
  <2>3. Asks(r, in, s)
    BY <2>1, <2>2, IdleAs
  <2>4. \/ pc = "unlink" /\ in.op \in {"delete", "move"}
        \/ pc = "clear" /\ in.op \in {"keep folder", "delete folder"}
    BY <2>1, <2>2
  <2>5. {} \in SUBSET Dirs
    OBVIOUS
  <2>6. BegunAs(s, in, pc, "none", {})
    BY <2>4, <2>5, StartIs
  <2> HIDE DEF s
  <2>7. \A x \in BOOLEAN : LET n == [s EXCEPT !.in = in, !.alone = x] IN
          QueryOK(n) /\ n.in = in /\ n.alone = x /\ Changing(n, own, own')
    BY <2>1, <2>4, <2>6 DEF Changing, BegunAs
  <2> QED BY <1>4, <1>5, <2>3, <2>6, <2>7 DEF Beginning, BegunAs
<1>9. CASE UpdateDirectories(r)
  <2>1. PICK in \in Inputs :
          /\ in.op = "update" /\ \A d \in {in.dir, in.to} : own[d] # None
          /\ own' = [d \in Dirs |-> IF d \in {in.dir, in.to} THEN own[d] + 1 ELSE own[d]]
          /\ \E route \in DeepestFirst({in.dir, in.to}) :
               Asks(r, in, Forward([Idle EXCEPT !.in = in], <<route>>))
    BY <1>9 DEF UpdateDirectories
  <2>2. PICK route \in DeepestFirst({in.dir, in.to}) :
          Asks(r, in, Forward([Idle EXCEPT !.in = in], <<route>>))
    BY <2>1
  <2> DEFINE s == Forward([Idle EXCEPT !.in = in], <<route>>)
  <2>3. /\ s \in Query
        /\ \A x \in BOOLEAN : LET n == [s EXCEPT !.in = in, !.alone = x] IN
             /\ QueryOK(n) /\ n.in = in /\ n.alone = x /\ n.pc = "scan" /\ n.stage = "forward"
             /\ n.routes = <<route>> /\ n.values = NoValues
    BY UpdateIs
  <2>4. Asks(r, in, s)
    BY <2>2
  <2> HIDE DEF s
  <2>5. \A x \in BOOLEAN : LET n == [s EXCEPT !.in = in, !.alone = x] IN
          QueryOK(n) /\ n.in = in /\ n.alone = x /\ Updating(n, own, own')
    BY <2>1, <2>3 DEF Updating
  <2> QED BY <1>4, <1>5, <2>3, <2>4, <2>5 DEF Beginning
<1>10. CASE CreateDirectory(r)
  <2>1. PICK in \in Inputs :
          /\ in.op = "create" /\ own[Parent(in.dir)] # None
          /\ own' = IF own[in.dir] # None THEN own ELSE [own EXCEPT ![in.dir] = 0]
          /\ Asks(r, in, [Idle EXCEPT !.pc = IF own[in.dir] # None THEN "taken" ELSE "mark"])
    BY <1>10 DEF CreateDirectory
  <2>2. PICK pc \in {"taken", "mark"} : pc = IF own[in.dir] # None THEN "taken" ELSE "mark"
    OBVIOUS
  <2> DEFINE s == [Idle EXCEPT !.stage = "none", !.pc = pc, !.left = {}]
  <2>3. Asks(r, in, s)
    BY <2>1, <2>2, IdleAs
  <2>6. {} \in SUBSET Dirs
    OBVIOUS
  <2>4. BegunAs(s, in, pc, "none", {})
    BY <2>1, <2>2, <2>6, StartIs
  <2> HIDE DEF s
  <2>5. \A x \in BOOLEAN : LET n == [s EXCEPT !.in = in, !.alone = x] IN
          QueryOK(n) /\ n.in = in /\ n.alone = x /\ Creating(n, own, own')
    BY <2>1, <2>2, <2>4 DEF Creating, BegunAs
  <2> QED BY <1>4, <1>5, <2>3, <2>4, <2>5 DEF Beginning, BegunAs
<1> QED BY <1>6, <1>7, <1>8, <1>9, <1>10 DEF Asking

LEMMA TypesAsking ==
  ASSUME TypeInv, NEW r \in Requests, Asking(r)
  PROVE  TypeInv'
<1> DEFINE n == req'[r]
<1>1. /\ own \in [Dirs -> Nat \cup {None}] /\ Standing(own) /\ None \notin Nat /\ 0 \in Nat
  BY DirMetadataAssumption DEF TypeInv, DirMetadataTypeOK, Standing, Present
<1>2. n.in \in Inputs /\ Beginning(n, own, own')
  BY AskingIs
<1>3. n.in.dir \in Dirs /\ n.in.to \in Dirs
  BY <1>2, DirMetadataAssumption
<1> HIDE DEF n
<1>4. own' \in [Dirs -> Nat \cup {None}] /\ Standing(own')
  <2>1. CASE Listing(n, own, own')
    BY <1>1, <1>3, <2>1, OneMore DEF Listing
  <2>2. CASE Measuring(n, own, own')
    BY <1>1, <2>2 DEF Measuring
  <2>3. CASE Changing(n, own, own')
    <3>1. CASE n.in.op = "move"
      BY <1>1, <1>3, <2>3, <3>1, OneMore DEF Changing
    <3>2. CASE n.in.op # "move"
      BY <1>1, <2>3, <3>2 DEF Changing
    <3> QED BY <3>1, <3>2
  <2>4. CASE Updating(n, own, own')
    <3>1. own' \in [Dirs -> Nat \cup {None}] /\ \A d \in Dirs : own'[d] = None <=> own[d] = None
      BY <1>1, <1>3, <2>4 DEF Updating
    <3> QED BY <1>1, <3>1, SameDirectories
  <2>5. CASE Creating(n, own, own')
    <3>1. own[Parent(n.in.dir)] # None
      BY <2>5 DEF Creating
    <3> QED BY <1>1, <1>3, <2>5, <3>1, Made DEF Creating
  <2> QED BY <1>2, <2>1, <2>2, <2>3, <2>4, <2>5 DEF Beginning
<1> QED BY <1>4, AskingIs DEF TypeInv, DirMetadataTypeOK, Standing, Present

LEMMA SizedIs ==
  ASSUME NEW m \in Meta \cup {None}, NEW n \in Int
  PROVE  /\ Sized(m, n) \in Meta /\ Sized(m, n) # None /\ Sized(m, n).size = n
         /\ Flags(Sized(m, n)) = Flags(m) /\ Flags(m) \in FlagPair
<1>1. None \notin Meta
  BY DirMetadataAssumption
<1>2. CASE m = None
  <2>1. Sized(m, n) = [size |-> n, created |-> FALSE, deleted |-> FALSE]
    BY <1>2 DEF Sized
  <2>2. Sized(m, n) \in Meta
    BY <2>1 DEF Meta
  <2>3. Flags(m) = [created |-> FALSE, deleted |-> FALSE]
    BY <1>2 DEF Flags, NoFlags
  <2>4. /\ Sized(m, n).size = n /\ Sized(m, n).created = FALSE
        /\ Sized(m, n).deleted = FALSE
    BY <2>1
  <2>5. Sized(m, n) # None
    BY <1>1, <2>2
  <2>6. Flags(Sized(m, n)) = [created |-> FALSE, deleted |-> FALSE]
    BY <2>4, <2>5 DEF Flags
  <2>7. [created |-> FALSE, deleted |-> FALSE] \in FlagPair
    BY DEF FlagPair
  <2> QED BY <2>2, <2>3, <2>4, <2>5, <2>6, <2>7
<1>3. CASE m # None
  <2>1. m \in Meta /\ Sized(m, n) = [m EXCEPT !.size = n]
    BY <1>3 DEF Sized
  <2>2. /\ Sized(m, n) \in Meta /\ Sized(m, n).size = n
        /\ Sized(m, n).created = m.created /\ Sized(m, n).deleted = m.deleted
    BY <2>1 DEF Meta
  <2>3. Flags(m) = [created |-> m.created, deleted |-> m.deleted]
    BY <1>3 DEF Flags
  <2>4. Flags(Sized(m, n)) = [created |-> m.created, deleted |-> m.deleted]
    BY <1>1, <2>2 DEF Flags
  <2>5. m.created \in BOOLEAN /\ m.deleted \in BOOLEAN
    BY <2>1 DEF Meta
  <2>6. Flags(m) \in FlagPair
    BY <2>3, <2>5 DEF FlagPair
  <2> QED BY <1>1, <2>2, <2>3, <2>4, <2>6
<1> QED BY <1>2, <1>3

LEMMA FlaggedIs ==
  ASSUME NEW m \in Meta \cup {None}, NEW mark \in {"kept", "deleted"}
  PROVE  /\ Flagged(m, mark) \in Meta /\ Flagged(m, mark) # None
         /\ Flagged(m, mark).size = IF m = None THEN 0 ELSE m.size
         /\ Flagged(m, mark).created = (mark = "kept")
         /\ Flagged(m, mark).deleted = (mark = "deleted")
<1>1. None \notin Meta /\ (IF m = None THEN 0 ELSE m.size) \in Int
  BY DirMetadataAssumption DEF Meta
<1>2. (mark = "kept") \in BOOLEAN /\ (mark = "deleted") \in BOOLEAN
  OBVIOUS
<1>3. Flagged(m, mark) \in Meta
  BY <1>1, <1>2 DEF Flagged, Meta
<1> QED BY <1>1, <1>3 DEF Flagged

(* The same request, elsewhere. *)
LEMMA PcIs ==
  ASSUME NEW q \in Query, NEW pc \in Pcs, NEW n, n = [q EXCEPT !.pc = pc]
  PROVE  /\ n \in Query /\ n.pc = pc /\ n.in = q.in /\ n.stage = q.stage
         /\ n.routes = q.routes /\ n.left = q.left /\ n.row = q.row /\ n.value = q.value
         /\ n.total = q.total /\ n.values = q.values /\ n.flags = q.flags
         /\ n.asked = q.asked /\ n.shown = q.shown /\ n.alone = q.alone /\ At(n) = At(q)
<1>1. n \in Query
  BY DEF Query
<1>2. /\ n.pc = pc /\ n.in = q.in /\ n.stage = q.stage
      /\ n.routes = q.routes /\ n.left = q.left /\ n.row = q.row /\ n.value = q.value
      /\ n.total = q.total /\ n.values = q.values /\ n.flags = q.flags
      /\ n.asked = q.asked /\ n.shown = q.shown /\ n.alone = q.alone
  BY DEF Query
<1> QED BY <1>1, <1>2 DEF At

LEMMA TypesGo ==
  ASSUME TypeInv, NEW r \in Requests, NEW q, QueryOK(q), Go(r, q),
         own' \in [Dirs -> Nat \cup {None}], Standing(own'),
         meta' \in [Dirs -> Meta \cup {None}], cache' \in [Dirs -> Int \cup {None}],
         decided' \in [Dirs -> Opinions], neglected' \in BOOLEAN,
         UNCHANGED <<asks, disputed, overlap>>
  PROVE  TypeInv'
<1>1. Queries'
  BY GoKeeps DEF TypeInv
<1> QED BY <1>1 DEF TypeInv, DirMetadataTypeOK, Standing, Present, Opinions

LEMMA TypesNow ==
  ASSUME TypeInv
  PROVE  /\ own \in [Dirs -> Nat \cup {None}] /\ Standing(own)
         /\ meta \in [Dirs -> Meta \cup {None}] /\ cache \in [Dirs -> Int \cup {None}]
         /\ decided \in [Dirs -> Opinions] /\ neglected \in BOOLEAN
BY DEF TypeInv, DirMetadataTypeOK, Standing, Present, Opinions

(* Where the steps of a listing and of a forward update leave a request. *)
Carries(n, q) ==
  /\ n.in = q.in /\ n.stage = q.stage /\ n.routes = q.routes /\ n.left = q.left
  /\ n.total = q.total /\ n.values = q.values /\ n.flags = q.flags
  /\ n.asked = q.asked /\ n.shown = q.shown /\ n.alone = q.alone

ReadAs(n, q, d) == QueryOK(n) /\ Carries(n, q) /\ n.pc = "read" /\ n.row = d

LEMMA ReadIs ==
  ASSUME NEW q, QueryOK(q), q.pc = "get", NEW d \in q.left, d \in Dirs
  PROVE  ReadAs([q EXCEPT !.pc = "read", !.row = d], q, d)
<1> DEFINE n == [q EXCEPT !.pc = "read", !.row = d]
<1>1. q \in Query /\ Placed(q) /\ Ready(q) /\ "read" \in Pcs
  BY DEF QueryOK, Pcs, ListPcs
<1>2. n \in Query
  BY <1>1 DEF Query
<1>3. /\ n.pc = "read" /\ n.row = d /\ n.in = q.in /\ n.stage = q.stage
      /\ n.routes = q.routes /\ n.left = q.left /\ n.total = q.total /\ n.values = q.values
      /\ n.flags = q.flags /\ n.asked = q.asked /\ n.shown = q.shown /\ n.alone = q.alone
  BY <1>1 DEF Query
<1> HIDE DEF n
<1>4. Placed(n)
  BY <1>1, <1>3 DEF Placed, OwnPcs, ListPcs, ForwardPcs, RowPcs
<1>5. Ready(n)
  BY <1>1, <1>3 DEF Ready, Summing
<1> QED BY <1>2, <1>3, <1>4, <1>5 DEF QueryOK, Carries, n, ReadAs

FillAs(n, q, i) ==
  QueryOK(n) /\ Carries(n, q) /\ n.pc = "fill" /\ n.value = i /\ n.row = q.row

LEMMA FillIs ==
  ASSUME NEW q, QueryOK(q), q.pc = "read", NEW i \in Int
  PROVE  FillAs([q EXCEPT !.pc = "fill", !.value = i], q, i)
<1> DEFINE n == [q EXCEPT !.pc = "fill", !.value = i]
<1>1. q \in Query /\ Placed(q) /\ Ready(q) /\ "fill" \in Pcs
  BY DEF QueryOK, Pcs, ListPcs
<1>2. n \in Query
  BY <1>1 DEF Query
<1>3. /\ n.pc = "fill" /\ n.value = i /\ n.row = q.row /\ n.in = q.in /\ n.stage = q.stage
      /\ n.routes = q.routes /\ n.left = q.left /\ n.total = q.total /\ n.values = q.values
      /\ n.flags = q.flags /\ n.asked = q.asked /\ n.shown = q.shown /\ n.alone = q.alone
  BY <1>1 DEF Query
<1> HIDE DEF n
<1>4. Placed(n)
  BY <1>1, <1>3 DEF Placed, OwnPcs, ListPcs, ForwardPcs, RowPcs
<1>5. Ready(n)
  BY <1>1, <1>3 DEF Ready, Summing
<1> QED BY <1>2, <1>3, <1>4, <1>5 DEF QueryOK, Carries, n, FillAs

LEMMA ManyIs ==
  ASSUME NEW q, QueryOK(q), q.pc = "bulk"
  PROVE  QueryOK([q EXCEPT !.pc = "many"])
<1> DEFINE n == [q EXCEPT !.pc = "many"]
<1>1. q \in Query /\ Placed(q) /\ Ready(q) /\ "many" \in Pcs
  BY DEF QueryOK, Pcs, ListPcs
<1>2. /\ n \in Query /\ n.pc = "many" /\ n.in = q.in /\ n.stage = q.stage
      /\ n.routes = q.routes /\ n.left = q.left /\ n.row = q.row
      /\ n.total = q.total /\ n.values = q.values /\ At(n) = At(q)
  BY <1>1, PcIs
<1> HIDE DEF n
<1>3. Placed(n)
  BY <1>1, <1>2 DEF Placed, OwnPcs, ListPcs, ForwardPcs, RowPcs
<1>4. Ready(n)
  BY <1>1, <1>2 DEF Ready, Summing
<1> QED BY <1>2, <1>3, <1>4 DEF QueryOK, n

LEMMA SetIs ==
  ASSUME NEW q, QueryOK(q), q.pc = "many", q.stage = "forward"
  PROVE  QueryOK([q EXCEPT !.pc = "set"])
<1> DEFINE n == [q EXCEPT !.pc = "set"]
<1>1. q \in Query /\ Placed(q) /\ Ready(q) /\ "set" \in Pcs
  BY DEF QueryOK, Pcs, ForwardPcs
<1>2. /\ n \in Query /\ n.pc = "set" /\ n.in = q.in /\ n.stage = q.stage
      /\ n.routes = q.routes /\ n.total = q.total /\ n.values = q.values /\ At(n) = At(q)
  BY <1>1, PcIs
<1> HIDE DEF n
<1>3. Placed(n)
  BY <1>1, <1>2 DEF Placed, OwnPcs, ForwardPcs
<1>4. Ready(n)
  BY <1>1, <1>2 DEF Ready, Summing
<1> QED BY <1>2, <1>3, <1>4 DEF QueryOK, n

LEMMA ToCacheIs ==
  ASSUME NEW q, QueryOK(q), q.pc = "set", q.stage = "forward"
  PROVE  QueryOK([q EXCEPT !.pc = "cache"])
<1> DEFINE n == [q EXCEPT !.pc = "cache"]
<1>1. q \in Query /\ Placed(q) /\ Ready(q) /\ "cache" \in Pcs
  BY DEF QueryOK, Pcs, ForwardPcs
<1>2. /\ n \in Query /\ n.pc = "cache" /\ n.in = q.in /\ n.stage = q.stage
      /\ n.routes = q.routes
  BY <1>1, PcIs
<1> HIDE DEF n
<1>3. Placed(n)
  BY <1>1, <1>2 DEF Placed, OwnPcs, ForwardPcs
<1>4. Ready(n)
  BY <1>2 DEF Ready, Summing
<1> QED BY <1>2, <1>3, <1>4 DEF QueryOK, n

ScannedAs(n, q, i, ds) ==
  /\ n.in = q.in /\ n.stage = q.stage /\ n.routes = q.routes
  /\ n.left = ds /\ n.total = i /\ n.alone = q.alone
  /\ n.shown = q.shown /\ n.flags = q.flags /\ n.asked = q.asked
  /\ ds # {} => n.pc = "get" /\ n.values = q.values
  /\ ds = {} => n.pc = "bulk" /\ n.values = [q.values EXCEPT ![At(q)] = i]

LEMMA ScanIs ==
  ASSUME NEW q, QueryOK(q), q.stage \in Summing,
         NEW i \in Int, NEW ds \in SUBSET Dirs
  PROVE  LET n == NextChild([q EXCEPT !.total = i, !.left = ds]) IN
         QueryOK(n) /\ ScannedAs(n, q, i, ds)
<1> DEFINE p == [q EXCEPT !.total = i, !.left = ds]
<1>1. /\ q \in Query /\ q.in \in Inputs /\ q.routes # <<>>
      /\ q.stage = "rows" => q.in.op = "refresh" /\ Single(q.routes)
  BY DEF QueryOK, Placed, OwnPcs, Summing
<1>2. p \in Query
  BY <1>1 DEF Query
<1>3. /\ p.in = q.in /\ p.stage = q.stage /\ p.routes = q.routes /\ p.left = ds
      /\ p.total = i /\ p.alone = q.alone /\ p.values = q.values
      /\ p.shown = q.shown /\ p.flags = q.flags /\ p.asked = q.asked
  BY <1>1 DEF Query
<1> HIDE DEF p
<1>4. At(p) = At(q)
  BY <1>3 DEF At
<1> DEFINE n == NextChild(p)
<1>5. /\ QueryOK(n) /\ n.in = p.in /\ n.stage = p.stage /\ n.routes = p.routes
      /\ n.left = p.left /\ n.total = p.total /\ n.alone = p.alone
      /\ n.shown = p.shown /\ n.flags = p.flags /\ n.asked = p.asked
      /\ p.left # {} => n.pc = "get" /\ n.values = p.values
      /\ p.left = {} => n.pc = "bulk" /\ n.values = [p.values EXCEPT ![At(p)] = p.total]
  BY <1>1, <1>2, <1>3, NextChildIs
<1> HIDE DEF n
<1> QED BY <1>3, <1>4, <1>5 DEF n, p, ScannedAs

(* The flags of the rows, and what users had decided about them. *)
FlagsOf(ds) == [d \in Dirs |-> IF d \in ds THEN Flags(meta[d]) ELSE NoFlags]
AskedOf(ds) == [d \in Dirs |-> IF d \in ds THEN decided[d] ELSE "none"]
FlagsRead(q) ==
  [q EXCEPT !.flags = FlagsOf(q.left), !.left = {d \in q.left : ~FlagsOf(q.left)[d].deleted},
            !.asked = AskedOf(q.left)]

(* The rows of a listing, *)
FlagsReadAs(n, q) ==
  /\ q.in.op # "refresh"
  /\ n.pc \in {"listed", "count", "get"} /\ n.in = q.in /\ n.stage = "list"
  /\ n.left = {d \in q.left : ~Flags(meta[d]).deleted} /\ n.shown = q.shown
  /\ n.flags = FlagsOf(q.left) /\ n.asked = AskedOf(q.left) /\ n.values = q.values
  /\ n.alone = q.alone

(* and those of a refresh. *)
RowsReadAs(n, q) ==
  /\ q.in.op = "refresh" /\ n.shown = q.shown
  /\ n.flags = FlagsOf(q.left) /\ n.asked = AskedOf(q.left)
  /\ \E rows \in RowsOf({d \in q.left : ~Flags(meta[d]).deleted}) : RefreshedAs(n, q, rows)

LEMMA FlagsReadIs ==
  ASSUME NEW q, QueryOK(q), q.pc = "flags",
         meta \in [Dirs -> Meta \cup {None}], decided \in [Dirs -> Opinions]
  PROVE  LET p == FlagsRead(q) IN
         /\ p.left = {d \in q.left : ~Flags(meta[d]).deleted} /\ p.left \in SUBSET Dirs
         /\ q.in.op # "refresh" => QueryOK(NextRow(p)) /\ FlagsReadAs(NextRow(p), q)
         /\ q.in.op = "refresh" => \A rows \in RowsOf(p.left) :
              LET n == NextRefreshed([p EXCEPT !.routes = rows]) IN
              QueryOK(n) /\ RowsReadAs(n, q)
<1> DEFINE f == FlagsOf(q.left)
           ds == {d \in q.left : ~f[d].deleted}
           a == AskedOf(q.left)
           p == FlagsRead(q)
<1>1. q \in Query /\ q.in \in Inputs /\ Placed(q) /\ Ready(q) /\ q.left \subseteq Dirs
  BY DEF QueryOK, Placed, Query
<1>2. q.stage = "list" /\ q.in.op \in ListOps \ {"measure"}
  BY <1>1 DEF Placed, Ready, OwnPcs, ForwardPcs, RowPcs, Query
<1>3. f \in [Dirs -> FlagPair]
  <2>1. NoFlags \in FlagPair
    BY DEF NoFlags, FlagPair
  <2> QED BY <2>1, SizedIs, 0 \in Int DEF FlagsOf
<1>4. a \in [Dirs -> Opinions]
  BY DEF AskedOf, Opinions
<1>5. ds = {d \in q.left : ~Flags(meta[d]).deleted} /\ ds \in SUBSET Dirs
  BY <1>1 DEF FlagsOf
<1>6. p = [q EXCEPT !.flags = f, !.left = ds, !.asked = a]
  BY DEF FlagsRead
<1>13. a = AskedOf(q.left) /\ f = FlagsOf(q.left)
  OBVIOUS
<1> HIDE DEF f, ds, a, p
<1>7. p \in Query
  <2> DEFINE p1 == [q EXCEPT !.flags = f]
             p2 == [p1 EXCEPT !.left = ds]
  <2>1. p = [p2 EXCEPT !.asked = a]
    BY <1>1, <1>6 DEF Query
  <2> HIDE DEF p1, p2
  <2>2. p1 \in Query
    BY <1>1, <1>3, FieldsKeep DEF p1
  <2>3. p2 \in Query
    BY <1>5, <2>2, FieldsKeep DEF p2
  <2> QED BY <1>4, <2>1, <2>3, FieldsKeep
<1>8. /\ p.in = q.in /\ p.stage = "list" /\ p.left = ds /\ p.flags = f /\ p.asked = a
      /\ p.shown = q.shown /\ p.values = q.values /\ p.alone = q.alone
  BY <1>1, <1>2, <1>6 DEF Query
<1>10. ASSUME q.in.op # "refresh"
       PROVE  QueryOK(NextRow(p)) /\ FlagsReadAs(NextRow(p), q)
  <2> DEFINE n == NextRow(p)
  <2>1. /\ QueryOK(n) /\ n.pc \in {"listed", "count", "get"}
        /\ n.in = p.in /\ n.stage = "list" /\ n.left = p.left
        /\ n.values = p.values /\ n.flags = p.flags /\ n.asked = p.asked
        /\ n.shown = p.shown /\ n.alone = p.alone
    BY <1>1, <1>2, <1>7, <1>8, <1>10, NextRowIs
  <2> HIDE DEF n
  <2> QED BY <1>5, <1>8, <1>10, <1>13, <2>1 DEF n, FlagsReadAs
<1>11. ASSUME q.in.op = "refresh", NEW rows \in RowsOf(ds)
       PROVE  LET n == NextRefreshed([p EXCEPT !.routes = rows]) IN
              QueryOK(n) /\ RowsReadAs(n, q)
  <2>1. rows \in Routes /\ Single(rows)
    BY <1>5, RowsAre
  <2> DEFINE o == [p EXCEPT !.routes = rows]
             n == NextRefreshed(o)
  <2>2. /\ o \in Query /\ o.in = q.in /\ o.flags = f /\ o.asked = a
        /\ o.shown = q.shown /\ o.alone = q.alone /\ o.routes = rows
    BY <1>7, <1>8, <2>1 DEF Query, Routes
  <2> HIDE DEF o
  <2>3. /\ QueryOK(n) /\ RefreshedAs(n, o, rows)
        /\ n.flags = f /\ n.asked = a /\ n.shown = q.shown
    BY <1>1, <1>11, <2>1, <2>2, NextRefreshedIs
  <2> HIDE DEF n
  <2>4. RefreshedAs(n, q, rows)
    BY <2>2, <2>3 DEF RefreshedAs
  <2>5. RowsReadAs(n, q)
    BY <1>5, <1>11, <1>13, <2>3, <2>4 DEF RowsReadAs
  <2> QED BY <2>3, <2>5 DEF n, o
<1> QED BY <1>5, <1>8, <1>10, <1>11 DEF p

(* What a step of a listing or of a forward update does with a request q,  *)
(* that becomes n, and with the stores.                                    *)

TakesCached(q, n) ==
  /\ q.pc = "get" /\ meta' = meta /\ cache' = cache
  /\ \E d \in q.left : cache[d] # None /\ GotAs(n, q, d, cache[d])
Evicts(q, n) ==
  /\ q.pc = "get" /\ meta' = meta /\ Carries(n, q) /\ n.pc = "read"
  /\ \E d \in q.left : cache' = [cache EXCEPT ![d] = None] /\ n.row = d
Reads(q, n) ==
  /\ q.pc = "read" /\ meta' = meta /\ cache' = cache /\ meta[q.row] # None
  /\ Carries(n, q) /\ n.pc = "fill" /\ n.row = q.row /\ n.value = meta[q.row].size
TakesNone(q, n) ==
  /\ q.pc = "read" /\ q.stage \in Summing /\ meta[q.row] = None
  /\ meta' = meta /\ cache' = cache /\ GotAs(n, q, q.row, 0)
Counts(q, n) ==
  /\ q.pc \in {"read", "count"} /\ q.stage = "list" /\ meta' = meta /\ cache' = cache
  /\ \E d \in q.left : CountedAs(n, q, d)
Fills(q, n) ==
  /\ q.pc = "fill" /\ meta' = meta /\ cache' = [cache EXCEPT ![q.row] = q.value]
  /\ GotAs(n, q, q.row, q.value)
Writes(q, n) ==
  /\ q.pc = "bulk" /\ cache' = cache /\ Carries(n, q) /\ n.pc = "many" /\ n.row = q.row
  /\ meta' = [d \in Dirs |-> IF q.values[d] = None THEN meta[d]
                             ELSE Sized(meta[d], q.values[d])]
RowDone(n, q) ==
  /\ RefreshedAs(n, q, Tail(q.routes)) /\ n.flags = q.flags /\ n.asked = q.asked
  /\ n.shown = Shown(q, At(q), q.total)
Caches(q, n) ==
  /\ q.pc = "many" /\ meta' = meta
  /\ cache' = [d \in Dirs |-> IF q.values[d] = None THEN cache[d] ELSE q.values[d]]
  /\ \/ q.stage = "list" /\ GotAs(n, q, q.row, q.values[q.row])
     \/ q.stage = "rows" /\ RowDone(n, q)
     \/ q.stage = "forward" /\ q.in.op = "update" /\ OnItsWay(n, q, Rest(q))
     \/ q.stage = "forward" /\ q.total = -1 /\ OnItsWay(n, q, Tail(q.routes))
     \/ q.stage = "forward" /\ Carries(n, q) /\ n.pc = "set"
Sets(q, n) ==
  /\ q.pc = "set" /\ cache' = cache /\ Carries(n, q) /\ n.pc = "cache"
  /\ meta' = [meta EXCEPT ![At(q)] = Sized(meta[At(q)], q.total)]
SetsCached(q, n) ==
  /\ q.pc = "cache" /\ meta' = meta /\ cache' = [cache EXCEPT ![At(q)] = q.total]
  /\ OnItsWay(n, q, Rest(q))
Scans(q, n) ==
  /\ q.pc = "scan" /\ meta' = meta /\ cache' = cache
  /\ IF own[At(q)] # None THEN ScannedAs(n, q, own[At(q)], Subs(At(q)))
     ELSE ScannedAs(n, q, -1, {})
ReadsFlags(q, n) ==
  /\ q.pc = "flags" /\ meta' = meta /\ cache' = cache
  /\ FlagsReadAs(n, q) \/ RowsReadAs(n, q)
Ends(q, n) ==
  /\ q.pc = "listed" /\ meta' = meta /\ cache' = cache
  /\ OnItsWay(n, q, IF q.in.op = "find" THEN <<Up[q.in.dir]>> ELSE <<>>)

OnList(q, n) ==
  \/ TakesCached(q, n) \/ Evicts(q, n) \/ Reads(q, n) \/ TakesNone(q, n) \/ Counts(q, n)
  \/ Fills(q, n) \/ Writes(q, n) \/ Caches(q, n) \/ Sets(q, n) \/ SetsCached(q, n)
  \/ Scans(q, n) \/ ReadsFlags(q, n) \/ Ends(q, n)

LEMMA PcCarries ==
  ASSUME NEW q \in Query, NEW pc \in Pcs
  PROVE  LET n == [q EXCEPT !.pc = pc] IN Carries(n, q) /\ n.pc = pc /\ n.row = q.row
<1> DEFINE n == [q EXCEPT !.pc = pc]
<1>1. PICK m : m = n
  OBVIOUS
<1>2. Carries(m, q) /\ m.pc = pc /\ m.row = q.row
  BY <1>1, PcIs DEF Carries
<1> QED BY <1>1, <1>2

LEMMA MetadataIs ==
  ASSUME TypeInv, NEW r \in Requests, MetadataStep(r)
  PROVE  /\ own' = own /\ UNCHANGED <<asks, decided, disputed, overlap, neglected>>
         /\ Active(r) /\ \E n : QueryOK(n) /\ Go(r, n) /\ OnList(req[r], n)
<1> DEFINE q == req[r]
<1>1. /\ own \in [Dirs -> Nat \cup {None}] /\ meta \in [Dirs -> Meta \cup {None}]
      /\ cache \in [Dirs -> Int \cup {None}] /\ decided \in [Dirs -> Opinions]
  BY TypesNow
<1>2. Active(r)
  BY DEF Active, MetadataStep, GetCached, ReadMetadata, FillCache, BulkSet, SetMany,
         SetMetadata, SetCached, Scan, ReadFlags, CountRow, EndListing
<1>3. QueryOK(q) /\ q \in Query /\ q.in \in Inputs /\ Placed(q) /\ Ready(q)
  BY <1>2, AtWork
<1>4. own' = own /\ UNCHANGED <<asks, decided, disputed, overlap, neglected>>
  BY DEF MetadataStep, GetCached, ReadMetadata, FillCache, BulkSet, SetMany,
         SetMetadata, SetCached, Scan, ReadFlags, CountRow, EndListing, storeVars, history
<1>5. /\ q.stage \in {"none", "list"} \cup Summing /\ q.left \subseteq Dirs
      /\ q.values \in [Dirs -> Int \cup {None}] /\ q.value \in Int /\ q.total \in Int
      /\ "read" \in Pcs /\ "fill" \in Pcs /\ "many" \in Pcs /\ "set" \in Pcs /\ "cache" \in Pcs
  BY <1>3 DEF Query, Pcs, ListPcs, ForwardPcs, Summing
<1> SUFFICES \E n : QueryOK(n) /\ Go(r, n) /\ OnList(q, n)
  BY <1>2, <1>4
<1>7. CASE GetCached(r)
  <2>1. /\ q.pc = "get" /\ meta' = meta
        /\ \E d \in q.left :
             \/ cache[d] # None /\ Go(r, Got(q, d, cache[d])) /\ cache' = cache
             \/ cache' = [cache EXCEPT ![d] = None]
                /\ Go(r, [q EXCEPT !.pc = "read", !.row = d])
    BY <1>7 DEF GetCached
  <2>2. q.stage # "none" /\ (q.stage = "list" => q.in.op \notin {"measure", "refresh"})
    BY <1>3, <2>1 DEF Placed, Ready, OwnPcs
  <2>3. PICK d \in q.left :
             \/ cache[d] # None /\ Go(r, Got(q, d, cache[d])) /\ cache' = cache
             \/ cache' = [cache EXCEPT ![d] = None]
                /\ Go(r, [q EXCEPT !.pc = "read", !.row = d])
    BY <2>1
  <2>4. d \in Dirs
    BY <1>5
  <2>5. CASE cache[d] # None /\ Go(r, Got(q, d, cache[d])) /\ cache' = cache
    <3>1. cache[d] \in Int
      BY <1>1, <2>4, <2>5
    <3>2. QueryOK(Got(q, d, cache[d])) /\ GotAs(Got(q, d, cache[d]), q, d, cache[d])
      BY <1>3, <2>2, <2>4, <3>1, GotIs
    <3> QED BY <2>1, <2>5, <3>2 DEF OnList, TakesCached
  <2>6. CASE cache' = [cache EXCEPT ![d] = None] /\ Go(r, [q EXCEPT !.pc = "read", !.row = d])
    <3>1. ReadAs([q EXCEPT !.pc = "read", !.row = d], q, d)
      BY <1>3, <2>1, <2>3, <2>4, ReadIs
    <3>2. PICK n : Go(r, n) /\ ReadAs(n, q, d)
      BY <2>6, <3>1
    <3> QED BY <2>1, <2>6, <3>2 DEF OnList, Evicts, ReadAs
  <2> QED BY <2>3, <2>5, <2>6
<1>8. CASE ReadMetadata(r)
  <2>1. /\ q.pc = "read" /\ meta' = meta /\ cache' = cache
        /\ Go(r, CASE meta[q.row] # None -> [q EXCEPT !.pc = "fill", !.value = meta[q.row].size]
                   [] meta[q.row] = None /\ q.stage # "list" -> Got(q, q.row, 0)
                   [] OTHER -> Counted(q, q.row))
    BY <1>8 DEF ReadMetadata, storeVars
  <2>2. /\ q.stage # "none" /\ (q.stage = "list" => q.in.op \notin {"measure", "refresh"})
        /\ q.row \in q.left /\ q.row \in Dirs
    BY <1>3, <1>5, <2>1 DEF Placed, Ready, OwnPcs
  <2>3. CASE meta[q.row] # None
    <3>1. meta[q.row].size \in Int
      BY <1>1, <2>2, <2>3 DEF Meta
    <3>2. FillAs([q EXCEPT !.pc = "fill", !.value = meta[q.row].size], q, meta[q.row].size)
      BY <1>3, <2>1, <3>1, FillIs
    <3>3. PICK n : Go(r, n) /\ FillAs(n, q, meta[q.row].size)
      BY <2>1, <2>3, <3>2
    <3> QED BY <2>1, <2>3, <3>3 DEF OnList, Reads, FillAs
  <2>4. CASE meta[q.row] = None /\ q.stage \in Summing
    <3>1. Go(r, Got(q, q.row, 0))
      BY <2>1, <2>4 DEF Summing
    <3>2. QueryOK(Got(q, q.row, 0)) /\ GotAs(Got(q, q.row, 0), q, q.row, 0)
      BY <1>3, <2>2, <2>4, 0 \in Int, GotIs DEF Summing
    <3> QED BY <2>1, <2>4, <3>1, <3>2 DEF OnList, TakesNone
  <2>5. CASE meta[q.row] = None /\ q.stage = "list"
    <3>1. PICK n : n = Counted(q, q.row)
      OBVIOUS
    <3>4. q.in.op \in ListOps \ {"refresh"}
      BY <1>3, <2>2, <2>5 DEF Placed
    <3>2. QueryOK(n) /\ CountedAs(n, q, q.row)
      BY <1>1, <1>3, <2>2, <2>5, <3>1, <3>4, CountedIs
    <3>3. Go(r, n)
      BY <2>1, <2>5, <3>1
    <3> QED BY <2>1, <2>2, <2>5, <3>2, <3>3 DEF OnList, Counts
  <2> QED BY <1>5, <2>2, <2>3, <2>4, <2>5
<1>9. CASE FillCache(r)
  <2>1. /\ q.pc = "fill" /\ meta' = meta /\ cache' = [cache EXCEPT ![q.row] = q.value]
        /\ Go(r, Got(q, q.row, q.value))
    BY <1>9 DEF FillCache
  <2>2. /\ q.stage # "none" /\ (q.stage = "list" => q.in.op \notin {"measure", "refresh"})
        /\ q.row \in q.left /\ q.row \in Dirs
    BY <1>3, <1>5, <2>1 DEF Placed, Ready, OwnPcs
  <2>3. QueryOK(Got(q, q.row, q.value)) /\ GotAs(Got(q, q.row, q.value), q, q.row, q.value)
    BY <1>3, <1>5, <2>2, GotIs
  <2> QED BY <2>1, <2>3 DEF OnList, Fills
<1>10. CASE BulkSet(r)
  <2>1. /\ q.pc = "bulk" /\ cache' = cache /\ Go(r, [q EXCEPT !.pc = "many"])
        /\ meta' = [d \in Dirs |-> IF q.values[d] = None THEN meta[d]
                                   ELSE Sized(meta[d], q.values[d])]
    BY <1>10 DEF BulkSet
  <2>2. PICK n : n = [q EXCEPT !.pc = "many"]
    OBVIOUS
  <2>3. QueryOK(n)
    BY <1>3, <2>1, <2>2, ManyIs
  <2>4. Carries(n, q) /\ n.pc = "many" /\ n.row = q.row
    BY <1>3, <1>5, <2>2, PcCarries
  <2> QED BY <2>1, <2>2, <2>3, <2>4 DEF OnList, Writes
<1>11. CASE SetMany(r)
  <2>1. /\ q.pc = "many" /\ meta' = meta
        /\ cache' = [d \in Dirs |-> IF q.values[d] = None THEN cache[d] ELSE q.values[d]]
        /\ Go(r, CASE q.stage = "list" -> Got(q, q.row, q.values[q.row])
                   [] q.stage = "rows" ->
                        NextRefreshed([q EXCEPT !.routes = Tail(q.routes),
                                                !.shown = Shown(q, At(q), q.total)])
                   [] q.stage = "forward" /\ q.in.op = "update" -> Onward(q)
                   [] q.stage = "forward" /\ q.in.op # "update" /\ q.total = -1 -> CutShort(q)
                   [] OTHER -> [q EXCEPT !.pc = "set"])
    BY <1>11 DEF SetMany
  <2>3. CASE q.stage = "list"
    <3>1. Go(r, Got(q, q.row, q.values[q.row]))
      BY <2>1, <2>3
    <3>2. /\ q.row \in q.left /\ q.row \in Dirs /\ q.values[q.row] \in Int
          /\ q.in.op # "refresh" /\ (q.in.op = "measure" => q.left \subseteq {q.row})
      BY <1>3, <1>5, <2>1, <2>3 DEF Ready
    <3>3. /\ QueryOK(Got(q, q.row, q.values[q.row]))
          /\ GotAs(Got(q, q.row, q.values[q.row]), q, q.row, q.values[q.row])
      BY <1>3, <2>3, <3>2, GotIs
    <3> QED BY <2>1, <2>3, <3>1, <3>3 DEF OnList, Caches
  <2>4. CASE q.stage = "forward"
    <3>1. q.routes # <<>>
      BY <1>3, <2>4 DEF Placed
    <3>2. /\ QueryOK(Onward(q)) /\ OnItsWay(Onward(q), q, Rest(q))
          /\ QueryOK(CutShort(q)) /\ OnItsWay(CutShort(q), q, Tail(q.routes))
      BY <1>3, <3>1, OnwardIs
    <3>3. PICK n : n = [q EXCEPT !.pc = "set"]
      OBVIOUS
    <3>4. QueryOK(n)
      BY <1>3, <2>1, <2>4, <3>3, SetIs
    <3>5. Carries(n, q) /\ n.pc = "set"
      BY <1>3, <1>5, <3>3, PcCarries
    <3>6. CASE q.in.op = "update"
      <4>1. Go(r, Onward(q))
        BY <2>1, <2>4, <3>6
      <4> QED BY <2>1, <2>4, <3>2, <3>6, <4>1 DEF OnList, Caches
    <3>7. CASE q.in.op # "update" /\ q.total = -1
      <4>1. Go(r, CutShort(q))
        BY <2>1, <2>4, <3>7
      <4> QED BY <2>1, <2>4, <3>2, <3>7, <4>1 DEF OnList, Caches
    <3>8. CASE q.in.op # "update" /\ q.total # -1
      <4>1. Go(r, n)
        BY <2>1, <2>4, <3>3, <3>8
      <4> QED BY <2>1, <2>4, <3>4, <3>5, <4>1 DEF OnList, Caches
    <3> QED BY <3>6, <3>7, <3>8
  <2>6. CASE q.stage = "rows"
    <3> DEFINE s == Shown(q, At(q), q.total)
               o == [q EXCEPT !.routes = Tail(q.routes), !.shown = s]
    <3>1. q.routes # <<>> /\ Single(q.routes) /\ q.routes \in Routes /\ q.in.op = "refresh"
      BY <1>3, <2>6 DEF Placed, Query, Routes
    <3>2. Tail(q.routes) \in Routes /\ Single(Tail(q.routes)) /\ At(q) \in Dirs
      BY <3>1, RowsLeftAre
    <3>3. s \in SUBSET Dirs
      BY <1>3, <3>2 DEF Query, Shown
    <3>4. Go(r, NextRefreshed(o))
      BY <2>1, <2>6
    <3>8. s = Shown(q, At(q), q.total)
      OBVIOUS
    <3> HIDE DEF s
    <3>5. /\ o \in Query /\ o.in = q.in /\ o.routes = Tail(q.routes) /\ o.flags = q.flags
          /\ o.asked = q.asked /\ o.shown = s /\ o.alone = q.alone
      BY <1>3, <3>2, <3>3 DEF Query, Routes
    <3> HIDE DEF o
    <3>6. PICK n : n = NextRefreshed(o)
      OBVIOUS
    <3>7. /\ QueryOK(n) /\ RefreshedAs(n, o, Tail(q.routes))
          /\ n.flags = q.flags /\ n.asked = q.asked /\ n.shown = s
      BY <1>3, <3>1, <3>2, <3>5, <3>6, NextRefreshedIs
    <3>9. RowDone(n, q)
      BY <3>5, <3>7, <3>8 DEF RefreshedAs, RowDone
    <3> QED BY <2>1, <2>6, <3>4, <3>6, <3>7, <3>9 DEF OnList, Caches
  <2>5. q.stage # "none"
    BY <1>3, <2>1 DEF Placed, OwnPcs
  <2> QED BY <1>5, <2>3, <2>4, <2>5, <2>6 DEF Summing
<1>12. CASE SetMetadata(r)
  <2>1. /\ q.pc = "set" /\ cache' = cache /\ Go(r, [q EXCEPT !.pc = "cache"])
        /\ meta' = [meta EXCEPT ![At(q)] = Sized(meta[At(q)], q.total)]
    BY <1>12 DEF SetMetadata
  <2>2. q.stage = "forward"
    BY <1>3, <1>5, <2>1 DEF Placed, OwnPcs, ListPcs, RowPcs, Summing
  <2>3. PICK n : n = [q EXCEPT !.pc = "cache"]
    OBVIOUS
  <2>4. QueryOK(n)
    BY <1>3, <2>1, <2>2, <2>3, ToCacheIs
  <2>5. Carries(n, q) /\ n.pc = "cache"
    BY <1>3, <1>5, <2>3, PcCarries
  <2> QED BY <2>1, <2>3, <2>4, <2>5 DEF OnList, Sets
<1>13. CASE SetCached(r)
  <2>1. /\ q.pc = "cache" /\ meta' = meta /\ Go(r, Onward(q))
        /\ cache' = [cache EXCEPT ![At(q)] = q.total]
    BY <1>13 DEF SetCached
  <2>2. q.stage = "forward" /\ q.routes # <<>>
    BY <1>3, <1>5, <2>1 DEF Placed, OwnPcs, ListPcs, RowPcs, Summing
  <2>3. QueryOK(Onward(q)) /\ OnItsWay(Onward(q), q, Rest(q))
    BY <1>3, <2>2, OnwardIs
  <2> QED BY <2>1, <2>3 DEF OnList, SetsCached
<1>14. CASE Scan(r)
  <2>1. /\ q.pc = "scan" /\ meta' = meta /\ cache' = cache
        /\ Go(r, IF own[At(q)] # None
                 THEN NextChild([q EXCEPT !.total = own[At(q)], !.left = Subs(At(q))])
                 ELSE NextChild([q EXCEPT !.total = -1, !.left = {}]))
    BY <1>14 DEF Scan, storeVars, Present
  <2>2. q.stage \in Summing /\ q.routes # <<>>
    BY <1>3, <1>5, <2>1 DEF Placed, OwnPcs, ListPcs, Summing
  <2>3. At(q) \in Dirs
    BY <1>3, <2>2, OnwardIs
  <2>4. CASE own[At(q)] # None
    <3>1. Go(r, NextChild([q EXCEPT !.total = own[At(q)], !.left = Subs(At(q))]))
      BY <2>1, <2>4
    <3>2. own[At(q)] \in Int /\ Subs(At(q)) \in SUBSET Dirs
      BY <1>1, <2>3, <2>4 DEF Subs
    <3>3. PICK n : n = NextChild([q EXCEPT !.total = own[At(q)], !.left = Subs(At(q))])
      OBVIOUS
    <3>4. QueryOK(n) /\ ScannedAs(n, q, own[At(q)], Subs(At(q)))
      BY <1>3, <2>2, <3>2, <3>3, ScanIs
    <3> QED BY <2>1, <2>4, <3>1, <3>3, <3>4 DEF OnList, Scans
  <2>5. CASE own[At(q)] = None
    <3>1. PICK n : n = NextChild([q EXCEPT !.total = -1, !.left = {}])
      OBVIOUS
    <3>2. Go(r, n)
      BY <2>1, <2>5, <3>1
    <3>3. QueryOK(n) /\ ScannedAs(n, q, -1, {})
      BY <1>3, <2>2, <3>1, -1 \in Int, {} \in SUBSET Dirs, ScanIs
    <3> QED BY <2>1, <2>5, <3>2, <3>3 DEF OnList, Scans
  <2> QED BY <2>4, <2>5
<1>15. CASE ReadFlags(r)
  <2> DEFINE p == FlagsRead(q)
  <2>1. /\ q.pc = "flags" /\ meta' = meta /\ cache' = cache
        /\ \/ q.in.op # "refresh" /\ Go(r, NextRow(p))
           \/ /\ q.in.op = "refresh"
              /\ \E rows \in RowsOf(p.left) : Go(r, NextRefreshed([p EXCEPT !.routes = rows]))
    BY <1>15 DEF ReadFlags, storeVars, FlagsRead, FlagsOf, AskedOf
  <2>2. /\ q.in.op # "refresh" => QueryOK(NextRow(p)) /\ FlagsReadAs(NextRow(p), q)
        /\ q.in.op = "refresh" => \A rows \in RowsOf(p.left) :
             QueryOK(NextRefreshed([p EXCEPT !.routes = rows]))
             /\ RowsReadAs(NextRefreshed([p EXCEPT !.routes = rows]), q)
    BY <1>1, <1>3, <2>1, FlagsReadIs
  <2> HIDE DEF p
  <2>3. PICK n : QueryOK(n) /\ Go(r, n) /\ (FlagsReadAs(n, q) \/ RowsReadAs(n, q))
    BY <2>1, <2>2
  <2> QED BY <2>1, <2>3 DEF OnList, ReadsFlags
<1>16. CASE CountRow(r)
  <2>1. q.pc = "count" /\ meta' = meta /\ cache' = cache
    BY <1>16 DEF CountRow, storeVars
  <2>2. PICK d \in q.left : Go(r, Counted(q, d))
    BY <1>16 DEF CountRow
  <2>3. q.stage = "list" /\ q.in.op \in ListOps \ {"refresh"}
    BY <1>3, <1>5, <2>1 DEF Placed, Ready, OwnPcs, ForwardPcs, RowPcs, Summing
  <2>4. q.in.op = "measure" => q.left \subseteq {d}
    BY <1>3, <2>2, <2>3 DEF Ready
  <2>5. PICK n : n = Counted(q, d)
    OBVIOUS
  <2>6. QueryOK(n) /\ CountedAs(n, q, d)
    BY <1>1, <1>3, <2>2, <2>3, <2>4, <2>5, CountedIs
  <2> QED BY <2>1, <2>2, <2>3, <2>5, <2>6 DEF OnList, Counts
<1>17. CASE EndListing(r)
  <2>1. /\ q.pc = "listed" /\ meta' = meta /\ cache' = cache
        /\ Go(r, IF q.in.op = "find" THEN Forward(q, <<Path(q.in.dir)>>) ELSE Idle)
    BY <1>17 DEF EndListing, storeVars
  <2>2. q.in.dir \in Dirs
    BY <1>3, DirMetadataAssumption
  <2>3. <<Path(q.in.dir)>> = <<Up[q.in.dir]>> /\ <<Path(q.in.dir)>> \in Routes
    BY <2>2, RoutesAre
  <2>4. /\ QueryOK(Forward(q, <<Path(q.in.dir)>>)) /\ QueryOK(Idle)
        /\ OnItsWay(Forward(q, <<Path(q.in.dir)>>), q, <<Up[q.in.dir]>>)
        /\ OnItsWay(Idle, q, <<>>)
    BY <1>3, <2>3, ForwardIs, IdleIs DEF OnItsWay
  <2>5. CASE q.in.op = "find"
    BY <2>1, <2>4, <2>5 DEF OnList, Ends
  <2>6. CASE q.in.op # "find"
    BY <2>1, <2>4, <2>6 DEF OnList, Ends
  <2> QED BY <2>5, <2>6
<1> QED BY <1>7, <1>8, <1>9, <1>10, <1>11, <1>12, <1>13, <1>14, <1>15, <1>16, <1>17
        DEF MetadataStep

(* The steps of a listing and of a forward update leave the files alone,   *)
(* and each leaves the request ready for the next.                         *)
LEMMA TypesMetadata ==
  ASSUME TypeInv, NEW r \in Requests, MetadataStep(r)
  PROVE  TypeInv'
<1> DEFINE q == req[r]
<1>1. /\ own \in [Dirs -> Nat \cup {None}] /\ Standing(own)
      /\ meta \in [Dirs -> Meta \cup {None}] /\ cache \in [Dirs -> Int \cup {None}]
      /\ decided \in [Dirs -> Opinions] /\ neglected \in BOOLEAN
  BY TypesNow
<1>2. own' = own /\ UNCHANGED <<asks, decided, disputed, overlap, neglected>> /\ Active(r)
  BY MetadataIs
<1>3. PICK n : QueryOK(n) /\ Go(r, n) /\ OnList(q, n)
  BY MetadataIs
<1>4. QueryOK(q) /\ q \in Query /\ q.in \in Inputs /\ Placed(q) /\ Ready(q)
  BY <1>2, AtWork
<1>5. /\ q.stage \in {"none", "list"} \cup Summing /\ q.left \subseteq Dirs
      /\ q.values \in [Dirs -> Int \cup {None}] /\ q.value \in Int /\ q.total \in Int
  BY <1>4 DEF Query, Summing
<1>6. CASE Evicts(q, n) \/ Fills(q, n) \/ Caches(q, n) \/ SetsCached(q, n)
  <2>1. meta' = meta /\ cache' \in [Dirs -> Int \cup {None}]
    BY <1>1, <1>5, <1>6 DEF Evicts, Fills, Caches, SetsCached
  <2> QED BY <1>1, <1>2, <1>3, <2>1, TypesGo
<1>7. CASE Writes(q, n)
  <2>1. cache' = cache /\ meta' \in [Dirs -> Meta \cup {None}]
    BY <1>1, <1>5, <1>7, SizedIs DEF Writes
  <2> QED BY <1>1, <1>2, <1>3, <2>1, TypesGo
<1>8. CASE Sets(q, n)
  <2>1. q.stage = "forward" /\ q.routes # <<>>
    BY <1>4, <1>5, <1>8 DEF Sets, Placed, OwnPcs, ListPcs, RowPcs, Summing
  <2>2. At(q) \in Dirs
    BY <1>4, <2>1, OnwardIs
  <2>3. Sized(meta[At(q)], q.total) \in Meta
    BY <1>1, <1>5, <2>2, SizedIs
  <2>4. cache' = cache /\ meta' \in [Dirs -> Meta \cup {None}]
    BY <1>1, <1>8, <2>3 DEF Sets
  <2> QED BY <1>1, <1>2, <1>3, <2>4, TypesGo
<1>9. CASE \/ TakesCached(q, n) \/ Reads(q, n) \/ TakesNone(q, n) \/ Counts(q, n)
           \/ Scans(q, n) \/ ReadsFlags(q, n) \/ Ends(q, n)
  <2>1. meta' = meta /\ cache' = cache
    BY <1>9 DEF TakesCached, Reads, TakesNone, Counts, Scans, ReadsFlags, Ends
  <2> QED BY <1>1, <1>2, <1>3, <2>1, TypesGo
<1> QED BY <1>3, <1>6, <1>7, <1>8, <1>9 DEF OnList

(* A directory that goes has nothing in it. *)
LEMMA Removed ==
  ASSUME own \in [Dirs -> Nat \cup {None}], Standing(own), NEW d \in Dirs, Subs(d) = {}
  PROVE  LET p == [own EXCEPT ![d] = None] IN p \in [Dirs -> Nat \cup {None}] /\ Standing(p)
<1> DEFINE p == [own EXCEPT ![d] = None]
<1>1. p \in [Dirs -> Nat \cup {None}] /\ p[d] = None /\ \A e \in Dirs \ {d} : p[e] = own[e]
  OBVIOUS
<1> HIDE DEF p
<1>2. ASSUME NEW e \in Dirs, p[e] # None, NEW i \in 1..Len(Up[e])
      PROVE  p[Up[e][i]] # None
  <2>1. e # d /\ own[e] # None /\ Up[e][i] \in Dirs
    BY <1>1, <1>2, WayUp
  <2>2. Up[e][i] # d
    <3> SUFFICES ASSUME Up[e][i] = d PROVE FALSE
      OBVIOUS
    <3>1. Up[e][1] = e /\ Len(Up[e]) \in Nat
      BY WayUp
    <3>2. i - 1 \in 1..Len(Up[e]) /\ i - 1 # Len(Up[e]) /\ i = (i - 1) + 1
      BY <1>2, <2>1, <3>1
    <3>3. Parent(Up[e][i - 1]) = d
      BY <3>2, WayIsTree
    <3>4. own[Up[e][i - 1]] # None /\ Up[e][i - 1] \in Dirs
      BY <2>1, <3>2, WayUp DEF Standing
    <3> QED BY <3>3, <3>4 DEF Subs, Present
  <2> QED BY <1>1, <1>2, <2>1, <2>2 DEF Standing
<1> QED BY <1>1, <1>2 DEF p, Standing

(* The steps of a request on its own directory. *)
OwnAs(n, q, pc, i) ==
  /\ QueryOK(n) /\ n.pc = pc /\ n.value = i /\ n.in = q.in /\ n.stage = "none"
  /\ n.alone = q.alone

LEMMA OwnStepIs ==
  ASSUME NEW q, QueryOK(q), q.stage = "none", NEW pc \in OwnPcs, NEW i \in Int,
         pc = "mark" => Decides(q.in),
         pc \in {"remove", "forget", "uncache"} => q.in.op = "delete folder",
         pc \notin {"unlink", "clear", "taken"}, q.pc # "idle"
  PROVE  OwnAs([q EXCEPT !.pc = pc, !.value = i], q, pc, i)
<1> DEFINE n == [q EXCEPT !.pc = pc, !.value = i]
<1>1. q \in Query /\ Placed(q) /\ pc \in Pcs
  BY DEF QueryOK, Pcs
<1>2. n \in Query
  BY <1>1 DEF Query
<1>3. /\ n.pc = pc /\ n.value = i /\ n.in = q.in /\ n.stage = "none" /\ n.alone = q.alone
  BY <1>1 DEF Query
<1> HIDE DEF n
<1>4. Placed(n)
  BY <1>1, <1>3 DEF Placed, OwnPcs
<1>5. Ready(n)
  BY <1>3 DEF Ready, OwnPcs
<1> QED BY <1>2, <1>3, <1>4, <1>5 DEF QueryOK, OwnAs, n

LEMMA OwnPcIs ==
  ASSUME NEW q, QueryOK(q), q.stage = "none", NEW pc \in OwnPcs,
         pc = "mark" => Decides(q.in),
         pc \in {"remove", "forget", "uncache"} => q.in.op = "delete folder",
         pc \notin {"unlink", "clear", "taken"}, q.pc # "idle"
  PROVE  OwnAs([q EXCEPT !.pc = pc], q, pc, q.value)
<1> DEFINE n == [q EXCEPT !.pc = pc]
<1>1. q \in Query /\ Placed(q) /\ pc \in Pcs
  BY DEF QueryOK, Pcs
<1>2. n \in Query
  BY <1>1 DEF Query
<1>3. /\ n.pc = pc /\ n.value = q.value /\ n.in = q.in /\ n.stage = "none" /\ n.alone = q.alone
  BY <1>1 DEF Query
<1> HIDE DEF n
<1>4. Placed(n)
  BY <1>1, <1>3 DEF Placed, OwnPcs
<1>5. Ready(n)
  BY <1>3 DEF Ready, OwnPcs
<1> QED BY <1>2, <1>3, <1>4, <1>5 DEF QueryOK, OwnAs, n

-----------------------------------------------------------------------------
(* What a step of a request on its own directory does with it.             *)

StaysAs(n, q, pc) == n.pc = pc /\ n.in = q.in /\ n.stage = "none" /\ n.alone = q.alone

Cleared(d) == {e \in Below[d] : own[e] # None /\ own[e] > 0}

Unlinks(q, n) ==
  /\ q.pc = "unlink" /\ UNCHANGED <<meta, cache, decided, neglected>>
  /\ IF own[q.in.dir] # None /\ own[q.in.dir] > 0
     THEN /\ own' = [own EXCEPT ![q.in.dir] = own[q.in.dir] - 1]
          /\ OnItsWay(n, q, IF q.in.op = "move" THEN <<Up[q.in.dir], Up[q.in.to]>>
                            ELSE <<Up[q.in.dir]>>)
     ELSE /\ own' = own
          /\ OnItsWay(n, q, IF q.in.op = "move" THEN <<Up[q.in.dir], Up[q.in.to]>> ELSE <<>>)
Clears(q, n) ==
  /\ q.pc = "clear" /\ UNCHANGED <<meta, cache, decided>>
  /\ own' = [e \in Dirs |-> IF e \in Cleared(q.in.dir) THEN 0 ELSE own[e]]
  /\ neglected' = (neglected \/ Cleared(q.in.dir) \ {q.in.dir} # {})
  /\ StaysAs(n, q, IF q.in.op = "keep folder" THEN "mark" ELSE "remove")
  /\ n.value = IF q.in.dir \in Cleared(q.in.dir) THEN 1 ELSE 0
Removes(q, n) ==
  /\ q.pc = "remove" /\ UNCHANGED <<meta, cache, neglected>> /\ n.value = q.value
  /\ IF Removable(q.in.dir)
     THEN /\ own' = [own EXCEPT ![q.in.dir] = None]
          /\ decided' = [decided EXCEPT ![q.in.dir] = "none"] /\ StaysAs(n, q, "forget")
     ELSE own' = own /\ decided' = decided /\ StaysAs(n, q, "mark")
Forgets(q, n) ==
  /\ q.pc = "forget" /\ UNCHANGED <<own, cache, decided, neglected>>
  /\ meta' = [meta EXCEPT ![q.in.dir] = None] /\ StaysAs(n, q, "uncache")
Uncaches(q, n) ==
  /\ q.pc = "uncache" /\ UNCHANGED <<own, meta, decided, neglected>>
  /\ cache' = [cache EXCEPT ![q.in.dir] = None] /\ OnItsWay(n, q, ParentRoute(q.in.dir))
Chosen(q) == IF q.in.op = "delete folder" THEN "deleted" ELSE "kept"
SetsFlags(q, n) ==
  /\ q.pc = "mark" /\ UNCHANGED <<own, cache>>
  /\ meta' = [meta EXCEPT ![q.in.dir] = Flagged(meta[q.in.dir], Chosen(q))]
  /\ decided' = [decided EXCEPT ![q.in.dir] = Chosen(q)]
  /\ neglected' = (neglected \/ (Chosen(q) = "deleted" /\ q.value = 1))
  /\ OnItsWay(n, q, IF q.in.op = "create" THEN <<>>
                    ELSE IF q.in.op = "keep folder" THEN <<Up[q.in.dir]>>
                    ELSE ParentRoute(q.in.dir))
FindsTaken(q, n) ==
  /\ q.pc = "taken" /\ UNCHANGED <<own, meta, cache, decided, neglected>>
  /\ n = Idle \/ (StaysAs(n, q, "mark") /\ n.value = q.value)

OnOwn(q, n) ==
  \/ Unlinks(q, n) \/ Clears(q, n) \/ Removes(q, n) \/ Forgets(q, n) \/ Uncaches(q, n)
  \/ SetsFlags(q, n) \/ FindsTaken(q, n)

LEMMA DirectoryIs ==
  ASSUME TypeInv, NEW r \in Requests, DirectoryStep(r)
  PROVE  /\ UNCHANGED <<asks, disputed, overlap>> /\ Active(r) /\ req[r].stage = "none"
         /\ \E n : QueryOK(n) /\ Go(r, n) /\ OnOwn(req[r], n)
<1> DEFINE q == req[r]
           d == req[r].in.dir
<1>1. Active(r)
  BY DEF Active, DirectoryStep, Unlink, Clear, Remove, Forget, Uncache, Mark, CheckTaken
<1>2. /\ QueryOK(q) /\ q \in Query /\ q.in \in Inputs /\ Placed(q) /\ d \in Dirs
      /\ q.in.to \in Dirs
  BY <1>1, AtWork
<1>3. UNCHANGED <<asks, disputed, overlap>>
  BY DEF DirectoryStep, Unlink, Clear, Remove, Forget, Uncache, Mark, CheckTaken, history
<1>4. q.stage = "none"
  BY <1>2 DEF DirectoryStep, Unlink, Clear, Remove, Forget, Uncache, Mark, CheckTaken,
              Placed, OwnPcs
<1> SUFFICES \E n : QueryOK(n) /\ Go(r, n) /\ OnOwn(q, n)
  BY <1>1, <1>3, <1>4
<1>5. \A e \in Dirs : Path(e) = Up[e]
  BY DEF Path
<1>6. /\ QueryOK(Idle) /\ OnItsWay(Idle, q, <<>>)
      /\ QueryOK(Forward(q, <<Path(d)>>))
      /\ OnItsWay(Forward(q, <<Path(d)>>), q, <<Up[d]>>)
      /\ QueryOK(Forward(q, <<Path(d), Path(q.in.to)>>))
      /\ OnItsWay(Forward(q, <<Path(d), Path(q.in.to)>>), q, <<Up[d], Up[q.in.to]>>)
      /\ QueryOK(Forward(q, ParentRoute(d)))
      /\ OnItsWay(Forward(q, ParentRoute(d)), q, ParentRoute(d))
  <2>1. <<Path(d)>> \in Routes /\ <<Path(d), Path(q.in.to)>> \in Routes /\ ParentRoute(d) \in Routes
    BY <1>2, RoutesAre
  <2>2. <<Path(d)>> = <<Up[d]>> /\ <<Path(d), Path(q.in.to)>> = <<Up[d], Up[q.in.to]>>
    BY <1>2, <1>5
  <2> QED BY <1>2, <2>1, <2>2, ForwardIs, IdleIs DEF OnItsWay
<1>7. CASE Unlink(r)
  <2> DEFINE there == own[d] # None /\ own[d] > 0
  <2>1. /\ q.pc = "unlink" /\ UNCHANGED <<meta, cache, decided, neglected>>
        /\ own' = IF there THEN [own EXCEPT ![d] = own[d] - 1] ELSE own
        /\ Go(r, CASE q.in.op = "move" -> Forward(q, <<Path(d), Path(q.in.to)>>)
                   [] q.in.op = "delete" /\ there -> Forward(q, <<Path(d)>>)
                   [] OTHER -> Idle)
    BY <1>7 DEF Unlink, Present, history, storeVars
  <2>2. q.in.op = "move" \/ q.in.op = "delete"
    BY <1>2, <2>1 DEF Placed
  <2> HIDE DEF there
  <2>3. CASE q.in.op = "move"
    <3>1. Go(r, Forward(q, <<Path(d), Path(q.in.to)>>))
      BY <2>1, <2>3
    <3>2. PICK n : Go(r, n) /\ QueryOK(n) /\ OnItsWay(n, q, <<Up[d], Up[q.in.to]>>)
      BY <1>6, <3>1
    <3>3. Unlinks(q, n)
      BY <2>1, <2>3, <3>2 DEF Unlinks, there
    <3> QED BY <3>2, <3>3 DEF OnOwn
  <2>4. CASE q.in.op = "delete" /\ there
    <3>1. Go(r, Forward(q, <<Path(d)>>))
      BY <2>1, <2>4
    <3>2. PICK n : Go(r, n) /\ QueryOK(n) /\ OnItsWay(n, q, <<Up[d]>>)
      BY <1>6, <3>1
    <3>3. Unlinks(q, n)
      BY <2>1, <2>4, <3>2 DEF Unlinks, there
    <3> QED BY <3>2, <3>3 DEF OnOwn
  <2>5. CASE q.in.op = "delete" /\ ~there
    <3>1. Go(r, Idle)
      BY <2>1, <2>5
    <3>2. PICK n : Go(r, n) /\ QueryOK(n) /\ OnItsWay(n, q, <<>>)
      BY <1>6, <3>1
    <3>3. Unlinks(q, n)
      BY <2>1, <2>5, <3>2 DEF Unlinks, there
    <3> QED BY <3>2, <3>3 DEF OnOwn
  <2> QED BY <2>2, <2>3, <2>4, <2>5
<1>8. CASE Clear(r)
  <2>1. /\ q.pc = "clear" /\ UNCHANGED <<meta, cache, decided>>
        /\ own' = [e \in Dirs |-> IF e \in Cleared(d) THEN 0 ELSE own[e]]
        /\ neglected' = (neglected \/ Cleared(d) \ {d} # {})
        /\ Go(r, [q EXCEPT !.pc = IF q.in.op = "keep folder" THEN "mark" ELSE "remove",
                           !.value = IF d \in Cleared(d) THEN 1 ELSE 0])
    BY <1>8 DEF Clear, Present, Cleared, storeVars
  <2>2. PICK pc \in {"mark", "remove"} :
          pc = IF q.in.op = "keep folder" THEN "mark" ELSE "remove"
    OBVIOUS
  <2>3. PICK i \in Int : i = IF d \in Cleared(d) THEN 1 ELSE 0
    OBVIOUS
  <2>4. q.in.op \in {"keep folder", "delete folder"}
    BY <1>2, <2>1 DEF Placed
  <2>5. /\ pc \in OwnPcs /\ pc \notin {"unlink", "clear", "taken"} /\ q.pc # "idle"
        /\ pc = "mark" => Decides(q.in)
        /\ pc \in {"remove", "forget", "uncache"} => q.in.op = "delete folder"
    BY <2>1, <2>2, <2>4 DEF OwnPcs, Decides
  <2>6. OwnAs([q EXCEPT !.pc = pc, !.value = i], q, pc, i)
    BY <1>2, <1>4, <2>5, OwnStepIs
  <2>7. PICK n : Go(r, n) /\ OwnAs(n, q, pc, i)
    BY <2>1, <2>2, <2>3, <2>6
  <2>8. Clears(q, n)
    BY <2>1, <2>2, <2>3, <2>7 DEF Clears, OwnAs, StaysAs
  <2> QED BY <2>7, <2>8 DEF OnOwn, OwnAs
<1>9. CASE Remove(r)
  <2>1. /\ own' = IF Removable(d) THEN [own EXCEPT ![d] = None] ELSE own
        /\ decided' = IF Removable(d) THEN [decided EXCEPT ![d] = "none"] ELSE decided
        /\ Go(r, [q EXCEPT !.pc = IF Removable(d) THEN "forget" ELSE "mark"])
        /\ UNCHANGED <<meta, cache, neglected>> /\ q.pc = "remove"
    BY <1>9 DEF Remove, storeVars
  <2>2. PICK pc \in {"mark", "forget"} : pc = IF Removable(d) THEN "forget" ELSE "mark"
    OBVIOUS
  <2>3. q.in.op = "delete folder"
    BY <1>2, <2>1 DEF Placed
  <2>4. OwnAs([q EXCEPT !.pc = pc], q, pc, q.value)
    BY <1>2, <1>4, <2>1, <2>3, OwnPcIs DEF OwnPcs, Decides
  <2>5. PICK n : Go(r, n) /\ OwnAs(n, q, pc, q.value)
    BY <2>1, <2>2, <2>4
  <2>6. Removes(q, n)
    BY <2>1, <2>2, <2>5 DEF Removes, OwnAs, StaysAs
  <2> QED BY <2>5, <2>6 DEF OnOwn, OwnAs
<1>10. CASE Forget(r)
  <2>1. /\ meta' = [meta EXCEPT ![d] = None] /\ Go(r, [q EXCEPT !.pc = "uncache"])
        /\ UNCHANGED <<own, cache, decided, neglected>> /\ q.pc = "forget"
    BY <1>10 DEF Forget, history
  <2>2. q.in.op = "delete folder"
    BY <1>2, <2>1 DEF Placed
  <2>3. OwnAs([q EXCEPT !.pc = "uncache"], q, "uncache", q.value)
    BY <1>2, <1>4, <2>1, <2>2, OwnPcIs DEF OwnPcs
  <2>4. PICK n : Go(r, n) /\ OwnAs(n, q, "uncache", q.value)
    BY <2>1, <2>3
  <2>5. Forgets(q, n)
    BY <2>1, <2>4 DEF Forgets, OwnAs, StaysAs
  <2> QED BY <2>4, <2>5 DEF OnOwn, OwnAs
<1>11. CASE Uncache(r)
  <2>1. /\ cache' = [cache EXCEPT ![d] = None] /\ Go(r, Forward(q, ParentRoute(d)))
        /\ UNCHANGED <<own, meta, decided, neglected>> /\ q.pc = "uncache"
    BY <1>11 DEF Uncache, history
  <2>2. Uncaches(q, Forward(q, ParentRoute(d)))
    BY <1>6, <2>1 DEF Uncaches
  <2> QED BY <1>6, <2>1, <2>2 DEF OnOwn
<1>12. CASE Mark(r)
  <2>1. /\ meta' = [meta EXCEPT ![d] = Flagged(meta[d], Chosen(q))]
        /\ decided' = [decided EXCEPT ![d] = Chosen(q)]
        /\ neglected' = (neglected \/ (Chosen(q) = "deleted" /\ q.value = 1))
        /\ UNCHANGED <<own, cache>> /\ q.pc = "mark"
        /\ Go(r, CASE q.in.op = "create" -> Idle
                   [] q.in.op = "keep folder" -> Forward(q, <<Path(d)>>)
                   [] OTHER -> Forward(q, ParentRoute(d)))
    BY <1>12 DEF Mark, Chosen
  <2>2. ASSUME NEW n, NEW routes, Go(r, n), QueryOK(n), OnItsWay(n, q, routes),
               routes = IF q.in.op = "create" THEN <<>>
                        ELSE IF q.in.op = "keep folder" THEN <<Up[d]>> ELSE ParentRoute(d)
        PROVE  \E m : QueryOK(m) /\ Go(r, m) /\ OnOwn(q, m)
    <3>1. SetsFlags(q, n)
      BY <2>1, <2>2 DEF SetsFlags
    <3> QED BY <2>2, <3>1 DEF OnOwn
  <2>3. q.in.op \in {"keep folder", "delete folder", "create"}
    BY <1>2, <2>1 DEF Placed, Decides
  <2>4. CASE q.in.op = "create"
    <3>1. Go(r, Idle)
      BY <2>1, <2>4
    <3> QED BY <1>6, <2>2, <2>4, <3>1
  <2>5. CASE q.in.op = "keep folder"
    <3>1. Go(r, Forward(q, <<Path(d)>>))
      BY <2>1, <2>5
    <3> QED BY <1>6, <2>2, <2>5, <3>1
  <2>6. CASE q.in.op = "delete folder"
    <3>1. Go(r, Forward(q, ParentRoute(d)))
      BY <2>1, <2>6
    <3> QED BY <1>6, <2>2, <2>6, <3>1
  <2> QED BY <2>3, <2>4, <2>5, <2>6
<1>13. CASE CheckTaken(r)
  <2>1. /\ UNCHANGED <<own, meta, cache, decided, neglected>> /\ q.pc = "taken"
        /\ Go(r, Idle) \/ Go(r, [q EXCEPT !.pc = "mark"])
    BY <1>13 DEF CheckTaken, history, storeVars
  <2>2. q.in.op = "create"
    BY <1>2, <2>1 DEF Placed
  <2>3. OwnAs([q EXCEPT !.pc = "mark"], q, "mark", q.value)
    BY <1>2, <1>4, <2>1, <2>2, OwnPcIs DEF OwnPcs, Decides
  <2>4. PICK n : Go(r, n) /\ (n = Idle \/ OwnAs(n, q, "mark", q.value))
    BY <2>1, <2>3
  <2>5. FindsTaken(q, n) /\ QueryOK(n)
    BY <1>6, <2>1, <2>4 DEF FindsTaken, OwnAs, StaysAs
  <2> QED BY <2>4, <2>5 DEF OnOwn
<1> QED BY <1>7, <1>8, <1>9, <1>10, <1>11, <1>12, <1>13 DEF DirectoryStep

LEMMA TypesDirectory ==
  ASSUME TypeInv, NEW r \in Requests, DirectoryStep(r)
  PROVE  TypeInv'
<1> DEFINE q == req[r]
           d == req[r].in.dir
<1>1. /\ own \in [Dirs -> Nat \cup {None}] /\ Standing(own)
      /\ meta \in [Dirs -> Meta \cup {None}] /\ cache \in [Dirs -> Int \cup {None}]
      /\ decided \in [Dirs -> Opinions] /\ neglected \in BOOLEAN
  BY TypesNow
<1>2. PICK n : QueryOK(n) /\ Go(r, n) /\ OnOwn(q, n)
  BY DirectoryIs
<1>3. UNCHANGED <<asks, disputed, overlap>> /\ d \in Dirs /\ q \in Query
  BY DirectoryIs, AtWork
<1>4. None \notin Nat /\ None \notin Int
  BY DirMetadataAssumption
<1>5. CASE Unlinks(q, n)
  <2>1. own' \in [Dirs -> Nat \cup {None}] /\ \A e \in Dirs : own'[e] = None <=> own[e] = None
    BY <1>1, <1>3, <1>4, <1>5 DEF Unlinks
  <2>2. Standing(own')
    BY <1>1, <2>1, SameDirectories
  <2> QED BY <1>1, <1>2, <1>3, <1>5, <2>1, <2>2, TypesGo DEF Unlinks
<1>6. CASE Clears(q, n)
  <2>1. own' \in [Dirs -> Nat \cup {None}] /\ \A e \in Dirs : own'[e] = None <=> own[e] = None
    <3>1. \A e \in Cleared(d) : own[e] # None
      BY DEF Cleared
    <3>2. PICK cleared : /\ \A e \in cleared : own[e] # None
                         /\ own' = [e \in Dirs |-> IF e \in cleared THEN 0 ELSE own[e]]
      BY <1>6, <3>1 DEF Clears
    <3> QED BY <1>1, <1>4, <3>2
  <2>2. Standing(own')
    BY <1>1, <2>1, SameDirectories
  <2>3. neglected' \in BOOLEAN
    BY <1>6 DEF Clears
  <2>4. meta' = meta /\ cache' = cache /\ decided' = decided
    BY <1>6 DEF Clears
  <2> QED BY <1>1, <1>2, <1>3, <2>1, <2>2, <2>3, <2>4, TypesGo
<1>7. CASE Removes(q, n)
  <2>1. own' \in [Dirs -> Nat \cup {None}] /\ Standing(own')
    BY <1>1, <1>3, <1>7, Removed DEF Removes, Removable
  <2>2. decided' \in [Dirs -> Opinions]
    BY <1>1, <1>7 DEF Removes, Opinions
  <2> QED BY <1>1, <1>2, <1>3, <1>7, <2>1, <2>2, TypesGo DEF Removes
<1>8. CASE Forgets(q, n) \/ Uncaches(q, n)
  <2>1. /\ own' = own /\ decided' = decided /\ neglected' = neglected
        /\ meta' \in [Dirs -> Meta \cup {None}] /\ cache' \in [Dirs -> Int \cup {None}]
    BY <1>1, <1>8 DEF Forgets, Uncaches
  <2> QED BY <1>1, <1>2, <1>3, <2>1, TypesGo
<1>9. CASE SetsFlags(q, n)
  <2>1. Chosen(q) \in {"kept", "deleted"}
    BY DEF Chosen
  <2>2. Flagged(meta[d], Chosen(q)) \in Meta
    BY <1>1, <1>3, <2>1, FlaggedIs
  <2>3. meta' \in [Dirs -> Meta \cup {None}]
    BY <1>1, <1>9, <2>2 DEF SetsFlags
  <2>4. decided' \in [Dirs -> Opinions]
    BY <1>1, <1>9, <2>1 DEF SetsFlags, Opinions
  <2>5. neglected' \in BOOLEAN
    BY <1>9 DEF SetsFlags
  <2>6. own' = own /\ cache' = cache
    BY <1>9 DEF SetsFlags
  <2> QED BY <1>1, <1>2, <1>3, <2>3, <2>4, <2>5, <2>6, TypesGo
<1>10. CASE FindsTaken(q, n)
  BY <1>1, <1>2, <1>3, <1>10, TypesGo DEF FindsTaken
<1> QED BY <1>2, <1>5, <1>6, <1>7, <1>8, <1>9, <1>10 DEF OnOwn

LEMMA TypesInit ==
  ASSUME DirMetadataInit
  PROVE  TypeInv
<1>1. own \in [Dirs -> Nat \cup {None}] /\ Standing(own) /\ own = Start
  BY DirMetadataAssumption DEF DirMetadataInit, Standing
<1>2. decided \in [Dirs -> Opinions]
  BY DirMetadataAssumption DEF DirMetadataInit, Opinions
<1>3. meta \in [Dirs -> Meta \cup {None}] /\ neglected \in BOOLEAN
  <2>1. PICK known \in Known :
          /\ meta = [d \in Dirs |->
                       IF d \in known /\ Present(d)
                       THEN Sized(IF decided[d] = "none" THEN None ELSE Flagged(None, decided[d]),
                                  Total(d))
                       ELSE IF decided[d] = "none" THEN None ELSE Flagged(None, decided[d])]
          /\ neglected = \E d \in Dirs \ known : Present(d)
    BY DEF DirMetadataInit
  <2>2. \A d \in Dirs : (IF decided[d] = "none" THEN None ELSE Flagged(None, decided[d]))
                          \in Meta \cup {None}
    BY <1>2, FlaggedIs DEF Opinions
  <2>3. \A d \in Dirs : Total(d) \in Int
    BY <1>1, HeldFinite
  <2>4. \A d \in Dirs :
          Sized(IF decided[d] = "none" THEN None ELSE Flagged(None, decided[d]), Total(d)) \in Meta
    BY <2>2, <2>3, SizedIs
  <2> QED BY <2>1, <2>2, <2>4
<1>4. /\ cache \in [Dirs -> Int \cup {None}] /\ asks \in 0..MaxAsks /\ disputed \subseteq Dirs
      /\ overlap \in BOOLEAN
  <2>1. MaxAsks \in Nat
    BY DirMetadataAssumption
  <2>2. cache = [d \in Dirs |-> None] /\ asks = 0 /\ disputed = {} /\ overlap = FALSE
    BY DEF DirMetadataInit
  <2>3. 0 \in 0..MaxAsks
    BY <2>1
  <2> QED BY <2>2, <2>3
<1>5. Queries
  <2>1. req = [r \in Requests |-> Idle]
    BY DEF DirMetadataInit
  <2> QED BY <2>1, IdleIs DEF Queries, QueryOK
<1> QED BY <1>1, <1>2, <1>3, <1>4, <1>5 DEF TypeInv, DirMetadataTypeOK, Standing, Present, Opinions

LEMMA TypesStep ==
  ASSUME TypeInv, [DirMetadataNext]_vars
  PROVE  TypeInv'
<1>1. CASE DirMetadataNext
  BY <1>1, TypesAsking, TypesMetadata, TypesDirectory DEF DirMetadataNext
<1>2. CASE UNCHANGED vars
  BY <1>2 DEF vars, storeVars, history, TypeInv, DirMetadataTypeOK, Present, Queries
<1> QED BY <1>1, <1>2

(* Types, and that no directory is left when the one it is in goes: only   *)
(* an empty one is removed, and a new one is made where there is one.      *)
THEOREM DirectoriesStand == DirMetadataSpec => []DirMetadataTypeOK
<1>1. DirMetadataInit => TypeInv
  BY TypesInit
<1>2. TypeInv /\ [DirMetadataNext]_vars => TypeInv'
  BY TypesStep
<1>3. TypeInv => DirMetadataTypeOK
  BY DEF TypeInv
<1> QED BY <1>1, <1>2, <1>3, PTL DEF DirMetadataSpec

-----------------------------------------------------------------------------
(* What users decided.                                                     *)

(* A listing that has read the flags still has, or shows, what users had   *)
(* decided to keep, and has done with what they had deleted.               *)
ToCome(q) == IF q.stage = "rows" THEN Ahead(q.routes) ELSE q.left
RowsOK(q, ds) ==
  /\ q.pc = "flags" => q.shown = {}
  /\ q.stage \in {"list", "rows"} /\ q.pc # "flags" =>
       \A d \in Dirs \ ds :
         /\ q.asked[d] = "kept" => /\ d \in ToCome(q) \cup q.shown
                                   /\ q.flags[d].created /\ ~q.flags[d].deleted
         /\ q.asked[d] = "deleted" => d \notin ToCome(q) \cup q.shown

(* The flags on record say what users decided, *)
OnRecord ==
  \A d \in Dirs \ disputed :
    /\ decided[d] = "kept" => Flags(meta[d]).created /\ ~Flags(meta[d]).deleted
    /\ decided[d] = "deleted" => Flags(meta[d]).deleted

(* two that decide about one directory at once dispute it, *)
Disputes ==
  \A r, u \in Requests :
    r # u /\ Active(r) /\ Active(u) /\ Decides(req[r].in) /\ Decides(req[u].in)
      /\ req[r].in.dir = req[u].in.dir => req[r].in.dir \in disputed

(* and nobody has decided again about one that is being forgotten.         *)
Forgetting ==
  \A r \in Requests :
    req[r].pc = "forget" /\ req[r].in.dir \notin disputed => decided[req[r].in.dir] = "none"

HonourInv ==
  /\ TypeInv /\ OnRecord /\ Disputes /\ Forgetting
  /\ \A r \in Requests : RowsOK(req[r], disputed)

LEMMA GotRows ==
  ASSUME NEW q, QueryOK(q), q.pc # "flags", NEW d \in q.left, NEW i,
         NEW n, QueryOK(n), GotAs(n, q, d, i), NEW ds, RowsOK(q, ds)
  PROVE  RowsOK(n, ds)
<1>1. CASE q.stage = "list"
  <2>1. /\ n.pc # "flags" /\ n.asked = q.asked /\ n.flags = q.flags
        /\ ToCome(n) = q.left \ {d} /\ ToCome(q) = q.left
    BY <1>1 DEF GotAs, ToCome
  <2>2. \/ n.shown = q.shown \cup {d}
        \/ n.shown = q.shown /\ ~(~q.flags[d].deleted /\ q.flags[d].created)
    BY <1>1 DEF GotAs, Listed, Shown
  <2>3. \A e \in Dirs \ ds :
         /\ q.asked[e] = "kept" => /\ e \in q.left \cup q.shown
                                   /\ q.flags[e].created /\ ~q.flags[e].deleted
         /\ q.asked[e] = "deleted" => e \notin q.left \cup q.shown
    BY <1>1, <2>1 DEF RowsOK
  <2> QED BY <2>1, <2>2, <2>3 DEF RowsOK
<1>2. CASE q.stage = "rows"
  <2>1. /\ n.asked = q.asked /\ n.flags = q.flags /\ n.shown = q.shown /\ n.stage = "rows"
        /\ n.routes = q.routes /\ n.pc # "flags"
    BY <1>2 DEF GotAs, Summing
  <2> QED BY <1>2, <2>1 DEF RowsOK, ToCome
<1>3. CASE q.stage \notin {"list", "rows"}
  BY <1>3 DEF GotAs, QueryOK, Placed, OwnPcs, ForwardPcs, Query, RowsOK
<1> QED BY <1>1, <1>2, <1>3

LEMMA RowsLeft ==
  ASSUME NEW n, QueryOK(n), n.stage \notin {"list", "rows"}
  PROVE  \A ds : RowsOK(n, ds)
BY DEF RowsOK, QueryOK, Placed, OwnPcs, ForwardPcs, Query

LEMMA RefreshedRows ==
  ASSUME NEW n, NEW q, NEW routes, RefreshedAs(n, q, routes)
  PROVE  /\ ToCome(n) = Ahead(routes) /\ n.pc # "flags" /\ n.pc # "forget"
         /\ n.stage \in {"list", "rows"} /\ n.in = q.in
<1>1. \A x : x \notin Ahead(<<>>)
  BY AheadIs
<1> QED BY <1>1 DEF RefreshedAs, ToCome

(* The next step of a listing or a forward update. *)
LEMMA RowsStep ==
  ASSUME TypeInv, OnRecord, NEW r \in Requests, MetadataStep(r), RowsOK(req[r], disputed)
  PROVE  \E n : /\ Go(r, n) /\ RowsOK(n, disputed) /\ n.pc # "forget"
                /\ n.pc # "idle" => n.in = req[r].in
<1> DEFINE q == req[r]
<1>1. PICK n : QueryOK(n) /\ Go(r, n) /\ OnList(q, n)
  BY MetadataIs
<1>2. QueryOK(q) /\ q \in Query /\ Placed(q) /\ Ready(q)
  BY MetadataIs, AtWork
<1>3. n.stage # "none" => n.pc # "forget"
  BY <1>1 DEF QueryOK, Placed, OwnPcs
<1> SUFFICES /\ RowsOK(n, disputed)
             /\ n = Idle \/ (n.in = q.in /\ n.stage # "none")
  BY <1>1, <1>3, IdleIs
<1>4. /\ q.stage \in {"list", "forward", "rows", "none"}
      /\ q.pc \notin OwnPcs \cup {"idle"} => q.stage # "none"
  BY <1>2 DEF Query, Placed
<1>5. ASSUME NEW routes, OnItsWay(n, q, routes)
      PROVE  RowsOK(n, disputed) /\ (n = Idle \/ (n.in = q.in /\ n.stage # "none"))
  <2>1. n = Idle \/ (n.in = q.in /\ n.stage = "forward")
    BY <1>5 DEF OnItsWay
  <2>2. n.stage \notin {"list", "rows"}
    BY <2>1, IdleIs
  <2> QED BY <1>1, <2>1, <2>2, RowsLeft
<1>6. ASSUME NEW d \in q.left, NEW i, GotAs(n, q, d, i), q.stage # "none", q.pc # "flags"
      PROVE  RowsOK(n, disputed) /\ (n = Idle \/ (n.in = q.in /\ n.stage # "none"))
  BY <1>1, <1>2, <1>6, GotRows DEF GotAs
<1>7. ASSUME Carries(n, q), n.pc # "flags", q.pc # "flags", q.stage # "none"
      PROVE  RowsOK(n, disputed) /\ (n = Idle \/ (n.in = q.in /\ n.stage # "none"))
  BY <1>7 DEF RowsOK, Carries, ToCome
<1>8. q.pc \in {"read", "fill"} => q.row \in q.left
  BY <1>2 DEF Ready
<1>9. CASE TakesCached(q, n)
  BY <1>4, <1>6, <1>9 DEF TakesCached, OwnPcs
<1>10. CASE Evicts(q, n)
  BY <1>4, <1>7, <1>10 DEF Evicts, OwnPcs
<1>11. CASE Reads(q, n)
  BY <1>4, <1>7, <1>11 DEF Reads, OwnPcs
<1>12. CASE TakesNone(q, n)
  BY <1>4, <1>6, <1>8, <1>12 DEF TakesNone, OwnPcs
<1>13. CASE Counts(q, n)
  BY <1>13 DEF Counts, CountedAs, RowsOK, ToCome
<1>14. CASE Fills(q, n)
  BY <1>4, <1>6, <1>8, <1>14 DEF Fills, OwnPcs
<1>15. CASE Writes(q, n)
  BY <1>4, <1>7, <1>15 DEF Writes, OwnPcs
<1>16. CASE Caches(q, n)
  <2>1. q.stage = "list" => q.row \in q.left
    BY <1>2, <1>16 DEF Ready, Caches
  <2>2. q.pc # "flags" /\ q.stage # "none"
    BY <1>4, <1>16 DEF Caches, OwnPcs
  <2>3. CASE q.stage = "list" /\ GotAs(n, q, q.row, q.values[q.row])
    BY <1>6, <2>1, <2>2, <2>3
  <2>4. CASE Carries(n, q) /\ n.pc = "set"
    BY <1>7, <2>2, <2>4
  <2>5. CASE OnItsWay(n, q, Rest(q)) \/ OnItsWay(n, q, Tail(q.routes))
    BY <1>5, <2>5
  <2>6. CASE q.stage = "rows" /\ RowDone(n, q)
    <3>1. q.routes # <<>> /\ Single(q.routes) /\ q.routes \in Routes
      BY <1>2, <2>6 DEF Placed, Query, Routes
    <3>2. Ahead(q.routes) = {At(q)} \cup Ahead(Tail(q.routes))
      BY <3>1, RowsLeftAre
    <3>3. /\ RefreshedAs(n, q, Tail(q.routes)) /\ n.flags = q.flags /\ n.asked = q.asked
          /\ n.shown = Shown(q, At(q), q.total)
      BY <2>6 DEF RowDone
    <3>4. /\ ToCome(n) = Ahead(Tail(q.routes)) /\ n.pc # "flags" /\ n.in = q.in
          /\ n.stage \in {"list", "rows"} /\ ToCome(q) = Ahead(q.routes)
      BY <2>6, <3>3, RefreshedRows DEF ToCome
    <3>5. \/ n.shown = q.shown \cup {At(q)}
          \/ n.shown = q.shown /\ ~(~q.flags[At(q)].deleted /\ q.flags[At(q)].created)
      BY <3>3 DEF Shown, Listed
    <3>6. \A e \in Dirs \ disputed :
           /\ q.asked[e] = "kept" => /\ e \in ToCome(q) \cup q.shown
                                     /\ q.flags[e].created /\ ~q.flags[e].deleted
           /\ q.asked[e] = "deleted" => e \notin ToCome(q) \cup q.shown
      BY <2>2, <2>6 DEF RowsOK
    <3>7. RowsOK(n, disputed)
      BY <3>2, <3>3, <3>4, <3>5, <3>6 DEF RowsOK
    <3> QED BY <3>4, <3>7
  <2> QED BY <1>16, <2>3, <2>4, <2>5, <2>6 DEF Caches
<1>17. CASE Sets(q, n)
  BY <1>4, <1>7, <1>17 DEF Sets, OwnPcs
<1>18. CASE SetsCached(q, n) \/ Ends(q, n)
  BY <1>5, <1>18 DEF SetsCached, Ends
<1>19. CASE Scans(q, n)
  <2>1. /\ n.stage = q.stage /\ n.in = q.in /\ n.routes = q.routes /\ n.shown = q.shown
        /\ n.flags = q.flags /\ n.asked = q.asked /\ n.pc # "flags" /\ q.pc = "scan"
    BY <1>19 DEF Scans, ScannedAs
  <2>2. q.stage \in Summing
    BY <1>2, <1>4, <2>1 DEF Placed, OwnPcs, ListPcs, Summing
  <2> QED BY <2>1, <2>2 DEF RowsOK, ToCome, Summing
<1>20. CASE ReadsFlags(q, n)
  <2>1. q.pc = "flags" /\ q.shown = {} /\ q.left \subseteq Dirs
    BY <1>2, <1>20 DEF ReadsFlags, RowsOK, Query
  <2>2. /\ n.asked = AskedOf(q.left) /\ n.flags = FlagsOf(q.left) /\ n.shown = {}
        /\ n.pc # "flags" /\ n.stage \in {"list", "rows"} /\ n.in = q.in
        /\ ToCome(n) = {e \in q.left : ~Flags(meta[e]).deleted}
    <3>1. CASE FlagsReadAs(n, q)
      BY <2>1, <3>1 DEF FlagsReadAs, ToCome
    <3>2. CASE RowsReadAs(n, q)
      <4> DEFINE ds == {e \in q.left : ~Flags(meta[e]).deleted}
      <4>1. PICK rows \in RowsOf(ds) : RefreshedAs(n, q, rows)
        BY <3>2 DEF RowsReadAs
      <4>2. ds \in SUBSET Dirs
        BY <2>1
      <4> HIDE DEF ds
      <4>3. Ahead(rows) = ds
        BY <4>1, <4>2, RowsAre
      <4>4. /\ ToCome(n) = ds /\ n.pc # "flags" /\ n.stage \in {"list", "rows"}
            /\ n.in = q.in
        BY <4>1, <4>3, RefreshedRows
      <4> QED BY <2>1, <3>2, <4>4 DEF RowsReadAs, ds
    <3> QED BY <1>20, <3>1, <3>2 DEF ReadsFlags
  <2>3. ASSUME NEW d \in Dirs \ disputed
        PROVE  /\ n.asked[d] = "kept" => /\ d \in ToCome(n) \cup n.shown
                                         /\ n.flags[d].created /\ ~n.flags[d].deleted
               /\ n.asked[d] = "deleted" => d \notin ToCome(n) \cup n.shown
    <3>1. CASE d \in q.left
      <4>1. n.asked[d] = decided[d] /\ n.flags[d] = Flags(meta[d])
        BY <2>2, <3>1 DEF AskedOf, FlagsOf
      <4> QED BY <2>2, <3>1, <4>1 DEF OnRecord
    <3>2. CASE d \notin q.left
      BY <2>2, <3>2 DEF AskedOf
    <3> QED BY <3>1, <3>2
  <2>4. RowsOK(n, disputed)
    BY <2>2, <2>3 DEF RowsOK
  <2> QED BY <2>2, <2>4
<1> QED BY <1>1, <1>9, <1>10, <1>11, <1>12, <1>13, <1>14, <1>15, <1>16, <1>17, <1>18, <1>19,
           <1>20 DEF OnList

(* Where the steps of a request on its own directory leave it. *)
LEMMA DirectoryGoes ==
  ASSUME TypeInv, NEW r \in Requests, DirectoryStep(r)
  PROVE  \E n : /\ QueryOK(n) /\ Go(r, n) /\ OnOwn(req[r], n)
                /\ n.stage \notin {"list", "rows"} /\ n.pc # "flags"
                /\ n.pc # "idle" => n.in = req[r].in
                /\ n.pc = "forget" <=> req[r].pc = "remove" /\ Removable(req[r].in.dir)
<1> DEFINE q == req[r]
<1>1. PICK n : QueryOK(n) /\ Go(r, n) /\ OnOwn(q, n)
  BY DirectoryIs
<1>2. ASSUME NEW routes, OnItsWay(n, q, routes)
      PROVE  n.stage \notin {"list", "rows"} /\ n.pc \in {"idle", "scan"} /\ (n.pc # "idle" => n.in = q.in)
  BY <1>2, IdleIs DEF OnItsWay
<1>3. CASE Unlinks(q, n) \/ Uncaches(q, n) \/ SetsFlags(q, n)
  BY <1>1, <1>2, <1>3 DEF Unlinks, Uncaches, SetsFlags
<1>4. CASE Clears(q, n)
  BY <1>1, <1>4 DEF Clears, StaysAs
<1>5. CASE Removes(q, n)
  BY <1>1, <1>5 DEF Removes, StaysAs
<1>6. CASE Forgets(q, n)
  BY <1>1, <1>6 DEF Forgets, StaysAs
<1>7. CASE FindsTaken(q, n)
  BY <1>1, <1>7, IdleIs DEF FindsTaken, StaysAs
<1> QED BY <1>1, <1>3, <1>4, <1>5, <1>6, <1>7 DEF OnOwn

(* A request that goes on keeps its dispute, and its rows. *)
LEMMA GoHonours ==
  ASSUME HonourInv, NEW r \in Requests, Active(r), NEW n, Go(r, n), RowsOK(n, disputed),
         n.pc # "idle" => n.in = req[r].in, disputed' = disputed
  PROVE  Disputes' /\ \A u \in Requests : RowsOK(req'[u], disputed')
<1>1. req'[r] = n /\ \A u \in Requests \ {r} : req'[u] = req[u]
  BY DEF HonourInv, TypeInv, Queries, Go
<1>2. \A u \in Requests : RowsOK(req'[u], disputed')
  BY <1>1 DEF HonourInv
<1>3. \A u \in Requests : req'[u].pc # "idle" => Active(u) /\ req'[u].in = req[u].in
  BY <1>1 DEF Active
<1>4. Disputes'
  BY <1>3 DEF HonourInv, Disputes, Active
<1> QED BY <1>2, <1>4

(* An aggregate that is written leaves the flags. *)
LEMMA FlagsKept ==
  ASSUME TypeInv, NEW r \in Requests, MetadataStep(r)
  PROVE  /\ \A d \in Dirs : Flags(meta'[d]) = Flags(meta[d])
         /\ decided' = decided /\ disputed' = disputed
<1> DEFINE q == req[r]
<1>1. decided' = decided /\ disputed' = disputed
  BY DEF MetadataStep, GetCached, ReadMetadata, FillCache, BulkSet, SetMany,
         SetMetadata, SetCached, Scan, ReadFlags, CountRow, EndListing, storeVars, history
<1>2. Active(r)
  BY DEF Active, MetadataStep, GetCached, ReadMetadata, FillCache, BulkSet, SetMany,
         SetMetadata, SetCached, Scan, ReadFlags, CountRow, EndListing
<1>3. q \in Query /\ meta \in [Dirs -> Meta \cup {None}]
  BY <1>2, AtWork, TypesNow
<1>4. CASE BulkSet(r)
  <2>1. /\ q.values \in [Dirs -> Int \cup {None}]
        /\ meta' = [d \in Dirs |-> IF q.values[d] = None THEN meta[d]
                                   ELSE Sized(meta[d], q.values[d])]
    BY <1>3, <1>4 DEF BulkSet, Query
  <2> QED BY <1>1, <1>3, <2>1, SizedIs
<1>5. CASE SetMetadata(r)
  <2>1. /\ q.total \in Int /\ meta' = [meta EXCEPT ![At(q)] = Sized(meta[At(q)], q.total)]
    BY <1>3, <1>5 DEF SetMetadata, Query
  <2> QED BY <1>1, <1>3, <2>1, SizedIs
<1>6. CASE meta' = meta
  BY <1>1, <1>6
<1> QED BY <1>4, <1>5, <1>6 DEF MetadataStep, GetCached, ReadMetadata, FillCache, SetMany,
        SetCached, Scan, ReadFlags, CountRow, EndListing, storeVars

LEMMA MetadataHonours ==
  ASSUME HonourInv, NEW r \in Requests, MetadataStep(r)
  PROVE  HonourInv'
<1>1. TypeInv /\ TypeInv' /\ OnRecord /\ RowsOK(req[r], disputed)
  BY TypesMetadata DEF HonourInv
<1>2. Active(r)
  BY DEF Active, MetadataStep, GetCached, ReadMetadata, FillCache, BulkSet, SetMany,
         SetMetadata, SetCached, Scan, ReadFlags, CountRow, EndListing
<1>3. PICK n : /\ Go(r, n) /\ RowsOK(n, disputed) /\ n.pc # "forget"
               /\ n.pc # "idle" => n.in = req[r].in
  BY <1>1, RowsStep
<1>4. /\ \A d \in Dirs : Flags(meta'[d]) = Flags(meta[d])
      /\ decided' = decided /\ disputed' = disputed
  BY <1>1, FlagsKept
<1>5. OnRecord'
  <2> SUFFICES ASSUME NEW d \in Dirs \ disputed'
               PROVE  /\ decided'[d] = "kept" => Flags(meta'[d]).created /\ ~Flags(meta'[d]).deleted
                      /\ decided'[d] = "deleted" => Flags(meta'[d]).deleted
    BY DEF OnRecord, Flags
  <2> QED BY <1>1, <1>4 DEF OnRecord
<1>6. Disputes' /\ \A u \in Requests : RowsOK(req'[u], disputed')
  BY <1>2, <1>3, <1>4, GoHonours
<1>7. Forgetting'
  <2>1. req'[r] = n /\ \A u \in Requests \ {r} : req'[u] = req[u]
    BY <1>1, <1>3 DEF TypeInv, Queries, Go
  <2> QED BY <1>3, <1>4, <2>1 DEF HonourInv, Forgetting
<1> QED BY <1>1, <1>5, <1>6, <1>7 DEF HonourInv

LEMMA AskingHonours ==
  ASSUME HonourInv, NEW r \in Requests, Asking(r)
  PROVE  HonourInv'
<1> DEFINE n == req'[r]
<1>1. TypeInv /\ TypeInv'
  BY TypesAsking DEF HonourInv
<1>2. /\ QueryOK(n) /\ n.in \in Inputs /\ Beginning(n, own, own') /\ ~Active(r)
      /\ disputed \subseteq disputed'
      /\ \A u \in Requests \ {r} : req'[u] = [req[u] EXCEPT !.alone = req[u].alone /\ ~Active(u)]
      /\ UNCHANGED <<meta, cache, decided, neglected>>
  BY <1>1, AskingIs
<1>3. ASSUME NEW u \in Requests \ {r}
      PROVE  Alike(req'[u], req[u])
  <2>1. req[u] \in Query /\ (req[u].alone /\ ~Active(u)) \in BOOLEAN
    BY <1>1 DEF TypeInv, Queries
  <2> QED BY <1>2, <2>1, AloneIs
<1>4. OnRecord'
  BY <1>2 DEF HonourInv, OnRecord, Flags
<1>5. Disputes'
  <2>1. PICK q : Asks(r, n.in, q)
    BY <1>1, AskingIs
  <2>2. disputed' = IF Decides(n.in)
                    THEN disputed \cup ({n.in.dir} \cap {req[u].in.dir : u \in
                           {v \in {w \in Requests \ {r} : Active(w)} : Decides(req[v].in)}})
                    ELSE disputed
    BY <2>1 DEF Asks
  <2>3. \A u \in Requests \ {r} :
          Active(u) /\ Decides(n.in) /\ Decides(req[u].in) /\ req[u].in.dir = n.in.dir
            => n.in.dir \in disputed'
    BY <2>2
  <2>4. \A u \in Requests \ {r} : /\ req'[u].in = req[u].in /\ req'[u].pc = req[u].pc
    BY <1>3 DEF Alike
  <2> SUFFICES ASSUME NEW u \in Requests, NEW v \in Requests, u # v,
                      req'[u].pc # "idle", req'[v].pc # "idle",
                      Decides(req'[u].in), Decides(req'[v].in), req'[u].in.dir = req'[v].in.dir
               PROVE  req'[u].in.dir \in disputed'
    BY DEF Disputes, Active
  <2>5. CASE u = r
    BY <2>2, <2>3, <2>4, <2>5 DEF Active
  <2>6. CASE v = r
    BY <2>2, <2>3, <2>4, <2>6 DEF Active
  <2>7. CASE u # r /\ v # r
    BY <1>2, <2>4, <2>7 DEF HonourInv, Disputes, Active
  <2> QED BY <2>5, <2>6, <2>7
<1>6. n.pc # "forget" /\ RowsOK(n, disputed')
  <2>1. CASE Listing(n, own, own')
    BY <2>1 DEF Listing, RowsOK
  <2>2. CASE Measuring(n, own, own')
    BY <2>2 DEF Measuring, RowsOK
  <2>3. CASE Changing(n, own, own')
    BY <2>3 DEF Changing, RowsOK
  <2>4. CASE Updating(n, own, own')
    BY <2>4 DEF Updating, RowsOK
  <2>5. CASE Creating(n, own, own')
    BY <2>5 DEF Creating, RowsOK
  <2> QED BY <1>2, <2>1, <2>2, <2>3, <2>4, <2>5 DEF Beginning
<1> HIDE DEF n
<1>7. \A u \in Requests : RowsOK(req'[u], disputed')
  <2> SUFFICES ASSUME NEW u \in Requests \ {r} PROVE RowsOK(req'[u], disputed')
    BY <1>6 DEF n
  <2>1. RowsOK(req[u], disputed)
    BY DEF HonourInv
  <2> QED BY <1>2, <1>3, <2>1 DEF RowsOK, Alike, ToCome
<1>8. Forgetting'
  <2> SUFFICES ASSUME NEW u \in Requests, req'[u].pc = "forget", req'[u].in.dir \notin disputed'
               PROVE  decided'[req'[u].in.dir] = "none"
    BY DEF Forgetting
  <2>1. u # r
    BY <1>6 DEF n
  <2>2. req'[u].in = req[u].in /\ req'[u].pc = req[u].pc
    BY <1>3, <2>1 DEF Alike
  <2> QED BY <1>2, <2>2 DEF HonourInv, Forgetting
<1> QED BY <1>1, <1>4, <1>5, <1>7, <1>8 DEF HonourInv

LEMMA DirectoryHonours ==
  ASSUME HonourInv, NEW r \in Requests, DirectoryStep(r)
  PROVE  HonourInv'
<1> DEFINE q == req[r]
           d == req[r].in.dir
<1>1. /\ TypeInv /\ TypeInv' /\ OnRecord /\ Forgetting
      /\ meta \in [Dirs -> Meta \cup {None}] /\ decided \in [Dirs -> Opinions]
  BY TypesDirectory, TypesNow DEF HonourInv
<1>2. Active(r) /\ disputed' = disputed
  BY <1>1, DirectoryIs
<1>3. QueryOK(q) /\ q \in Query /\ Placed(q) /\ d \in Dirs
  BY <1>1, <1>2, AtWork
<1>6. PICK n : /\ Go(r, n) /\ OnOwn(q, n) /\ n.stage \notin {"list", "rows"} /\ n.pc # "flags"
               /\ n.pc # "idle" => n.in = q.in
               /\ n.pc = "forget" <=> q.pc = "remove" /\ Removable(d)
  BY <1>1, DirectoryGoes
<1>7. RowsOK(n, disputed)
  BY <1>6 DEF RowsOK
<1>8. Disputes' /\ \A u \in Requests : RowsOK(req'[u], disputed')
  BY <1>2, <1>6, <1>7, GoHonours
<1>9. req'[r] = n /\ \A u \in Requests \ {r} : req'[u] = req[u]
  BY <1>1, <1>6 DEF TypeInv, Queries, Go
<1>10. CASE Removes(q, n) /\ Removable(d)
  <2>1. meta' = meta /\ decided' = [decided EXCEPT ![d] = "none"]
    BY <1>10 DEF Removes
  <2>2. OnRecord'
    <3> SUFFICES ASSUME NEW e \in Dirs \ disputed'
                 PROVE  /\ decided'[e] = "kept" => Flags(meta'[e]).created /\ ~Flags(meta'[e]).deleted
                        /\ decided'[e] = "deleted" => Flags(meta'[e]).deleted
      BY DEF OnRecord, Flags
    <3> QED BY <1>1, <1>3, <1>2, <2>1 DEF OnRecord
  <2>3. Forgetting'
    <3> SUFFICES ASSUME NEW u \in Requests, req'[u].pc = "forget", req'[u].in.dir \notin disputed'
                 PROVE  decided'[req'[u].in.dir] = "none"
      BY DEF Forgetting
    <3>1. CASE u = r
      <4>1. req'[u].in = q.in
        BY <1>6, <1>9, <1>10, <3>1 DEF Removes
      <4> QED BY <1>1, <1>3, <2>1, <4>1
    <3>2. CASE u # r
      <4>1. req'[u] = req[u] /\ decided[req[u].in.dir] = "none"
        BY <1>1, <1>2, <1>9, <3>2 DEF Forgetting
      <4> QED BY <1>1, <2>1, <4>1
    <3> QED BY <3>1, <3>2
  <2> QED BY <1>1, <1>8, <2>2, <2>3 DEF HonourInv
<1>11. CASE Forgets(q, n)
  <2>1. meta' = [meta EXCEPT ![d] = None] /\ decided' = decided /\ q.pc = "forget"
    BY <1>11 DEF Forgets
  <2>2. d \notin disputed => decided[d] = "none"
    BY <1>1, <2>1 DEF Forgetting
  <2>3. OnRecord'
    <3> SUFFICES ASSUME NEW e \in Dirs \ disputed'
                 PROVE  /\ decided'[e] = "kept" => Flags(meta'[e]).created /\ ~Flags(meta'[e]).deleted
                        /\ decided'[e] = "deleted" => Flags(meta'[e]).deleted
      BY DEF OnRecord, Flags
    <3>1. CASE e = d
      BY <1>2, <2>1, <2>2, <3>1
    <3>2. CASE e # d
      BY <1>1, <1>2, <2>1, <3>2 DEF OnRecord
    <3> QED BY <3>1, <3>2
  <2>5. Forgetting'
    BY <1>1, <1>2, <1>6, <1>9, <2>1 DEF Forgetting
  <2> QED BY <1>1, <1>8, <2>3, <2>5 DEF HonourInv
<1>12. CASE SetsFlags(q, n)
  <2>1. PICK mark \in {"kept", "deleted"} :
          /\ meta' = [meta EXCEPT ![d] = Flagged(meta[d], mark)]
          /\ decided' = [decided EXCEPT ![d] = mark] /\ q.pc = "mark"
    BY <1>12 DEF SetsFlags, Chosen
  <2>2. /\ Flagged(meta[d], mark) # None
        /\ Flagged(meta[d], mark).created = (mark = "kept")
        /\ Flagged(meta[d], mark).deleted = (mark = "deleted")
    BY <1>1, <1>3, FlaggedIs
  <2>3. /\ Flags(meta'[d]).created = (mark = "kept")
        /\ Flags(meta'[d]).deleted = (mark = "deleted")
    BY <1>1, <1>3, <2>1, <2>2 DEF Flags
  <2>4. OnRecord'
    <3> SUFFICES ASSUME NEW e \in Dirs \ disputed'
                 PROVE  /\ decided'[e] = "kept" => Flags(meta'[e]).created /\ ~Flags(meta'[e]).deleted
                        /\ decided'[e] = "deleted" => Flags(meta'[e]).deleted
      BY DEF OnRecord, Flags
    <3>1. CASE e = d
      BY <1>1, <1>3, <2>1, <2>3, <3>1
    <3>2. CASE e # d
      BY <1>1, <1>2, <2>1, <3>2 DEF OnRecord
    <3> QED BY <3>1, <3>2
  <2>5. n.pc # "forget"
    BY <1>6, <2>1
  <2>6. Forgetting'
    <3> SUFFICES ASSUME NEW u \in Requests, req'[u].pc = "forget", req'[u].in.dir \notin disputed'
                 PROVE  decided'[req'[u].in.dir] = "none"
      BY DEF Forgetting
    <3>1. u # r /\ req'[u] = req[u]
      BY <1>9, <2>5
    <3>2. req[u].in.op = "delete folder" /\ Active(u)
      BY <1>1, <3>1 DEF TypeInv, Queries, QueryOK, Placed, Active
    <3>3. Decides(req[u].in) /\ Decides(q.in)
      BY <1>3, <2>1, <3>2 DEF Decides, Placed
    <3>4. req[u].in.dir # d
      BY <1>2, <3>1, <3>2, <3>3 DEF HonourInv, Disputes
    <3> QED BY <1>1, <1>2, <2>1, <3>1, <3>4 DEF Forgetting
  <2> QED BY <1>1, <1>8, <2>4, <2>6 DEF HonourInv
<1>13. CASE /\ Unlinks(q, n) \/ Clears(q, n) \/ Removes(q, n) \/ Uncaches(q, n) \/ FindsTaken(q, n)
            /\ ~(Removes(q, n) /\ Removable(d))
  <2>1. meta' = meta /\ decided' = decided
    BY <1>13 DEF Unlinks, Clears, Removes, Uncaches, FindsTaken
  <2>2. OnRecord'
    BY <1>1, <1>2, <2>1 DEF OnRecord, Flags
  <2>3. Forgetting'
    <3>1. n.pc # "forget"
      BY <1>6, <1>13 DEF Unlinks, Clears, Removes, Uncaches, FindsTaken
    <3> QED BY <1>1, <1>2, <1>6, <1>9, <2>1, <3>1 DEF Forgetting
  <2> QED BY <1>1, <1>8, <2>2, <2>3 DEF HonourInv
<1> QED BY <1>6, <1>10, <1>11, <1>12, <1>13 DEF OnOwn

LEMMA HonourInit ==
  ASSUME DirMetadataInit
  PROVE  HonourInv
<1>1. TypeInv /\ decided \in [Dirs -> Opinions]
  BY TypesInit, TypesNow
<1>2. req = [r \in Requests |-> Idle] /\ Idle.pc = "idle" /\ Idle.stage = "none"
  BY IdleIs DEF DirMetadataInit
<1>3. OnRecord
  <2>1. PICK known \in Known :
          meta = [d \in Dirs |->
                    IF d \in known /\ Present(d)
                    THEN Sized(IF decided[d] = "none" THEN None ELSE Flagged(None, decided[d]),
                               Total(d))
                    ELSE IF decided[d] = "none" THEN None ELSE Flagged(None, decided[d])]
    BY DEF DirMetadataInit
  <2> SUFFICES ASSUME NEW d \in Dirs, decided[d] # "none"
               PROVE  /\ decided[d] = "kept" => Flags(meta[d]).created /\ ~Flags(meta[d]).deleted
                      /\ decided[d] = "deleted" => Flags(meta[d]).deleted
    BY DEF OnRecord
  <2> DEFINE m == Flagged(None, decided[d])
  <2>2. decided[d] \in {"kept", "deleted"}
    BY <1>1 DEF Opinions
  <2>3. /\ m \in Meta /\ m # None /\ m.created = (decided[d] = "kept")
        /\ m.deleted = (decided[d] = "deleted")
    BY <2>2, FlaggedIs
  <2>4. Total(d) \in Int
    BY <1>1, TypesNow, HeldFinite
  <2>5. Flags(Sized(m, Total(d))) = Flags(m)
    BY <2>3, <2>4, SizedIs
  <2>6. Flags(meta[d]) = Flags(m)
    BY <2>1, <2>5
  <2>7. Flags(m).created = (decided[d] = "kept") /\ Flags(m).deleted = (decided[d] = "deleted")
    BY <2>3 DEF Flags
  <2> HIDE DEF m
  <2> QED BY <2>6, <2>7
<1>4. Disputes /\ Forgetting
  BY <1>2 DEF Disputes, Forgetting, Active
<1>5. \A r \in Requests : RowsOK(req[r], disputed)
  BY <1>2 DEF RowsOK
<1> QED BY <1>1, <1>3, <1>4, <1>5 DEF HonourInv

LEMMA HonourStep ==
  ASSUME HonourInv, [DirMetadataNext]_vars
  PROVE  HonourInv'
<1>1. CASE DirMetadataNext
  BY <1>1, AskingHonours, MetadataHonours, DirectoryHonours DEF DirMetadataNext
<1>2. CASE UNCHANGED vars
  <2>1. TypeInv'
    BY <1>2, TypesStep DEF HonourInv
  <2>2. OnRecord' /\ Disputes' /\ Forgetting'
    BY <1>2 DEF vars, storeVars, history, HonourInv, OnRecord, Disputes, Forgetting, Active, Flags
  <2> QED BY <1>2, <2>1, <2>2 DEF vars, storeVars, history, HonourInv
<1> QED BY <1>1, <1>2

(* Whatever aggregates are written and whatever the cache holds, a listing *)
(* shows what users had decided to keep when it read the flags, and none   *)
(* of what they had deleted, unless two had decided about it at once.      *)
THEOREM ListingsHonour == DirMetadataSpec => []ListingHonours
<1>1. DirMetadataInit => HonourInv
  BY HonourInit
<1>2. HonourInv /\ [DirMetadataNext]_vars => HonourInv'
  BY HonourStep
<1>3. HonourInv => ListingHonours
  <2> SUFFICES ASSUME HonourInv, NEW r \in Requests, req[r].pc = "listed",
                      NEW d \in Dirs \ disputed
               PROVE  /\ req[r].asked[d] = "kept" => d \in req[r].shown
                      /\ req[r].asked[d] = "deleted" => d \notin req[r].shown
    BY DEF ListingHonours
  <2>1. QueryOK(req[r]) /\ RowsOK(req[r], disputed)
    BY DEF HonourInv, TypeInv, Queries
  <2>2. req[r].stage = "list" /\ req[r].left = {}
    BY <2>1 DEF QueryOK, Placed, Ready, OwnPcs, ForwardPcs, RowPcs, Query
  <2> QED BY <2>1, <2>2 DEF RowsOK, ToCome
<1> QED BY <1>1, <1>2, <1>3, PTL DEF DirMetadataSpec

-----------------------------------------------------------------------------
(* The cache.                                                              *)

(* As long as no two requests are at work at once ...                      *)
Sole == \A r, u \in Requests : Active(r) /\ Active(u) => r = u

(* ... what a request holds is what is on record, once it has put it there *)
(* or taken it from there,                                                 *)
Matches(q) ==
  /\ q.pc = "many" => \A d \in Dirs : q.values[d] # None =>
                        meta[d] # None /\ meta[d].size = q.values[d]
  /\ q.pc \in {"set", "cache"} => meta[At(q)] # None /\ meta[At(q)].size = q.total
  /\ q.pc = "fill" => meta[q.row] # None /\ meta[q.row].size = q.value

(* and an entry of the cache is, too, but for those it is about to write.  *)
Agrees(d) == cache[d] # None => meta[d] # None /\ cache[d] = meta[d].size
Pending(q) ==
  IF q.pc = "many" THEN {d \in Dirs : q.values[d] # None}
  ELSE IF q.pc = "uncache" THEN {q.in.dir} ELSE {}

CacheInv ==
  /\ TypeInv
  /\ ~overlap => /\ Sole
                 /\ \A r \in Requests : Matches(req[r])
                 /\ \A d \in Dirs : Agrees(d) \/ \E r \in Requests : d \in Pending(req[r])

(* A request that is alone goes on. *)
LEMMA SoleGoes ==
  ASSUME TypeInv, Sole, NEW r \in Requests, Active(r), NEW n, QueryOK(n), Go(r, n)
  PROVE  /\ req'[r] = n /\ \A u \in Requests \ {r} : req'[u] = req[u] /\ req[u].pc = "idle"
         /\ Sole'
<1>1. req'[r] = n /\ \A u \in Requests \ {r} : req'[u] = req[u]
  BY GoKeeps DEF TypeInv
<1>2. \A u \in Requests \ {r} : req[u].pc = "idle"
  BY DEF Sole, Active
<1> QED BY <1>1, <1>2 DEF Sole, Active

(* It is enough to look at the request that takes the step. *)
LEMMA CacheGoes ==
  ASSUME CacheInv, TypeInv', overlap' = overlap, ~overlap,
         NEW r \in Requests, Active(r), NEW n, QueryOK(n), Go(r, n), Matches(n)',
         \A d \in Dirs : Agrees(d) \/ d \in Pending(req[r]) => Agrees(d)' \/ d \in Pending(n)
  PROVE  CacheInv'
<1>1. /\ req'[r] = n /\ \A u \in Requests \ {r} : req'[u] = req[u] /\ req[u].pc = "idle"
      /\ Sole'
  BY SoleGoes DEF CacheInv
<1>2. \A u \in Requests : Matches(req[u])'
  BY <1>1 DEF Matches
<1>3. \A u \in Requests \ {r} : Pending(req[u]) = {}
  BY <1>1 DEF Pending
<1>4. \A d \in Dirs : Agrees(d)' \/ \E u \in Requests : d \in Pending(req'[u])
  BY <1>1, <1>3 DEF CacheInv
<1> QED BY <1>1, <1>2, <1>4 DEF CacheInv, Pending

LEMMA MetadataAgrees ==
  ASSUME CacheInv, NEW r \in Requests, MetadataStep(r)
  PROVE  CacheInv'
<1> DEFINE q == req[r]
<1>1. /\ TypeInv /\ TypeInv' /\ meta \in [Dirs -> Meta \cup {None}]
      /\ cache \in [Dirs -> Int \cup {None}] /\ Active(r) /\ overlap' = overlap
  BY TypesMetadata, TypesNow, MetadataIs DEF CacheInv
<1>2. PICK n : QueryOK(n) /\ Go(r, n) /\ OnList(q, n)
  BY <1>1, MetadataIs
<1>3. QueryOK(q) /\ q \in Query /\ q.in \in Inputs /\ Placed(q) /\ Ready(q)
  BY <1>1, AtWork
<1>4. /\ q.stage \in {"none", "list"} \cup Summing /\ q.left \subseteq Dirs
      /\ q.values \in [Dirs -> Int \cup {None}] /\ q.value \in Int /\ q.total \in Int
      /\ q.pc \in {"read", "fill"} => q.row \in Dirs
  BY <1>3 DEF Query, Ready, Summing
<1> SUFFICES ASSUME ~overlap PROVE CacheInv'
  BY <1>1 DEF CacheInv
<1>5. Matches(q)
  BY DEF CacheInv
<1> SUFFICES /\ Matches(n)'
             /\ \A d \in Dirs : Agrees(d) \/ d \in Pending(q) => Agrees(d)' \/ d \in Pending(n)
  BY <1>1, <1>2, CacheGoes
<1>6. ASSUME meta' = meta, cache' = cache, q.pc \notin {"many", "uncache"},
             n.pc \notin {"many", "set", "cache", "fill"}
      PROVE  /\ Matches(n)'
             /\ \A d \in Dirs : Agrees(d) \/ d \in Pending(q) => Agrees(d)' \/ d \in Pending(n)
  BY <1>6 DEF Matches, Pending, Agrees
<1>7. ASSUME NEW routes, OnItsWay(n, q, routes)
      PROVE  n.pc \in {"idle", "scan"}
  BY <1>7, IdleIs DEF OnItsWay
<1>8. ASSUME NEW d, NEW i, GotAs(n, q, d, i), q.stage # "none"
      PROVE  n.pc \in {"listed", "count", "get", "bulk"}
  BY <1>4, <1>8 DEF GotAs, Summing
<1>9. q.pc \notin OwnPcs \cup {"idle"} => q.stage # "none"
  BY <1>3 DEF Placed
<1>10. CASE TakesCached(q, n) \/ TakesNone(q, n)
  BY <1>6, <1>8, <1>9, <1>10 DEF TakesCached, TakesNone, OwnPcs
<1>11. CASE Counts(q, n) \/ Scans(q, n) \/ ReadsFlags(q, n) \/ Ends(q, n)
  BY <1>6, <1>7, <1>11 DEF Counts, CountedAs, Scans, ScannedAs, ReadsFlags, FlagsReadAs,
     RowsReadAs, RefreshedAs, Ends
<1>12. CASE Evicts(q, n)
  BY <1>1, <1>12 DEF Evicts, Matches, Pending, Agrees
<1>13. CASE Reads(q, n)
  BY <1>1, <1>13 DEF Reads, Matches, Pending, Agrees
<1>14. CASE Fills(q, n)
  <2>1. n.pc \in {"listed", "count", "get", "bulk"}
    BY <1>8, <1>9, <1>14 DEF Fills, OwnPcs
  <2>2. meta[q.row] # None /\ meta[q.row].size = q.value /\ q.row \in Dirs
    BY <1>4, <1>5, <1>14 DEF Fills, Matches
  <2> QED BY <1>1, <1>14, <2>1, <2>2 DEF Fills, Matches, Pending, Agrees
<1>15. CASE Writes(q, n)
  <2>1. q.pc = "bulk" /\ cache' = cache /\ n.values = q.values /\ n.pc = "many"
    BY <1>15 DEF Writes, Carries
  <2>2. \A d \in Dirs : meta'[d] = IF q.values[d] = None THEN meta[d]
                                   ELSE Sized(meta[d], q.values[d])
    BY <1>15 DEF Writes
  <2>3. \A d \in Dirs : q.values[d] # None =>
          meta'[d] # None /\ meta'[d].size = q.values[d]
    <3> SUFFICES ASSUME NEW d \in Dirs, q.values[d] # None
                 PROVE  meta'[d] # None /\ meta'[d].size = q.values[d]
      OBVIOUS
    <3>1. q.values[d] \in Int /\ meta[d] \in Meta \cup {None}
      BY <1>1, <1>4
    <3>2. /\ Sized(meta[d], q.values[d]) # None
          /\ Sized(meta[d], q.values[d]).size = q.values[d]
      BY <3>1, SizedIs
    <3> QED BY <2>2, <3>2
  <2>4. Matches(n)'
    BY <2>1, <2>3 DEF Matches
  <2> QED BY <2>1, <2>2, <2>4 DEF Pending, Agrees
<1>16. CASE Caches(q, n)
  <2>1. q.pc = "many" /\ meta' = meta
    BY <1>16 DEF Caches
  <2>2. \A d \in Dirs : cache'[d] = IF q.values[d] = None THEN cache[d] ELSE q.values[d]
    BY <1>16 DEF Caches
  <2>3. \A d \in Dirs : q.values[d] # None => meta[d] # None /\ meta[d].size = q.values[d]
    BY <1>5, <2>1 DEF Matches
  <2>4. \A d \in Dirs : Agrees(d) \/ d \in Pending(q) => Agrees(d)'
    BY <2>1, <2>2, <2>3 DEF Agrees, Pending
  <2>5. CASE n.pc = "set" /\ q.stage = "forward" /\ Carries(n, q)
    <3>1. q.routes # <<>>
      BY <1>3, <2>5 DEF Placed
    <3>2. At(q) \in Dirs /\ None \notin Int /\ q.values[At(q)] = q.total
      BY <1>3, <2>1, <2>5, <3>1, OnwardIs, DirMetadataAssumption DEF Ready, Summing
    <3>3. meta'[At(q)] # None /\ meta'[At(q)].size = q.total
      BY <1>4, <2>1, <2>3, <3>2
    <3>4. At(n) = At(q) /\ n.total = q.total
      BY <2>5 DEF At, Carries
    <3>5. Matches(n)'
      BY <2>5, <3>3, <3>4 DEF Matches, At
    <3> QED BY <2>4, <3>5
  <2>6. CASE n.pc \in {"idle", "scan", "listed", "count", "get", "bulk"}
    BY <2>4, <2>6 DEF Matches
  <2> QED BY <1>7, <1>8, <1>16, <2>5, <2>6 DEF Caches, RowDone, RefreshedAs
<1>17. CASE Sets(q, n)
  <2>1. q.stage = "forward" /\ q.routes # <<>>
    BY <1>3, <1>4, <1>17 DEF Sets, Placed, OwnPcs, ListPcs, RowPcs, Summing
  <2>2. At(q) \in Dirs /\ At(n) = At(q) /\ n.total = q.total /\ n.pc = "cache" /\ q.pc = "set"
    BY <1>3, <1>17, <2>1, OnwardIs DEF Sets, Carries, At
  <2>3. /\ meta' = [meta EXCEPT ![At(q)] = Sized(meta[At(q)], q.total)] /\ cache' = cache
        /\ Sized(meta[At(q)], q.total) # None /\ Sized(meta[At(q)], q.total).size = q.total
    BY <1>1, <1>4, <1>17, <2>2, SizedIs DEF Sets
  <2>4. meta[At(q)] # None /\ meta[At(q)].size = q.total
    BY <1>5, <2>2 DEF Matches
  <2>5. meta'[At(q)] # None /\ meta'[At(q)].size = q.total
    BY <1>1, <2>2, <2>3
  <2>6. \A d \in Dirs \ {At(q)} : meta'[d] = meta[d]
    BY <1>1, <2>3
  <2>7. Matches(n)'
    BY <2>2, <2>5 DEF Matches, At
  <2>8. \A d \in Dirs : Agrees(d) => Agrees(d)'
    <3> SUFFICES ASSUME NEW d \in Dirs, Agrees(d) PROVE Agrees(d)'
      OBVIOUS
    <3>1. CASE d = At(q)
      BY <2>3, <2>4, <2>5, <3>1 DEF Agrees
    <3>2. CASE d # At(q)
      BY <2>3, <2>6, <3>2 DEF Agrees
    <3> QED BY <3>1, <3>2
  <2> QED BY <2>2, <2>7, <2>8 DEF Pending
<1>18. CASE SetsCached(q, n)
  <2>1. q.stage = "forward" /\ q.routes # <<>>
    BY <1>3, <1>4, <1>18 DEF SetsCached, Placed, OwnPcs, ListPcs, RowPcs, Summing
  <2>2. At(q) \in Dirs /\ q.pc = "cache" /\ n.pc \in {"idle", "scan"}
    BY <1>3, <1>7, <1>18, <2>1, OnwardIs DEF SetsCached
  <2>3. meta[At(q)] # None /\ meta[At(q)].size = q.total
    BY <1>5, <2>2 DEF Matches
  <2>4. meta' = meta /\ cache' = [cache EXCEPT ![At(q)] = q.total]
    BY <1>18 DEF SetsCached
  <2>5. \A d \in Dirs : Agrees(d) => Agrees(d)'
    BY <1>1, <2>2, <2>3, <2>4 DEF Agrees
  <2> QED BY <2>2, <2>5 DEF Matches, Pending
<1> QED BY <1>2, <1>10, <1>11, <1>12, <1>13, <1>14, <1>15, <1>16, <1>17, <1>18 DEF OnList

LEMMA DirectoryAgrees ==
  ASSUME CacheInv, NEW r \in Requests, DirectoryStep(r)
  PROVE  CacheInv'
<1> DEFINE q == req[r]
           d == req[r].in.dir
<1>1. /\ TypeInv /\ TypeInv' /\ meta \in [Dirs -> Meta \cup {None}]
      /\ cache \in [Dirs -> Int \cup {None}] /\ Active(r) /\ overlap' = overlap
  BY TypesDirectory, TypesNow, DirectoryIs DEF CacheInv
<1>2. PICK n : QueryOK(n) /\ Go(r, n) /\ OnOwn(q, n)
  BY <1>1, DirectoryIs
<1>3. d \in Dirs
  BY <1>1, AtWork
<1> SUFFICES ASSUME ~overlap PROVE CacheInv'
  BY <1>1 DEF CacheInv
<1> SUFFICES /\ Matches(n)'
             /\ \A e \in Dirs : Agrees(e) \/ e \in Pending(q) => Agrees(e)' \/ e \in Pending(n)
  BY <1>1, <1>2, CacheGoes
<1>4. ASSUME NEW routes, OnItsWay(n, q, routes)
      PROVE  n.pc \in {"idle", "scan"}
  BY <1>4, IdleIs DEF OnItsWay
<1>5. CASE Unlinks(q, n) \/ Clears(q, n) \/ Removes(q, n) \/ FindsTaken(q, n)
  <2>1. /\ meta' = meta /\ cache' = cache /\ q.pc \notin {"many", "uncache"}
        /\ n.pc \in {"idle", "scan", "mark", "remove", "forget"}
    BY <1>4, <1>5, IdleIs DEF Unlinks, Clears, Removes, FindsTaken, StaysAs
  <2> QED BY <2>1 DEF Matches, Pending, Agrees
<1>6. CASE Forgets(q, n)
  <2>1. /\ meta' = [meta EXCEPT ![d] = None] /\ cache' = cache /\ q.pc = "forget"
        /\ n.pc = "uncache" /\ n.in.dir = d
    BY <1>6 DEF Forgets, StaysAs
  <2> QED BY <1>1, <2>1 DEF Matches, Pending, Agrees
<1>7. CASE Uncaches(q, n)
  <2>1. /\ meta' = meta /\ cache' = [cache EXCEPT ![d] = None] /\ q.pc = "uncache"
        /\ n.pc \in {"idle", "scan"}
    BY <1>4, <1>7 DEF Uncaches
  <2> QED BY <1>1, <1>3, <2>1 DEF Matches, Pending, Agrees
<1>8. CASE SetsFlags(q, n)
  <2>1. /\ meta' = [meta EXCEPT ![d] = Flagged(meta[d], Chosen(q))] /\ cache' = cache
        /\ q.pc = "mark" /\ n.pc \in {"idle", "scan"}
    BY <1>4, <1>8 DEF SetsFlags
  <2>2. Chosen(q) \in {"kept", "deleted"}
    BY DEF Chosen
  <2>3. /\ Flagged(meta[d], Chosen(q)) # None
        /\ meta[d] # None => Flagged(meta[d], Chosen(q)).size = meta[d].size
    BY <1>1, <1>3, <2>2, FlaggedIs
  <2>4. meta'[d] # None /\ (meta[d] # None => meta'[d].size = meta[d].size)
    BY <1>1, <1>3, <2>1, <2>3
  <2>5. \A e \in Dirs \ {d} : meta'[e] = meta[e]
    BY <1>1, <2>1
  <2>6. \A e \in Dirs : Agrees(e) => Agrees(e)'
    BY <2>1, <2>4, <2>5 DEF Agrees
  <2> QED BY <2>1, <2>6 DEF Matches, Pending
<1> QED BY <1>2, <1>5, <1>6, <1>7, <1>8 DEF OnOwn

LEMMA AskingAgrees ==
  ASSUME CacheInv, NEW r \in Requests, Asking(r)
  PROVE  CacheInv'
<1> DEFINE n == req'[r]
<1>1. TypeInv /\ TypeInv'
  BY TypesAsking DEF CacheInv
<1>2. /\ Beginning(n, own, own') /\ UNCHANGED <<meta, cache>>
      /\ \A u \in Requests \ {r} : req'[u] = [req[u] EXCEPT !.alone = req[u].alone /\ ~Active(u)]
      /\ overlap' = (overlap \/ \E u \in Requests \ {r} : Active(u)) /\ ~Active(r)
  BY <1>1, AskingIs
<1> SUFFICES ASSUME ~overlap' PROVE CacheInv'
  BY <1>1 DEF CacheInv
<1>3. ~overlap /\ \A u \in Requests : req[u].pc = "idle"
  BY <1>2 DEF Active
<1>4. \A u \in Requests \ {r} : req'[u].pc = "idle"
  <2> SUFFICES ASSUME NEW u \in Requests \ {r} PROVE req'[u].pc = "idle"
    OBVIOUS
  <2>1. req[u] \in Query /\ (req[u].alone /\ ~Active(u)) \in BOOLEAN
    BY <1>1 DEF TypeInv, Queries
  <2>2. Alike(req'[u], req[u])
    BY <1>2, <2>1, AloneIs
  <2> QED BY <1>3, <2>2 DEF Alike
<1>5. n.pc \notin {"many", "uncache", "set", "cache", "fill"}
  BY <1>2 DEF Beginning, Listing, Measuring, Changing, Updating, Creating
<1> HIDE DEF n
<1>6. Sole'
  BY <1>4 DEF Sole, Active
<1>7. \A u \in Requests : req'[u].pc \notin {"many", "uncache", "set", "cache", "fill"}
  BY <1>4, <1>5 DEF n
<1>8. \A u \in Requests : Matches(req[u])'
  BY <1>7 DEF Matches
<1>9. \A d \in Dirs : Agrees(d)
  BY <1>3 DEF CacheInv, Pending
<1>10. \A d \in Dirs : Agrees(d)'
  BY <1>2, <1>9 DEF Agrees
<1> QED BY <1>1, <1>6, <1>8, <1>10 DEF CacheInv

LEMMA CacheInit ==
  ASSUME DirMetadataInit
  PROVE  CacheInv
<1>1. req = [r \in Requests |-> Idle] /\ cache = [d \in Dirs |-> None] /\ Idle.pc = "idle"
  BY IdleIs DEF DirMetadataInit
<1>2. Sole /\ \A r \in Requests : Matches(req[r])
  BY <1>1 DEF Sole, Active, Matches
<1>3. \A d \in Dirs : Agrees(d)
  BY <1>1 DEF Agrees
<1> QED BY <1>2, <1>3, TypesInit DEF CacheInv

LEMMA CacheStep ==
  ASSUME CacheInv, [DirMetadataNext]_vars
  PROVE  CacheInv'
<1>1. CASE DirMetadataNext
  BY <1>1, AskingAgrees, MetadataAgrees, DirectoryAgrees DEF DirMetadataNext
<1>2. CASE UNCHANGED vars
  <2>1. TypeInv'
    BY <1>2, TypesStep DEF CacheInv
  <2>2. overlap' = overlap /\ meta' = meta /\ cache' = cache /\ req' = req
    BY <1>2 DEF vars, storeVars, history
  <2> QED BY <2>1, <2>2 DEF CacheInv, Sole, Active, Matches, Agrees, Pending, At
<1> QED BY <1>1, <1>2

(* As long as no two requests overlapped, the cache holds nothing that     *)
(* differs from the record: every write of one is followed by the same     *)
(* write of the other, and a request that ends has done both.              *)
THEOREM CachesAgree == DirMetadataSpec => []CacheAgrees
<1>1. DirMetadataInit => CacheInv
  BY CacheInit
<1>2. CacheInv /\ [DirMetadataNext]_vars => CacheInv'
  BY CacheStep
<1>3. CacheInv => CacheAgrees
  BY DEF CacheInv, CacheAgrees, Quiet, Active, Pending, Agrees
<1> QED BY <1>1, <1>2, <1>3, PTL DEF DirMetadataSpec

-----------------------------------------------------------------------------
(* A recursive count.                                                      *)

(* What is on record about everything under s is what is there. *)
Repaired(s) ==
  \A d \in Below[s] : Present(d) =>
    meta[d] # None /\ meta[d].size = Total(d) /\ cache[d] \in {None, Total(d)}

(* A recount that nobody disturbs has repaired its rows, and is about to   *)
(* record what it has counted.                                             *)
Repairing(q) ==
  q.alone /\ q.stage = "list" /\ q.in.op \in {"recount", "measure"} =>
    /\ q.pc = "flags" => q.shown = {}
    /\ \A s \in q.shown : Repaired(s)
    /\ q.pc \in {"bulk", "many"} => q.values = CountedValues(q.row)
    /\ q.pc = "many" => \A d \in Dirs : q.values[d] # None =>
                          meta[d] # None /\ meta[d].size = q.values[d]

RepairInv ==
  /\ TypeInv
  /\ \A r \in Requests : Active(r) /\ req[r].alone => \A u \in Requests \ {r} : ~Active(u)
  /\ \A r \in Requests : Repairing(req[r])

(* As long as the files stay, the totals do. *)
LEMMA TotalsStay ==
  ASSUME own' = own
  PROVE  /\ \A d \in Dirs : Present(d)' = Present(d) /\ Total(d)' = Total(d)
         /\ \A d \in Dirs : CountedValues(d)' = CountedValues(d)
<1>1. \A d \in Dirs : Present(d)' = Present(d)
  BY DEF Present
<1>2. \A d \in Dirs : Held(d)' = Held(d)
  BY DEF Held, Present
<1>3. \A d \in Dirs : HeldUnder(d)' = HeldUnder(d)
  BY DEF HeldUnder, Held, Present
<1>4. \A d \in Dirs : Total(d)' = Total(d)
  BY <1>3 DEF Total, Present
<1>5. \A d \in Dirs : CountedValues(d)' = CountedValues(d)
  <2> SUFFICES ASSUME NEW d \in Dirs PROVE CountedValues(d)' = CountedValues(d)
    OBVIOUS
  <2>1. \A e \in Dirs : CountedValues(d)'[e] = CountedValues(d)[e]
    BY <1>4 DEF CountedValues, Present
  <2> QED BY <2>1 DEF CountedValues
<1> QED BY <1>1, <1>4, <1>5

(* It is enough to look at the request that takes the step: while another  *)
(* one is alone, it takes none.                                            *)
LEMMA RepairGoes ==
  ASSUME RepairInv, TypeInv', NEW r \in Requests, Active(r), NEW n, QueryOK(n), Go(r, n),
         n.pc # "idle" => n.alone = req[r].alone, n.alone /\ req[r].alone => Repairing(n)'
  PROVE  RepairInv'
<1>1. req'[r] = n /\ \A u \in Requests \ {r} : req'[u] = req[u]
  BY GoKeeps DEF RepairInv, TypeInv
<1>2. \A u \in Requests : Active(u)' /\ req'[u].alone
                            => \A v \in Requests \ {u} : ~Active(v)'
  BY <1>1 DEF RepairInv, Active
<1>3. Repairing(n)'
  <2>1. CASE n.pc = "idle"
    BY <2>1 DEF Repairing, QueryOK, Placed
  <2>2. CASE n.pc # "idle"
    BY <2>2 DEF Repairing
  <2> QED BY <2>1, <2>2
<1>4. ASSUME NEW u \in Requests \ {r}
      PROVE  Repairing(req[u])'
  <2>1. CASE Active(u)
    <3>1. ~req[u].alone
      BY <1>4, <2>1 DEF RepairInv
    <3> QED BY <1>1, <1>4, <3>1 DEF Repairing
  <2>2. CASE ~Active(u)
    <3>1. req'[u].stage = "none"
      BY <1>1, <1>4, <2>2 DEF RepairInv, TypeInv, Queries, QueryOK, Placed, Active
    <3> QED BY <3>1 DEF Repairing
  <2> QED BY <2>1, <2>2
<1> QED BY <1>1, <1>2, <1>3, <1>4 DEF RepairInv

LEMMA MetadataRepairs ==
  ASSUME RepairInv, NEW r \in Requests, MetadataStep(r)
  PROVE  RepairInv'
<1> DEFINE q == req[r]
<1>1. /\ TypeInv /\ TypeInv' /\ meta \in [Dirs -> Meta \cup {None}] /\ Standing(own)
      /\ own \in [Dirs -> Nat \cup {None}]
      /\ cache \in [Dirs -> Int \cup {None}] /\ Active(r) /\ own' = own
  BY TypesMetadata, TypesNow, MetadataIs DEF RepairInv
<1>2. PICK n : QueryOK(n) /\ Go(r, n) /\ OnList(q, n)
  BY <1>1, MetadataIs
<1>3. QueryOK(q) /\ q \in Query /\ Placed(q) /\ Ready(q) /\ Repairing(q)
  BY <1>1, AtWork DEF RepairInv
<1>4. /\ q.stage \in {"none", "list"} \cup Summing /\ q.left \subseteq Dirs
      /\ q.shown \subseteq Dirs /\ q.values \in [Dirs -> Int \cup {None}]
  BY <1>3 DEF Query, Summing
<1>5. ASSUME NEW routes, OnItsWay(n, q, routes)
      PROVE  /\ n.pc # "idle" => n.alone = q.alone
             /\ n.stage # "list"
  BY <1>5, IdleIs DEF OnItsWay
<1>6. n.pc # "idle" => n.alone = q.alone
  BY <1>2, <1>5 DEF OnList, TakesCached, Evicts, Reads, TakesNone, Counts, Fills, Writes,
         Caches, Sets, SetsCached, Scans, ReadsFlags, Ends, GotAs, Carries, CountedAs, ScannedAs,
         FlagsReadAs, RowDone, RowsReadAs, RefreshedAs
<1> SUFFICES ASSUME q.alone, n.alone, n.stage = "list", n.in.op \in {"recount", "measure"}
             PROVE  Repairing(n)'
  BY <1>1, <1>2, <1>6, RepairGoes DEF Repairing
<1>7. q.stage = "list" /\ n.in = q.in /\ q.pc \notin {"get", "read", "fill"}
  <2>2. q.pc = "flags" => q.stage = "list"
    BY <1>3, <1>4 DEF Placed, OwnPcs, ForwardPcs, RowPcs, Summing
  <2>3. ~RowDone(n, q) \/ q.stage # "rows"
    BY <1>3 DEF RowDone, RefreshedAs, Placed
  <2>1. q.stage = "list" /\ n.in = q.in
    BY <1>2, <1>5, <2>2, <2>3 DEF OnList, TakesCached, Evicts, Reads, TakesNone, Counts, Fills,
         Writes, Caches, Sets, SetsCached, Scans, ReadsFlags, Ends, GotAs, Carries, CountedAs,
         ScannedAs, FlagsReadAs, RowsReadAs, RefreshedAs
  <2> QED BY <1>3, <2>1 DEF Ready
<1>8. /\ \A s \in q.shown : Repaired(s)
      /\ q.pc = "flags" => q.shown = {}
      /\ q.pc \in {"bulk", "many"} => q.values = CountedValues(q.row)
      /\ q.pc = "many" => \A d \in Dirs : q.values[d] # None =>
                            meta[d] # None /\ meta[d].size = q.values[d]
  BY <1>3, <1>7 DEF Repairing
<1>9. /\ \A d \in Dirs : Present(d)' = Present(d) /\ Total(d)' = Total(d)
      /\ \A d \in Dirs : CountedValues(d)' = CountedValues(d)
  BY <1>1, TotalsStay
<1>10. \A s \in Dirs : Below[s] \subseteq Dirs
  BY BelowIs
<1>11. ASSUME NEW s \in Dirs, Repaired(s),
              \A d \in Dirs : Present(d) /\ (meta'[d] # meta[d] \/ cache'[d] # cache[d])
                 => /\ meta'[d] # None /\ meta'[d].size = Total(d)
                    /\ cache'[d] \in {None, cache[d], Total(d)}
       PROVE  Repaired(s)'
  <2> SUFFICES ASSUME NEW d \in Below[s], Present(d)'
               PROVE  /\ meta'[d] # None /\ meta'[d].size = Total(d)'
                      /\ cache'[d] \in {None, Total(d)'}
    BY DEF Repaired
  <2>1. /\ d \in Dirs /\ Present(d) /\ Total(d)' = Total(d)
        /\ meta[d] # None /\ meta[d].size = Total(d) /\ cache[d] \in {None, Total(d)}
    BY <1>9, <1>10, <1>11 DEF Repaired
  <2> QED BY <1>11, <2>1
<1>12. CASE Counts(q, n)
  <2>1. PICK d \in q.left : CountedAs(n, q, d)
    BY <1>12 DEF Counts
  <2>2. meta' = meta /\ cache' = cache /\ n.shown = q.shown /\ n.pc = "bulk"
        /\ n.values = CountedValues(n.row) /\ n.row \in Dirs
    BY <1>4, <1>12, <2>1 DEF Counts, CountedAs
  <2>3. \A s \in n.shown : Repaired(s)'
    BY <1>4, <1>8, <1>11, <2>2
  <2> QED BY <1>9, <2>2, <2>3 DEF Repairing
<1>13. CASE Writes(q, n)
  <2>1. /\ q.pc = "bulk" /\ cache' = cache /\ n.pc = "many" /\ n.shown = q.shown
        /\ n.values = q.values /\ n.row = q.row /\ q.row \in Dirs
    BY <1>3, <1>4, <1>7, <1>13 DEF Writes, Carries, Ready
  <2>2. ASSUME NEW d \in Dirs
        PROVE  /\ q.values[d] = None => meta'[d] = meta[d]
               /\ q.values[d] # None => meta'[d] # None /\ meta'[d].size = q.values[d]
    <3>1. meta'[d] = IF q.values[d] = None THEN meta[d] ELSE Sized(meta[d], q.values[d])
      BY <1>13 DEF Writes
    <3>2. CASE q.values[d] # None
      <4>1. q.values[d] \in Int /\ meta[d] \in Meta \cup {None}
        BY <1>1, <1>4, <3>2
      <4>2. /\ Sized(meta[d], q.values[d]) # None
            /\ Sized(meta[d], q.values[d]).size = q.values[d]
        BY <4>1, SizedIs
      <4> QED BY <3>1, <3>2, <4>2
    <3> QED BY <3>1, <3>2
  <2>3. \A d \in Dirs : q.values[d] # None => q.values[d] = Total(d)
    BY <1>8, <2>1 DEF CountedValues
  <2>4. \A s \in n.shown : Repaired(s)'
    BY <1>4, <1>8, <1>11, <2>1, <2>2, <2>3
  <2>5. n.values = CountedValues(n.row)'
    BY <1>8, <1>9, <2>1
  <2> QED BY <2>1, <2>2, <2>4, <2>5 DEF Repairing
<1>14. CASE Caches(q, n)
  <2>1. q.pc = "many" /\ meta' = meta /\ q.row \in q.left /\ q.row \in Dirs
    BY <1>3, <1>4, <1>7, <1>14 DEF Caches, Ready
  <2>2. \A d \in Dirs : cache'[d] = IF q.values[d] = None THEN cache[d] ELSE q.values[d]
    BY <1>14 DEF Caches
  <2>3. GotAs(n, q, q.row, q.values[q.row])
    BY <1>7, <1>14 DEF Caches
  <2>4. n.pc \in {"listed", "count", "get"} /\ n.shown \subseteq q.shown \cup {q.row}
    BY <1>7, <2>3 DEF GotAs, Shown
  <2>5. \A d \in Dirs : q.values[d] # None =>
          q.values[d] = Total(d) /\ meta[d] # None /\ meta[d].size = Total(d)
    BY <1>8, <2>1 DEF CountedValues
  <2>6. \A s \in q.shown : Repaired(s)'
    BY <1>4, <1>8, <1>11, <2>1, <2>2, <2>5
  <2>8. PICK row \in Dirs : row = q.row
    BY <2>1
  <2>7. Repaired(row)'
    <3> SUFFICES ASSUME NEW d \in Below[row], Present(d)'
                 PROVE  /\ meta'[d] # None /\ meta'[d].size = Total(d)'
                        /\ cache'[d] \in {None, Total(d)'}
      BY DEF Repaired
    <3>1. d \in Dirs /\ Present(d) /\ Total(d)' = Total(d)
      BY <1>9, <1>10
    <3>5. PICK i \in 1..Len(Up[d]) : Up[d][i] = row
      BY DEF Below
    <3>2. Present(row)
      BY <1>1, <3>1, <3>5 DEF Standing, Present
    <3>3. q.values[d] = Total(d)
      BY <1>8, <2>1, <2>8, <3>1, <3>2 DEF CountedValues
    <3>4. q.values[d] # None
      BY <1>1, <3>1, <3>3, HeldFinite, DirMetadataAssumption
    <3> QED BY <2>1, <2>2, <2>5, <3>1, <3>3, <3>4
  <2> QED BY <2>4, <2>6, <2>7, <2>8 DEF Repairing
<1>15. CASE ReadsFlags(q, n)
  <2>1. n.shown = {} /\ n.pc \in {"listed", "count", "get"}
    BY <1>7, <1>8, <1>15 DEF ReadsFlags, FlagsReadAs, RowsReadAs
  <2> QED BY <2>1 DEF Repairing
<1>16. ~Ends(q, n) /\ ~SetsCached(q, n) /\ ~Scans(q, n)
  BY <1>3, <1>5, <1>7 DEF Ends, SetsCached, Scans, Placed, ListPcs
<1>17. ~Sets(q, n)
  BY <1>3, <1>7 DEF Sets, Placed, ListPcs
<1>18. ~TakesCached(q, n) /\ ~Evicts(q, n) /\ ~Reads(q, n) /\ ~TakesNone(q, n) /\ ~Fills(q, n)
  BY <1>7 DEF TakesCached, Evicts, Reads, TakesNone, Fills
<1> QED BY <1>2, <1>12, <1>13, <1>14, <1>15, <1>16, <1>17, <1>18 DEF OnList

LEMMA DirectoryRepairs ==
  ASSUME RepairInv, NEW r \in Requests, DirectoryStep(r)
  PROVE  RepairInv'
<1> DEFINE q == req[r]
<1>1. TypeInv /\ TypeInv' /\ Active(r)
  BY TypesDirectory, DirectoryIs DEF RepairInv
<1>2. PICK n : QueryOK(n) /\ Go(r, n) /\ OnOwn(q, n)
  BY <1>1, DirectoryIs
<1>3. ASSUME NEW routes, OnItsWay(n, q, routes)
      PROVE  (n.pc # "idle" => n.alone = q.alone) /\ n.stage # "list"
  BY <1>3, IdleIs DEF OnItsWay
<1>4. (n.pc # "idle" => n.alone = q.alone) /\ n.stage # "list"
  BY <1>2, <1>3, IdleIs DEF OnOwn, Unlinks, Clears, Removes, Forgets, Uncaches, SetsFlags,
         FindsTaken, StaysAs
<1>5. Repairing(n)'
  BY <1>4 DEF Repairing
<1> QED BY <1>1, <1>2, <1>4, <1>5, RepairGoes

LEMMA AskingRepairs ==
  ASSUME RepairInv, NEW r \in Requests, Asking(r)
  PROVE  RepairInv'
<1>0. PICK n : n = req'[r]
  OBVIOUS
<1>1. TypeInv /\ TypeInv'
  BY TypesAsking DEF RepairInv
<1>2. /\ Beginning(n, own, own') /\ UNCHANGED <<meta, cache>> /\ ~Active(r) /\ QueryOK(n)
      /\ \A u \in Requests \ {r} : req'[u] = [req[u] EXCEPT !.alone = req[u].alone /\ ~Active(u)]
      /\ n.alone => \A u \in Requests \ {r} : ~Active(u)
  BY <1>0, <1>1, AskingIs
<1>3. ASSUME NEW u \in Requests \ {r}
      PROVE  /\ Alike(req'[u], req[u]) /\ (req'[u].alone => ~Active(u))
             /\ req[u].pc = "idle" => req[u].stage = "none"
  <2>1. req[u] \in Query /\ (req[u].alone /\ ~Active(u)) \in BOOLEAN /\ Placed(req[u])
    BY <1>1 DEF TypeInv, Queries, QueryOK
  <2>2. req'[u] = [req[u] EXCEPT !.alone = req[u].alone /\ ~Active(u)]
    BY <1>2
  <2>3. Alike(req'[u], req[u]) /\ req'[u].alone = (req[u].alone /\ ~Active(u))
    BY <2>1, <2>2, AloneIs
  <2> QED BY <2>1, <2>3 DEF Placed
<1>4. \A u \in Requests \ {r} : Active(u)' = Active(u)
  BY <1>3 DEF Active, Alike
<1>5. Repairing(n)'
  <2>1. CASE Listing(n, own, own')
    BY <2>1 DEF Listing, Repairing
  <2>2. CASE Measuring(n, own, own')
    <3>1. n.row \in Dirs /\ own' = own /\ n.values = CountedValues(n.row) /\ n.shown = {}
          /\ n.pc = "bulk"
      BY <1>2, <2>2, DirMetadataAssumption DEF Measuring, QueryOK, Placed
    <3>2. n.values = CountedValues(n.row)'
      BY <3>1, TotalsStay
    <3> QED BY <3>1, <3>2 DEF Repairing
  <2>3. CASE Changing(n, own, own') \/ Updating(n, own, own') \/ Creating(n, own, own')
    BY <2>3 DEF Changing, Updating, Creating, Repairing
  <2> QED BY <1>2, <2>1, <2>2, <2>3 DEF Beginning
<1>6. \A u \in Requests : Repairing(req[u])'
  <2>1. ASSUME NEW u \in Requests \ {r} PROVE Repairing(req[u])'
    BY <1>3, <2>1 DEF Repairing, Alike, Active
  <2> QED BY <1>0, <1>5, <2>1
<1>7. \A u \in Requests : Active(u)' /\ req'[u].alone
                            => \A v \in Requests \ {u} : ~Active(v)'
  BY <1>0, <1>2, <1>3, <1>4
<1> QED BY <1>1, <1>6, <1>7 DEF RepairInv

LEMMA RepairInit ==
  ASSUME DirMetadataInit
  PROVE  RepairInv
<1>1. req = [r \in Requests |-> Idle] /\ Idle.pc = "idle" /\ Idle.stage = "none"
  BY IdleIs DEF DirMetadataInit
<1> QED BY <1>1, TypesInit DEF RepairInv, Repairing, Active

LEMMA RepairStep ==
  ASSUME RepairInv, [DirMetadataNext]_vars
  PROVE  RepairInv'
<1>1. CASE DirMetadataNext
  BY <1>1, AskingRepairs, MetadataRepairs, DirectoryRepairs DEF DirMetadataNext
<1>2. CASE UNCHANGED vars
  <2>1. TypeInv'
    BY <1>2, TypesStep DEF RepairInv
  <2>2. own' = own /\ meta' = meta /\ cache' = cache /\ req' = req
    BY <1>2 DEF vars, storeVars
  <2>3. \A r \in Requests : Repairing(req[r])'
    <3> SUFFICES ASSUME NEW r \in Requests PROVE Repairing(req[r])'
      OBVIOUS
    <3>1. req[r] \in Query /\ QueryOK(req[r])
      BY DEF RepairInv, TypeInv, Queries
    <3>2. req[r].shown \subseteq Dirs /\ (req[r].stage = "list" /\ req[r].pc \in {"bulk", "many"}
                                            => req[r].row \in Dirs)
      BY <3>1 DEF Query, QueryOK, Ready
    <3>3. \A s \in Dirs : Repaired(s) => Repaired(s)'
      BY <2>2, TotalsStay, BelowIs DEF Repaired
    <3>4. \A s \in Dirs : CountedValues(s)' = CountedValues(s)
      BY <2>2, TotalsStay
    <3>5. Repairing(req[r])
      BY DEF RepairInv
    <3> QED BY <2>2, <3>2, <3>3, <3>4, <3>5 DEF Repairing
  <2> QED BY <2>1, <2>2, <2>3 DEF RepairInv, Active
<1> QED BY <1>1, <1>2

(* Whatever was recorded or cached before, a recursive count that was      *)
(* alone leaves the right numbers about every directory under the rows it  *)
(* shows.                                                                  *)
THEOREM RecountsRepair == DirMetadataSpec => []RecountRepairs
<1>1. DirMetadataInit => RepairInv
  BY RepairInit
<1>2. RepairInv /\ [DirMetadataNext]_vars => RepairInv'
  BY RepairStep
<1>3. RepairInv => RecountRepairs
  <2> SUFFICES ASSUME RepairInv, NEW r \in Requests, req[r].pc = "listed",
                      req[r].in.op \in {"recount", "measure"}, req[r].alone,
                      NEW s \in req[r].shown
               PROVE  Repaired(s)
    BY DEF RecountRepairs, Repaired, Exactly
  <2>1. QueryOK(req[r]) /\ Repairing(req[r])
    BY DEF RepairInv, TypeInv, Queries
  <2>2. req[r].stage = "list"
    BY <2>1 DEF QueryOK, Placed, OwnPcs, ForwardPcs, RowPcs, Query
  <2> QED BY <2>1, <2>2 DEF Repairing
<1> QED BY <1>1, <1>2, <1>3, PTL DEF DirMetadataSpec

-----------------------------------------------------------------------------
(* The aggregates.                                                         *)

(* What is on record of a directory, and what should be. *)
SizeOf(d) == IF meta[d] = None THEN 0 ELSE meta[d].size
Under(d) == Cardinality(HeldUnder(d))
Right(d) == SizeOf(d) = Under(d) /\ (Present(d) => meta[d] # None)

(* The directories on some ways.  They are in order if nobody is reached   *)
(* whose parent does not come later on the same way.                       *)
Way(d) == {Up[d][i] : i \in 1..Len(Up[d])}
Tidy(routes) ==
  \A i \in 1..Len(routes) : \A j \in 1..Len(routes[i]) :
    /\ Present(routes[i][j])
    /\ Parent(routes[i][j]) # None =>
         \E k \in (j + 1)..Len(routes[i]) : routes[i][k] = Parent(routes[i][j])

(* A directory is under those on its way up. *)
LEMMA WayIs ==
  ASSUME NEW d \in Dirs
  PROVE  /\ Way(d) \subseteq Dirs /\ d \in Way(d)
         /\ \A a \in Dirs : d \in Below[a] <=> a \in Way(d)
         /\ Parent(d) = None => Way(d) = {d}
         /\ Parent(d) # None => Way(Parent(d)) = Way(d) \ {d}
         /\ \A x \in Way(d) : Parent(x) # None => Parent(x) \in Way(d)
<1>1. /\ Len(Up[d]) \in Nat \ {0} /\ Up[d][1] = d
      /\ \A i \in 1..Len(Up[d]) : Up[d][i] \in Dirs
  BY WayUp
<1>2. Way(d) \subseteq Dirs /\ d \in Way(d)
  BY <1>1 DEF Way
<1>3. \A a \in Dirs : d \in Below[a] <=> a \in Way(d)
  BY DEF Below, Way
<1>4. Parent(d) = None => Way(d) = {d}
  BY <1>1, ParentIs DEF Way
<1>5. ASSUME Parent(d) # None PROVE Way(Parent(d)) = Way(d) \ {d}
  <2> DEFINE p == Parent(d)
  <2>1. p \in Dirs /\ p = Up[d][2] /\ Len(Up[d]) # 1
    BY <1>5, ParentIs
  <2>2. 2 \in 1..Len(Up[d])
    <3>1. \A n \in Nat \ {0} : n # 1 => 2 \in 1..n
      OBVIOUS
    <3> QED BY <1>1, <2>1, <3>1, Zenon
  <2>3. /\ Len(Up[p]) = Len(Up[d]) - 1
        /\ \A j \in 1..(Len(Up[d]) - 1) : Up[p][j] = Up[d][j + 1]
    <3>1. /\ Len(Up[Up[d][2]]) = Len(Up[d]) - 2 + 1
          /\ \A j \in 1..(Len(Up[d]) - 2 + 1) : Up[Up[d][2]][j] = Up[d][2 + j - 1]
      BY <2>2, WayUp
    <3>2. Len(Up[d]) - 2 + 1 = Len(Up[d]) - 1 /\ \A j \in 1..(Len(Up[d]) - 1) : 2 + j - 1 = j + 1
      BY <1>1
    <3> QED BY <2>1, <3>1, <3>2
  <2>4. \A i, j \in 1..Len(Up[d]) : Up[d][i] = Up[d][j] => i = j
    BY WayIsTree
  <2> HIDE DEF p
  <2>5. ASSUME NEW x \in Way(p) PROVE x \in Way(d) \ {d}
    <3>1. PICK j \in 1..Len(Up[p]) : Up[p][j] = x
      BY DEF Way
    <3>2. j + 1 \in 1..Len(Up[d]) /\ Up[d][j + 1] = x /\ j + 1 # 1 /\ 1 \in 1..Len(Up[d])
      BY <1>1, <2>3, <3>1
    <3>3. x # d
      BY <1>1, <2>4, <3>2
    <3> QED BY <3>2, <3>3 DEF Way
  <2>6. ASSUME NEW x \in Way(d) \ {d} PROVE x \in Way(p)
    <3>1. PICK i \in 1..Len(Up[d]) : Up[d][i] = x
      BY DEF Way
    <3>2. i # 1
      BY <1>1, <3>1
    <3>3. i - 1 \in 1..Len(Up[p]) /\ Up[p][i - 1] = x
      <4>1. i - 1 \in 1..(Len(Up[d]) - 1)
        BY <1>1, <3>1, <3>2
      <4>2. Up[p][i - 1] = Up[d][(i - 1) + 1] /\ (i - 1) + 1 = i
        BY <2>3, <4>1
      <4> QED BY <2>3, <3>1, <4>1, <4>2
    <3> QED BY <3>3 DEF Way
  <2> QED BY <2>5, <2>6 DEF p
<1>6. ASSUME NEW x \in Way(d), Parent(x) # None PROVE Parent(x) \in Way(d)
  <2>1. PICK i \in 1..Len(Up[d]) : Up[d][i] = x
    BY <1>6 DEF Way
  <2>2. Parent(x) = Up[d][i + 1] /\ i # Len(Up[d])
    BY <1>6, <2>1, WayIsTree
  <2>3. i + 1 \in 1..Len(Up[d])
    BY <1>1, <2>1, <2>2
  <2> QED BY <2>2, <2>3 DEF Way
<1> QED BY <1>2, <1>3, <1>4, <1>5, <1>6

LEMMA AheadOf ==
  ASSUME NEW s, NEW t
  PROVE  /\ Ahead(<<s>>) = {s[j] : j \in 1..Len(s)}
         /\ Ahead(<<s, t>>) = {s[j] : j \in 1..Len(s)} \cup {t[j] : j \in 1..Len(t)}
<1>1. Len(<<s>>) = 1 /\ <<s>>[1] = s /\ 1..1 = {1}
  OBVIOUS
<1>2. Len(<<s, t>>) = 2 /\ <<s, t>>[1] = s /\ <<s, t>>[2] = t /\ 1..2 = {1, 2}
  OBVIOUS
<1>3. Ahead(<<s>>) = {s[j] : j \in 1..Len(s)}
  BY <1>1 DEF Ahead
<1>4. Ahead(<<s, t>>) = {s[j] : j \in 1..Len(s)} \cup {t[j] : j \in 1..Len(t)}
  BY <1>2 DEF Ahead
<1> QED BY <1>3, <1>4

(* The ways up are in order. *)
LEMMA UpIsTidy ==
  ASSUME NEW d \in Dirs, NEW e \in Dirs, Standing(own)
  PROVE  /\ Ahead(<<>>) = {} /\ Tidy(<<>>)
         /\ Ahead(<<Up[d]>>) = Way(d) /\ Ahead(<<Up[d], Up[e]>>) = Way(d) \cup Way(e)
         /\ Present(d) => Tidy(<<Up[d]>>)
         /\ Present(d) /\ Present(e) => Tidy(<<Up[d], Up[e]>>)
<1>1. \A x : x \in Ahead(<<>>) => FALSE
  BY AheadIs
<1>2. Tidy(<<>>)
  BY DEF Tidy
<1>3. Ahead(<<Up[d]>>) = Way(d) /\ Ahead(<<Up[d], Up[e]>>) = Way(d) \cup Way(e)
  BY AheadOf DEF Way
<1>5. ASSUME NEW c \in Dirs, Present(c), NEW j \in 1..Len(Up[c])
      PROVE  /\ Present(Up[c][j])
             /\ Parent(Up[c][j]) # None =>
                  \E k \in (j + 1)..Len(Up[c]) : Up[c][k] = Parent(Up[c][j])
  <2>1. Present(Up[c][j])
    BY <1>5 DEF Standing, Present
  <2>2. Parent(Up[c][j]) = IF j = Len(Up[c]) THEN None ELSE Up[c][j + 1]
    BY WayIsTree
  <2>3. j # Len(Up[c]) => j + 1 \in (j + 1)..Len(Up[c])
    BY WayUp
  <2> QED BY <2>1, <2>2, <2>3
<1>6. Present(d) => Tidy(<<Up[d]>>)
  <2>1. Len(<<Up[d]>>) = 1 /\ <<Up[d]>>[1] = Up[d] /\ 1..1 = {1}
    OBVIOUS
  <2> QED BY <1>5, <2>1 DEF Tidy
<1>7. Present(d) /\ Present(e) => Tidy(<<Up[d], Up[e]>>)
  <2>1. Len(<<Up[d], Up[e]>>) = 2 /\ <<Up[d], Up[e]>>[1] = Up[d] /\ <<Up[d], Up[e]>>[2] = Up[e]
    OBVIOUS
  <2>2. 1..2 = {1, 2}
    OBVIOUS
  <2> QED BY <1>5, <2>1, <2>2 DEF Tidy
<1> QED BY <1>1, <1>2, <1>3, <1>6, <1>7

(* So is the way a batch update takes. *)
LEMMA DeepestIsTidy ==
  ASSUME NEW d \in Dirs, NEW e \in Dirs, Standing(own), Present(d), Present(e),
         NEW route \in DeepestFirst({d, e})
  PROVE  Ahead(<<route>>) = Way(d) \cup Way(e) /\ Tidy(<<route>>)
<1> DEFINE all == Way(d) \cup Way(e)
           n == Cardinality(all)
<1>1. all = UNION {{Up[c][i] : i \in 1..Len(Up[c])} : c \in {d, e}}
  BY DEF Way
<1>2. /\ route \in [1..n -> all]
      /\ \A i, j \in DOMAIN route :
           i < j => route[i] # route[j] /\ Len(Up[route[i]]) >= Len(Up[route[j]])
  BY <1>1 DEF DeepestFirst
<1>3. all \subseteq Dirs /\ IsFiniteSet(all) /\ n \in Nat
  BY WayIs, DirMetadataAssumption, FS_Subset, FS_CardinalityType
<1>4. \A x \in all : Present(x) /\ (Parent(x) # None => Parent(x) \in all)
  <2>1. \A c \in {d, e} : \A x \in Way(c) : Present(x)
    BY DEF Standing, Present, Way
  <2>2. \A c \in {d, e} : \A x \in Way(c) : Parent(x) # None => Parent(x) \in Way(c)
    BY WayIs
  <2> QED BY <2>1, <2>2
<1> HIDE DEF all, n
<1>5. \A i, j \in 1..n : route[i] = route[j] => i = j
  <2>1. DOMAIN route = 1..n
    BY <1>2
  <2>2. \A i, j \in 1..n : i < j \/ j < i \/ i = j
    BY <1>3
  <2> QED BY <1>2, <2>1, <2>2
<1>7. Len(route) = n /\ DOMAIN route = 1..n
  BY <1>2, <1>3
<1>6. \A x \in all : \E k \in 1..n : route[k] = x
  <2>1. route \in Injection(1..n, all)
    BY <1>2, <1>5, <1>7 DEF Injection, IsInjective
  <2>2. Cardinality(1..n) = n
    BY <1>3, FS_Interval
  <2>3. route \in Surjection(1..n, all)
    BY <1>3, <2>1, <2>2, FS_Injection DEF n
  <2> QED BY <2>3 DEF Surjection
<1>8. Len(<<route>>) = 1 /\ <<route>>[1] = route /\ 1..1 = {1}
  OBVIOUS
<1>9. Ahead(<<route>>) = all
  <2>1. Ahead(<<route>>) = {route[j] : j \in 1..n}
    BY <1>7, AheadOf
  <2>2. \A j \in 1..n : route[j] \in all
    BY <1>2
  <2> QED BY <1>6, <2>1, <2>2
<1>10. ASSUME NEW j \in 1..n
       PROVE  /\ Present(route[j])
              /\ Parent(route[j]) # None => \E k \in (j + 1)..n : route[k] = Parent(route[j])
  <2>1. route[j] \in all /\ route[j] \in Dirs /\ Present(route[j])
    BY <1>2, <1>3, <1>4
  <2> SUFFICES ASSUME Parent(route[j]) # None
               PROVE  \E k \in (j + 1)..n : route[k] = Parent(route[j])
    BY <2>1
  <2>2. PICK k \in 1..n : route[k] = Parent(route[j])
    BY <1>4, <1>6, <2>1
  <2>3. Len(Up[route[k]]) = Len(Up[route[j]]) - 1 /\ Len(Up[route[j]]) \in Nat
    BY <2>1, <2>2, ParentIs, WayUp
  <2>4. ~(k < j) /\ k # j
    BY <1>2, <1>7, <2>3
  <2>5. k \in (j + 1)..n
    BY <1>3, <2>4
  <2> QED BY <2>2, <2>5
<1>11. Tidy(<<route>>)
  BY <1>7, <1>8, <1>10 DEF Tidy
<1> QED BY <1>9, <1>11 DEF all

(* Once the first directory is done the others are still ahead, in order;  *)
(* and who has a sub-directory ahead comes again itself.                   *)
LEMMA RestIs ==
  ASSUME NEW q, q.routes \in Routes, q.routes # <<>>, At(q) \in Dirs
  PROVE  /\ At(q) \in Ahead(q.routes)
         /\ Ahead(Rest(q)) \subseteq Ahead(q.routes)
         /\ \A x \in Ahead(q.routes) : x = At(q) \/ x \in Ahead(Rest(q))
         /\ Tidy(q.routes) => Tidy(Rest(q))
         /\ Tidy(q.routes) => \A c \in Ahead(q.routes) :
              c \in Dirs /\ Parent(c) = At(q) => At(q) \in Ahead(Rest(q))
<1>0. PICK rs, first, rest : rs = q.routes /\ first = Head(rs) /\ rest = Rest(q)
  OBVIOUS
<1>1. /\ first \in Seq(Dirs) \ {<<>>} /\ first = rs[1] /\ At(q) = first[1]
      /\ rs \in Routes /\ Len(rs) \in Nat \ {0} /\ Len(first) \in Nat \ {0}
      /\ \A i \in 1..Len(rs) : rs[i] \in Seq(Dirs) /\ Len(rs[i]) \in Nat
  BY <1>0 DEF Routes, At
<1>2. /\ Tail(rs) \in Routes /\ Len(Tail(rs)) = Len(rs) - 1
      /\ \A i \in 1..(Len(rs) - 1) : Tail(rs)[i] = rs[i + 1]
  BY <1>1, HeadTailProperties DEF Routes
<1>3. /\ Tail(first) \in Seq(Dirs) /\ Len(Tail(first)) = Len(first) - 1
      /\ \A j \in 1..(Len(first) - 1) : Tail(first)[j] = first[j + 1]
  BY <1>1, HeadTailProperties
(* Where each place of the old ways is now, and the other way round.       *)
<1>4. ASSUME Tail(first) = <<>>
      PROVE  /\ Ahead(rest) \subseteq Ahead(rs) /\ (Tidy(rs) => Tidy(rest))
             /\ \A i \in 1..Len(rs) : \A j \in 1..Len(rs[i]) :
                  (i = 1 /\ j = 1) \/ rs[i][j] \in Ahead(rest)
  <2>1. rest = Tail(rs) /\ Len(first) = 1
    <3>1. rest = Tail(rs)
      BY <1>0, <1>4 DEF Rest
    <3>2. Len(first) - 1 = 0
      BY <1>3, <1>4
    <3> QED BY <1>1, <3>1, <3>2
  <2>2. ASSUME NEW i \in 1..Len(rest)
        PROVE  i + 1 \in 1..Len(rs) /\ rest[i] = rs[i + 1]
    BY <1>1, <1>2, <2>1
  <2>3. ASSUME NEW i \in 1..Len(rs), NEW j \in 1..Len(rs[i]), ~(i = 1 /\ j = 1)
        PROVE  \E k \in 1..Len(rest) : rest[k] = rs[i]
    <3>1. i # 1
      <4>1. i = 1 => j \in 1..1
        BY <1>1, <2>1, <2>3
      <4> QED BY <2>3, <4>1
    <3>2. i - 1 \in 1..(Len(rs) - 1) /\ (i - 1) + 1 = i
      BY <1>1, <3>1
    <3> QED BY <1>2, <2>1, <3>2
  <2>4. Ahead(rest) \subseteq Ahead(rs)
    BY <2>2, AheadIs
  <2>5. \A i \in 1..Len(rs) : \A j \in 1..Len(rs[i]) :
          (i = 1 /\ j = 1) \/ rs[i][j] \in Ahead(rest)
    BY <2>3, AheadIs
  <2>6. Tidy(rs) => Tidy(rest)
    <3> SUFFICES ASSUME Tidy(rs), NEW i \in 1..Len(rest), NEW j \in 1..Len(rest[i])
                 PROVE  /\ Present(rest[i][j])
                        /\ Parent(rest[i][j]) # None =>
                             \E k \in (j + 1)..Len(rest[i]) : rest[i][k] = Parent(rest[i][j])
      BY DEF Tidy
    <3>1. i + 1 \in 1..Len(rs) /\ rest[i] = rs[i + 1]
      BY <2>2
    <3>2. \A k \in 1..Len(rs[i + 1]) :
            /\ Present(rs[i + 1][k])
            /\ Parent(rs[i + 1][k]) # None =>
                 \E l \in (k + 1)..Len(rs[i + 1]) : rs[i + 1][l] = Parent(rs[i + 1][k])
      BY <3>1 DEF Tidy
    <3> QED BY <3>1, <3>2
  <2> QED BY <2>4, <2>5, <2>6
<1>5. ASSUME Tail(first) # <<>>
      PROVE  /\ Ahead(rest) \subseteq Ahead(rs) /\ (Tidy(rs) => Tidy(rest))
             /\ \A i \in 1..Len(rs) : \A j \in 1..Len(rs[i]) :
                  (i = 1 /\ j = 1) \/ rs[i][j] \in Ahead(rest)
  <2>1. rest = <<Tail(first)>> \o Tail(rs)
    BY <1>0, <1>5 DEF Rest
  <2>2. <<Tail(first)>> \in Routes /\ Len(<<Tail(first)>>) = 1
    BY <1>3, <1>5 DEF Routes
  <2>3. /\ Len(rest) = Len(rs) /\ rest[1] = Tail(first)
        /\ \A i \in 2..Len(rs) : rest[i] = rs[i]
    <3>1. /\ Len(rest) = 1 + (Len(rs) - 1)
          /\ \A i \in 1..(1 + (Len(rs) - 1)) :
               rest[i] = IF i <= 1 THEN <<Tail(first)>>[i] ELSE Tail(rs)[i - 1]
      BY <1>2, <2>1, <2>2, ConcatProperties DEF Routes
    <3>2. rest[1] = Tail(first)
      <4>1. 1 \in 1..(1 + (Len(rs) - 1)) /\ <<Tail(first)>>[1] = Tail(first)
        BY <1>1
      <4> QED BY <3>1, <4>1
    <3>3. ASSUME NEW i \in 2..Len(rs) PROVE rest[i] = rs[i]
      <4>1. i \in 1..(1 + (Len(rs) - 1)) /\ ~(i <= 1) /\ i - 1 \in 1..(Len(rs) - 1)
            /\ (i - 1) + 1 = i
        BY <1>1, <3>3
      <4> QED BY <1>2, <3>1, <4>1
    <3> QED BY <1>1, <3>1, <3>2, <3>3
  <2>0. /\ rest[1] = Tail(first) /\ rs[1] = first /\ Len(rest[1]) = Len(first) - 1
        /\ \A j \in 1..(Len(first) - 1) : rest[1][j] = rs[1][j + 1]
    BY <1>1, <1>3, <2>3
  <2>4. ASSUME NEW i \in 1..Len(rest), NEW j \in 1..Len(rest[i])
        PROVE  \E k \in 1..Len(rs[i]) : rest[i][j] = rs[i][k]
    <3>1. CASE i = 1
      <4>0. j \in 1..(Len(first) - 1)
        BY <2>0, <2>4, <3>1
      <4>1. j + 1 \in 1..Len(rs[1])
        BY <1>1, <2>0, <4>0
      <4>2. rest[i][j] = rs[1][j + 1]
        BY <2>0, <3>1, <4>0
      <4> QED BY <3>1, <4>1, <4>2
    <3>2. CASE i # 1
      BY <1>1, <2>3, <2>4, <3>2
    <3> QED BY <3>1, <3>2
  <2>5. ASSUME NEW i \in 1..Len(rs), NEW j \in 1..Len(rs[i]), ~(i = 1 /\ j = 1)
        PROVE  \E k \in 1..Len(rest[i]) : rest[i][k] = rs[i][j]
    <3>1. CASE i = 1
      <4>1. j - 1 \in 1..(Len(first) - 1) /\ (j - 1) + 1 = j
        BY <1>1, <2>5, <3>1
      <4>2. j - 1 \in 1..Len(rest[1]) /\ rest[1][j - 1] = rs[1][j]
        BY <2>0, <4>1
      <4> QED BY <3>1, <4>2
    <3>2. CASE i # 1
      BY <1>1, <2>3, <2>5, <3>2
    <3> QED BY <3>1, <3>2
  <2>6. Ahead(rest) \subseteq Ahead(rs)
    BY <2>3, <2>4, AheadIs
  <2>7. \A i \in 1..Len(rs) : \A j \in 1..Len(rs[i]) :
          (i = 1 /\ j = 1) \/ rs[i][j] \in Ahead(rest)
    BY <2>3, <2>5, AheadIs
  <2>8. ASSUME Tidy(rs), NEW i \in 1..Len(rest), NEW j \in 1..Len(rest[i])
        PROVE  /\ Present(rest[i][j])
               /\ Parent(rest[i][j]) # None =>
                    \E k \in (j + 1)..Len(rest[i]) : rest[i][k] = Parent(rest[i][j])
    <3>1. CASE i = 1
      <4>1. j + 1 \in 1..Len(rs[1]) /\ rest[i][j] = rs[1][j + 1] /\ Len(rest[i]) = Len(rs[1]) - 1
        <5>1. j \in 1..(Len(first) - 1)
          BY <2>0, <2>8, <3>1
        <5>2. j + 1 \in 1..Len(rs[1])
          BY <1>1, <2>0, <5>1
        <5>3. rest[i][j] = rs[1][j + 1] /\ Len(rest[i]) = Len(rs[1]) - 1
          BY <2>0, <3>1, <5>1
        <5> QED BY <5>2, <5>3
      <4>2. /\ Present(rs[1][j + 1])
            /\ Parent(rs[1][j + 1]) # None =>
                 \E k \in (j + 1 + 1)..Len(rs[1]) : rs[1][k] = Parent(rs[1][j + 1])
        <5>1. 1 \in 1..Len(rs)
          BY <1>1
        <5> QED BY <2>8, <4>1, <5>1 DEF Tidy
      <4> SUFFICES ASSUME Parent(rest[i][j]) # None
                   PROVE  \E k \in (j + 1)..Len(rest[i]) : rest[i][k] = Parent(rest[i][j])
        BY <4>1, <4>2
      <4>3. PICK k \in (j + 1 + 1)..Len(rs[1]) : rs[1][k] = Parent(rs[1][j + 1])
        BY <4>1, <4>2
      <4>4. k - 1 \in (j + 1)..Len(rest[i]) /\ k - 1 \in 1..(Len(first) - 1) /\ (k - 1) + 1 = k
        BY <1>1, <2>8, <4>1
      <4>5. rest[i][k - 1] = rs[1][k]
        BY <2>0, <3>1, <4>4
      <4> QED BY <4>1, <4>3, <4>4, <4>5
    <3>2. CASE i # 1
      <4>1. i \in 1..Len(rs) /\ rest[i] = rs[i]
        BY <1>1, <2>3, <2>8, <3>2
      <4> QED BY <2>8, <4>1 DEF Tidy
    <3> QED BY <3>1, <3>2
  <2>9. Tidy(rs) => Tidy(rest)
    BY <2>8 DEF Tidy
  <2> QED BY <2>6, <2>7, <2>9
<1>6. /\ Ahead(rest) \subseteq Ahead(rs) /\ (Tidy(rs) => Tidy(rest))
      /\ \A i \in 1..Len(rs) : \A j \in 1..Len(rs[i]) :
           (i = 1 /\ j = 1) \/ rs[i][j] \in Ahead(rest)
  BY <1>4, <1>5
<1>7. At(q) = rs[1][1] /\ 1 \in 1..Len(rs) /\ 1 \in 1..Len(rs[1])
  BY <1>1
<1>8. At(q) \in Ahead(rs)
  BY <1>7, AheadIs
<1>9. \A x \in Ahead(rs) : x = At(q) \/ x \in Ahead(rest)
  BY <1>1, <1>6, AheadIs
<1>10. ASSUME Tidy(rs), NEW c \in Ahead(rs), c \in Dirs, Parent(c) = At(q)
       PROVE  At(q) \in Ahead(rest)
  <2>1. PICK i \in 1..Len(rs) : \E j \in 1..Len(rs[i]) : rs[i][j] = c
    BY <1>10, AheadIs
  <2>2. PICK j \in 1..Len(rs[i]) : rs[i][j] = c
    BY <2>1
  <2>3. Parent(c) # None
    BY <1>10, DirMetadataAssumption
  <2>4. PICK k \in (j + 1)..Len(rs[i]) : rs[i][k] = Parent(c)
    BY <1>10, <2>2, <2>3 DEF Tidy
  <2>5. k \in 1..Len(rs[i]) /\ k # 1
    BY <1>1
  <2> QED BY <1>6, <1>10, <2>4, <2>5
<1> QED BY <1>0, <1>6, <1>8, <1>9, <1>10

-----------------------------------------------------------------------------
(* The videos in a directory and under some of its sub-directories. *)
PartOf(a, ds) == Held(a) \cup UNION {HeldUnder(c) : c \in ds}

LEMMA HeldIs ==
  ASSUME NEW d \in Dirs, NEW x
  PROVE  x \in HeldUnder(d) <=> \E e \in Below[d] : x \in Held(e)
BY DEF HeldUnder

LEMMA UnderIs ==
  ASSUME own \in [Dirs -> Nat \cup {None}], Standing(own), NEW d \in Dirs
  PROVE  /\ IsFiniteSet(HeldUnder(d)) /\ Under(d) \in Nat
         /\ Present(d) => Total(d) = Under(d)
         /\ ~Present(d) => HeldUnder(d) = {} /\ Under(d) = 0
<1>1. IsFiniteSet(HeldUnder(d)) /\ Under(d) \in Nat
  BY HeldFinite, FS_CardinalityType DEF Under
<1>2. Present(d) => Total(d) = Under(d)
  BY DEF Total, Under
<1>3. ASSUME ~Present(d) PROVE HeldUnder(d) = {}
  <2>1. ASSUME NEW e \in Below[d] PROVE Held(e) = {}
    <3>1. e \in Dirs /\ d \in Way(e)
      BY BelowIs, WayIs
    <3>2. ~Present(e)
      BY <1>3, <3>1 DEF Standing, Present, Way
    <3> QED BY <3>2 DEF Held
  <2> QED BY <2>1 DEF HeldUnder
<1>4. ~Present(d) => HeldUnder(d) = {} /\ Under(d) = 0
  BY <1>3, FS_EmptySet DEF Under
<1> QED BY <1>1, <1>2, <1>4

(* The videos of a directory are counted one sub-directory after another:  *)
(* none is under two of them, and all of them make the whole.              *)
LEMMA PartIs ==
  ASSUME own \in [Dirs -> Nat \cup {None}], Standing(own), NEW a \in Dirs, Present(a)
  PROVE  /\ Cardinality(PartOf(a, {})) = own[a]
         /\ PartOf(a, Subs(a)) = HeldUnder(a)
         /\ \A ds \in SUBSET Subs(a) : Cardinality(PartOf(a, ds)) \in Nat
         /\ \A ds \in SUBSET Subs(a) : \A c \in Subs(a) \ ds :
              Cardinality(PartOf(a, ds \cup {c})) = Cardinality(PartOf(a, ds)) + Under(c)
<1>1. Cardinality(PartOf(a, {})) = own[a]
  <2>1. PartOf(a, {}) = {a} \X (1..own[a])
    BY DEF PartOf, Held
  <2>2. PICK k \in Nat : k = own[a]
    BY DEF Present
  <2>3. IsFiniteSet({a}) /\ Cardinality({a}) = 1
    BY FS_Singleton
  <2>4. IsFiniteSet(1..k) /\ Cardinality(1..k) = k
    BY FS_Interval
  <2>5. Cardinality({a} \X (1..k)) = Cardinality({a}) * Cardinality(1..k)
    BY <2>3, <2>4, FS_Product
  <2>6. 1 * k = k
    OBVIOUS
  <2>7. Cardinality({a} \X (1..k)) = k
    BY <2>3, <2>4, <2>5, <2>6, Zenon
  <2> QED BY <2>1, <2>2, <2>7, Zenon
<1>2. Subs(a) \subseteq Dirs /\ \A c \in Subs(a) : Parent(c) = a
  BY DEF Subs
<1>3. PartOf(a, Subs(a)) = HeldUnder(a)
  <2>1. ASSUME NEW x \in PartOf(a, Subs(a)) PROVE x \in HeldUnder(a)
    <3>1. CASE x \in Held(a)
      BY <3>1, BelowIs, HeldIs
    <3>2. CASE \E c \in Subs(a) : x \in HeldUnder(c)
      <4>1. PICK c \in Subs(a) : x \in HeldUnder(c)
        BY <3>2
      <4>2. PICK e \in Below[c] : x \in Held(e)
        BY <1>2, <4>1, HeldIs
      <4>3. e \in Below[a]
        BY <1>2, <4>1, <4>2, BelowIs
      <4> QED BY <4>2, <4>3, HeldIs
    <3> QED BY <2>1, <3>1, <3>2 DEF PartOf
  <2>2. ASSUME NEW x \in HeldUnder(a) PROVE x \in PartOf(a, Subs(a))
    <3>1. PICK e \in Below[a] : x \in Held(e)
      BY <2>2, HeldIs
    <3>2. CASE e = a
      BY <3>1, <3>2 DEF PartOf
    <3>3. CASE e # a
      <4>1. PICK c \in Dirs : Parent(c) = a /\ e \in Below[c]
        BY <3>1, <3>3, BelowIs
      <4>2. x \in HeldUnder(c)
        BY <3>1, <4>1, HeldIs
      <4>3. Present(c)
        BY <4>2, UnderIs
      <4>4. c \in Subs(a)
        BY <4>1, <4>3 DEF Subs
      <4> QED BY <4>2, <4>4 DEF PartOf
    <3> QED BY <3>2, <3>3
  <2> QED BY <2>1, <2>2
<1>4. IsFiniteSet(HeldUnder(a))
  BY UnderIs
<1>5. ASSUME NEW ds \in SUBSET Subs(a)
      PROVE  PartOf(a, ds) \subseteq HeldUnder(a) /\ IsFiniteSet(PartOf(a, ds))
             /\ Cardinality(PartOf(a, ds)) \in Nat
  <2>1. PartOf(a, ds) \subseteq PartOf(a, Subs(a))
    BY DEF PartOf
  <2> QED BY <1>3, <1>4, <2>1, FS_Subset, FS_CardinalityType
<1>6. ASSUME NEW ds \in SUBSET Subs(a), NEW c \in Subs(a) \ ds
      PROVE  Cardinality(PartOf(a, ds \cup {c})) = Cardinality(PartOf(a, ds)) + Under(c)
  <2>1. PartOf(a, ds \cup {c}) = PartOf(a, ds) \cup HeldUnder(c)
    BY DEF PartOf
  <2>2. ASSUME NEW e \in Dirs, NEW f \in Dirs, NEW x, x \in Held(e), x \in Held(f)
        PROVE  e = f
    BY <2>2 DEF Held
  <2>3. PartOf(a, ds) \cap HeldUnder(c) = {}
    <3> SUFFICES ASSUME NEW x \in PartOf(a, ds), x \in HeldUnder(c) PROVE FALSE
      OBVIOUS
    <3>1. PICK f \in Below[c] : x \in Held(f)
      BY <1>2, HeldIs
    <3>2. f \in Dirs /\ f # a
      BY <1>2, <3>1, BelowIs
    <3>3. x \notin Held(a)
      BY <2>2, <3>1, <3>2
    <3>4. PICK b \in ds : x \in HeldUnder(b)
      BY <3>3 DEF PartOf
    <3>5. b \in Dirs /\ b # c /\ Parent(b) = a
      BY <1>2, <3>4
    <3>6. PICK e \in Below[b] : x \in Held(e)
      BY <3>4, <3>5, HeldIs
    <3>7. e \in Dirs /\ e \notin Below[c]
      BY <1>2, <3>5, <3>6, BelowIs
    <3> QED BY <2>2, <3>1, <3>2, <3>6, <3>7
  <2>4. IsFiniteSet(PartOf(a, ds)) /\ Cardinality(PartOf(a, ds)) \in Nat
    BY <1>5
  <2>5. IsFiniteSet(HeldUnder(c)) /\ Cardinality(HeldUnder(c)) \in Nat
    BY <1>2, UnderIs DEF Under
  <2>6. Cardinality({}) = 0
    BY FS_EmptySet
  <2>7. Cardinality(PartOf(a, ds) \cup HeldUnder(c)) =
          Cardinality(PartOf(a, ds)) + Cardinality(HeldUnder(c)) - 0
    BY <2>3, <2>4, <2>5, <2>6, FS_Union
  <2>8. \A i, j \in Nat : i + j - 0 = i + j
    OBVIOUS
  <2>9. Cardinality(HeldUnder(c)) = Under(c)
    BY DEF Under
  <2> QED BY <2>1, <2>4, <2>5, <2>7, <2>8, <2>9, Zenon
<1> QED BY <1>1, <1>3, <1>5, <1>6

(* A change in one directory changes the numbers on the way up from it,    *)
(* and no others.                                                          *)
LEMMA UnderStays ==
  ASSUME NEW ds \in SUBSET Dirs, \A e \in Dirs \ ds : Held(e)' = Held(e),
         NEW a \in Dirs, \A d \in ds : a \notin Way(d)
  PROVE  Under(a)' = Under(a)
<1>1. \A e \in Below[a] : e \in Dirs /\ e \notin ds
  BY BelowIs, WayIs
<1>2. HeldUnder(a)' = HeldUnder(a)
  BY <1>1 DEF HeldUnder
<1> QED BY <1>2 DEF Under

LEMMA OneChanges ==
  ASSUME NEW d \in Dirs, \A e \in Dirs \ {d} : own'[e] = own[e]
  PROVE  \A a \in Dirs \ Way(d) : Under(a)' = Under(a)
<1>1. \A e \in Dirs \ {d} : Held(e)' = Held(e)
  BY DEF Held, Present
<1> SUFFICES ASSUME NEW a \in Dirs \ Way(d) PROVE Under(a)' = Under(a)
  OBVIOUS
<1>2. /\ {d} \in SUBSET Dirs /\ a \in Dirs /\ \A x \in {d} : a \notin Way(x)
  OBVIOUS
<1> QED BY <1>1, <1>2, UnderStays

(* One that takes or brings no videos changes none.                        *)
LEMMA NoneChanges ==
  ASSUME \A e \in Dirs : Held(e)' = Held(e)
  PROVE  \A a \in Dirs : Under(a)' = Under(a)
<1>1. \A a \in Dirs : HeldUnder(a)' = HeldUnder(a)
  BY BelowIs DEF HeldUnder
<1> QED BY <1>1 DEF Under

LEMMA TidyStays ==
  ASSUME \A e \in Dirs : Present(e)' = Present(e), NEW routes \in Routes
  PROVE  Tidy(routes) => Tidy(routes)'
<1>1. \A i \in 1..Len(routes) : \A j \in 1..Len(routes[i]) : routes[i][j] \in Dirs
  BY DEF Routes
<1> QED BY <1>1 DEF Tidy

LEMMA FilesStay ==
  ASSUME own' = own
  PROVE  /\ \A d : Present(d)' = Present(d) /\ Held(d)' = Held(d) /\ Under(d)' = Under(d)
         /\ \A d : Subs(d)' = Subs(d)
         /\ \A a, ds : PartOf(a, ds)' = PartOf(a, ds)
         /\ \A rs : Tidy(rs)' = Tidy(rs)
BY DEF Present, Held, Under, HeldUnder, Subs, PartOf, Tidy

-----------------------------------------------------------------------------
(* Where the record of a directory may be wrong for the time being: on the *)
(* way up from what a request has changed, and where it has yet to come.   *)
Stale(q) ==
  IF q.stage = "forward" THEN Ahead(IF q.pc \in {"many", "set", "cache"} THEN Rest(q) ELSE q.routes)
  ELSE IF q.pc = "unlink" /\ q.in.op = "move" THEN Way(q.in.to)
  ELSE IF q.pc = "mark" /\ q.in.op = "create" THEN {q.in.dir}
  ELSE IF q.pc = "uncache" THEN Way(q.in.dir) \ {q.in.dir}
  ELSE IF \/ q.stage = "list" /\ q.in.op = "find"
          \/ q.pc = "mark" /\ q.in.op = "keep folder"
          \/ q.pc \in {"mark", "remove"} /\ q.value = 1
          \/ q.pc = "forget"
  THEN Way(q.in.dir) ELSE {}

(* A listing counts directories that are there. *)
SoundList(q) ==
  q.stage = "list" =>
    /\ Present(q.in.dir) /\ \A d \in q.left : Present(d)
    /\ q.pc = "bulk" => q.values = CountedValues(q.row)

(* A forward update has the sum of its directory and of the sub-           *)
(* directories it has asked about, unless it comes here again; so has a    *)
(* row of a refresh.                                                       *)
Again(q) == q.stage = "forward" /\ At(q) \in Ahead(Rest(q))
SoundSum(q) ==
  /\ q.pc \in {"get", "read", "fill"} =>
       /\ q.left \subseteq Subs(At(q))
       /\ \/ q.total = Cardinality(PartOf(At(q), Subs(At(q)) \ q.left))
          \/ q.total \in Nat /\ Again(q)
  /\ q.pc = "bulk" =>
       \/ q.total = Under(At(q))
       \/ q.total \in Nat /\ Again(q)
  /\ q.pc \in {"get", "read", "fill", "bulk"} =>
       \A c \in Dirs \ {At(q)} : q.values[c] # None => q.values[c] = SizeOf(c)
SoundForward(q) ==
  q.stage = "forward" =>
    /\ Tidy(q.routes) /\ SoundSum(q)
    /\ q.pc = "scan" => q.values = NoValues
    /\ q.pc = "many" => q.total \in Nat
SoundRows(q) ==
  q.stage = "rows" =>
    /\ Present(q.in.dir) /\ \A d \in Ahead(q.routes) : Present(d)
    /\ SoundSum(q)
    /\ q.pc = "scan" => q.values = NoValues

(* What a request is about to do with its directory. *)
SoundOwn(q) ==
  /\ q.pc \in {"unlink", "clear", "remove", "mark", "taken"} => Present(q.in.dir)
  /\ q.pc = "unlink" /\ q.in.op = "move" => Present(q.in.to)
  /\ q.pc \in {"forget", "uncache"} =>
       ~Present(q.in.dir) /\ (Parent(q.in.dir) # None => Present(Parent(q.in.dir)))
  /\ q.pc = "mark" /\ q.in.op = "create" => SizeOf(q.in.dir) = Under(q.in.dir)

Sound(q) == SoundList(q) /\ SoundForward(q) /\ SoundRows(q) /\ SoundOwn(q)

Exact ==
  /\ \A d \in Dirs : SizeOf(d) \in Nat
  /\ \A r \in Requests : Sound(req[r])
  /\ \A d \in Dirs : Right(d) \/ \E r \in Requests : d \in Stale(req[r])
AggregateInv == CacheInv /\ (~overlap /\ ~neglected => Exact)

(* It is enough to look at the request that takes the step. *)
LEMMA ExactGoes ==
  ASSUME AggregateInv, CacheInv', ~overlap, ~neglected,
         NEW r \in Requests, Active(r), NEW n, QueryOK(n), Go(r, n), Sound(n)',
         \A d \in Dirs : SizeOf(d)' \in Nat,
         \A d \in Dirs : Right(d) \/ d \in Stale(req[r]) => Right(d)' \/ d \in Stale(n)
  PROVE  Exact'
<1>1. /\ req'[r] = n /\ \A u \in Requests \ {r} : req'[u] = req[u] /\ req[u].pc = "idle"
  BY SoleGoes DEF AggregateInv, CacheInv
<1>2. \A u \in Requests \ {r} : req[u].stage = "none"
  BY <1>1 DEF AggregateInv, CacheInv, TypeInv, Queries, QueryOK, Placed
<1>3. \A u \in Requests \ {r} : Stale(req[u]) = {}
  BY <1>1, <1>2 DEF Stale
<1>4. \A u \in Requests : Sound(req[u])'
  <2>1. ASSUME NEW u \in Requests \ {r} PROVE Sound(req[u])'
    <3>1. req'[u].pc = "idle" /\ req'[u].stage = "none"
      BY <1>1, <1>2
    <3> QED BY <3>1 DEF Sound, SoundList, SoundForward, SoundRows, SoundOwn
  <2> QED BY <1>1, <2>1
<1>5. \A d \in Dirs : Right(d) \/ d \in Stale(req[r])
  BY <1>3 DEF AggregateInv, Exact
<1>6. \A d \in Dirs : Right(d)' \/ d \in Stale(req'[r])
  BY <1>1, <1>5
<1> QED BY <1>4, <1>6 DEF Exact, Stale

(* A request that goes on its way, or ends, with nothing to hide but what  *)
(* is ahead.                                                               *)
LEMMA GoesOn ==
  ASSUME NEW n, NEW q, NEW routes \in Routes, OnItsWay(n, q, routes)
  PROVE  /\ Tidy(routes) => Sound(n)
         /\ Tidy(routes)' => Sound(n)'
         /\ Stale(n) = Ahead(routes)
<1>1. CASE routes = <<>>
  <2>1. n.pc = "idle" /\ n.stage = "none"
    BY <1>1, IdleIs DEF OnItsWay
  <2>2. \A x : x \notin Ahead(routes)
    BY <1>1, AheadIs
  <2> QED BY <2>1, <2>2 DEF Sound, SoundList, SoundForward, SoundRows, SoundOwn, Stale
<1>2. CASE routes # <<>>
  BY <1>2 DEF OnItsWay, Sound, SoundList, SoundForward, SoundSum, SoundRows, SoundOwn,
                    Stale
<1> QED BY <1>1, <1>2

(* As long as files and records stay, a request stays as sound as it was.  *)
LEMMA SoundStays ==
  ASSUME own' = own, \A d \in Dirs : SizeOf(d)' = SizeOf(d), NEW q, QueryOK(q)
  PROVE  Sound(q) => Sound(q)'
<1>1. q \in Query /\ Placed(q) /\ Ready(q)
  BY DEF QueryOK
<1>2. q.stage = "list" /\ q.pc = "bulk" => q.row \in Dirs
  BY <1>1 DEF Query, Ready
<1>3. SoundList(q) => SoundList(q)'
  <2>1. q.stage = "list" /\ q.pc = "bulk" => CountedValues(q.row)' = CountedValues(q.row)
    BY <1>2, TotalsStay
  <2> QED BY <2>1, FilesStay DEF SoundList
<1>4. SoundForward(q) => SoundForward(q)'
  BY FilesStay DEF SoundForward, SoundSum, Again
<1>7. SoundRows(q) => SoundRows(q)'
  BY FilesStay DEF SoundRows, SoundSum, Again
<1>5. q.pc = "mark" => q.in.dir \in Dirs
  BY <1>1, DirMetadataAssumption DEF Placed
<1>6. SoundOwn(q) => SoundOwn(q)'
  BY <1>5, FilesStay DEF SoundOwn
<1> QED BY <1>3, <1>4, <1>6, <1>7 DEF Sound

(* A forward update is told the number of a sub-directory.  If that is not *)
(* right, the sub-directory is still ahead, and so it comes here again.  A *)
(* refresh is never told a wrong one.                                      *)
LEMMA GotSound ==
  ASSUME own \in [Dirs -> Nat \cup {None}], Standing(own),
         NEW q, QueryOK(q), Sound(q), q.stage \in Summing, q.pc \in {"get", "read", "fill"},
         NEW d \in q.left, SizeOf(d) \in Nat, Right(d) \/ d \in Stale(q),
         NEW n, QueryOK(n), GotAs(n, q, d, SizeOf(d))
  PROVE  Sound(n) /\ Stale(n) = Stale(q)
<1> DEFINE a == At(q)
           i == SizeOf(d)
<1>1. q \in Query /\ q.routes # <<>> /\ q.routes \in Routes /\ q.in \in Inputs
  BY DEF QueryOK, Query, Placed, Routes, Summing
<1>2. a \in Dirs /\ d \in Dirs
  BY <1>1, OnwardIs DEF Query
<1>3. /\ q.stage = "forward" => Tidy(q.routes)
      /\ q.stage = "rows" => Present(q.in.dir) /\ \A x \in Ahead(q.routes) : Present(x)
      /\ SoundSum(q) /\ q.stage \in {"forward", "rows"}
  BY DEF Sound, SoundForward, SoundRows, Summing
<1>4. /\ n.in = q.in /\ n.stage = q.stage /\ n.routes = q.routes /\ n.left = q.left \ {d}
      /\ n.total = q.total + i /\ n.pc \in {"get", "bulk"}
      /\ n.pc = "bulk" <=> q.left \ {d} = {}
  BY DEF GotAs, Summing
<1>5. /\ At(n) = a /\ Rest(n) = Rest(q) /\ Again(n) = Again(q) /\ Stale(n) = Stale(q)
      /\ Stale(q) = IF q.stage = "forward" THEN Ahead(q.routes) ELSE {}
  BY <1>3, <1>4 DEF At, Rest, Stale, Again
<1>6. /\ a \in Ahead(q.routes)
      /\ q.stage = "forward" /\ d \in Ahead(q.routes) /\ Parent(d) = a => Again(q)
  BY <1>1, <1>2, <1>3, RestIs DEF Again
<1>7. /\ q.left \subseteq Subs(a) /\ d \in Subs(a) /\ Parent(d) = a
      /\ \/ q.total = Cardinality(PartOf(a, Subs(a) \ q.left))
         \/ q.total \in Nat /\ Again(q)
  BY <1>3 DEF SoundSum, Subs
<1>8. Present(a)
  <2>1. PICK k \in 1..Len(q.routes) : \E j \in 1..Len(q.routes[k]) : q.routes[k][j] = a
    BY <1>3, <1>6, AheadIs
  <2>2. q.stage = "forward" => Present(a)
    BY <1>3, <2>1 DEF Tidy
  <2> QED BY <1>3, <1>6, <2>2
<1>9. Cardinality(PartOf(a, Subs(a) \ q.left)) \in Nat /\ q.total \in Nat /\ i \in Nat
  BY <1>2, <1>7, <1>8, PartIs
<1>10. \A c \in Dirs \ {a} : n.values[c] # None => n.values[c] = SizeOf(c)
  <2>1. q.values \in [Dirs -> Int \cup {None}]
    BY <1>1 DEF Query
  <2>2. \A c \in Dirs \ {a} : n.values[c] = IF c = d THEN i ELSE q.values[c]
    BY <1>2, <2>1 DEF GotAs
  <2> QED BY <1>3, <2>2 DEF SoundSum
<1>11. /\ n.left # {} => \/ n.total = Cardinality(PartOf(a, Subs(a) \ n.left))
                         \/ n.total \in Nat /\ Again(q)
       /\ n.left = {} => \/ n.total = Under(a)
                         \/ n.total \in Nat /\ Again(q)
  <2>1. CASE Again(q)
    BY <1>4, <1>9, <2>1
  <2>2. CASE ~Again(q)
    <3>1. i = Under(d)
      <4>1. d \notin Stale(q)
        BY <1>5, <1>6, <1>7, <2>2
      <4> QED BY <4>1 DEF Right
    <3>2. Subs(a) \ n.left = (Subs(a) \ q.left) \cup {d} /\ d \notin Subs(a) \ q.left
      BY <1>4, <1>7
    <3>3. Cardinality(PartOf(a, Subs(a) \ n.left))
            = Cardinality(PartOf(a, Subs(a) \ q.left)) + Under(d)
      BY <1>2, <1>7, <1>8, <3>2, PartIs
    <3>4. n.total = Cardinality(PartOf(a, Subs(a) \ n.left))
      BY <1>4, <1>7, <2>2, <3>1, <3>3
    <3>5. n.left = {} => n.total = Under(a)
      <4>1. n.left = {} => Subs(a) \ n.left = Subs(a)
        OBVIOUS
      <4> QED BY <1>2, <1>8, <3>4, <4>1, PartIs DEF Under
    <3> QED BY <3>4, <3>5
  <2> QED BY <2>1, <2>2
<1> HIDE DEF a, i
<1>12. SoundSum(n)
  BY <1>4, <1>5, <1>7, <1>10, <1>11 DEF SoundSum
<1>13. SoundList(n) /\ SoundForward(n) /\ SoundRows(n) /\ SoundOwn(n)
  BY <1>3, <1>4, <1>12 DEF SoundList, SoundForward, SoundRows, SoundOwn
<1> QED BY <1>5, <1>13 DEF Sound

(* The numbers a listing or a forward update writes are what they should   *)
(* be, but for those it comes to again.                                    *)
LEMMA MetadataExact ==
  ASSUME AggregateInv, NEW r \in Requests, MetadataStep(r), ~overlap, ~neglected
  PROVE  Exact'
<1> DEFINE q == req[r]
<1>1. /\ TypeInv /\ CacheInv /\ CacheInv' /\ meta \in [Dirs -> Meta \cup {None}] /\ Standing(own)
      /\ own \in [Dirs -> Nat \cup {None}] /\ cache \in [Dirs -> Int \cup {None}]
      /\ Active(r) /\ own' = own
  BY MetadataAgrees, TypesNow, MetadataIs DEF AggregateInv, CacheInv
<1>2. PICK n : QueryOK(n) /\ Go(r, n) /\ OnList(q, n)
  BY <1>1, MetadataIs
<1>3. QueryOK(q) /\ q \in Query /\ q.in \in Inputs /\ Placed(q) /\ Ready(q)
  BY <1>1, AtWork
<1>4. /\ q.stage \in {"none", "list"} \cup Summing /\ q.left \subseteq Dirs
      /\ q.values \in [Dirs -> Int \cup {None}] /\ q.value \in Int /\ q.total \in Int
      /\ q.routes \in Routes /\ None \notin Int /\ q.in.dir \in Dirs
      /\ q.pc \in {"read", "fill"} => q.row \in q.left
  BY <1>3, DirMetadataAssumption DEF Query, Routes, Ready, Summing
<1>5. Matches(q) /\ Sound(q) /\ \A d \in Dirs : SizeOf(d) \in Nat
  BY DEF AggregateInv, CacheInv, Exact
<1>6. \A d \in Dirs : Right(d) \/ d \in Stale(q)
  <2>1. \A u \in Requests \ {r} : req[u].pc = "idle" /\ req[u].stage = "none"
    BY <1>1 DEF CacheInv, Sole, Active, TypeInv, Queries, QueryOK, Placed
  <2>2. \A u \in Requests \ {r} : Stale(req[u]) = {}
    BY <2>1 DEF Stale
  <2> QED BY <2>2 DEF AggregateInv, Exact
<1>7. q.pc \notin OwnPcs \cup {"idle"} => q.stage \in {"list"} \cup Summing
  BY <1>3, <1>4 DEF Placed
<1>8. q.stage = "forward" => /\ q.routes # <<>> /\ At(q) \in Dirs /\ Rest(q) \in Routes
                             /\ Tidy(q.routes) /\ Present(At(q)) /\ Tidy(Rest(q))
  <2> SUFFICES ASSUME q.stage = "forward"
               PROVE  /\ q.routes # <<>> /\ At(q) \in Dirs /\ Rest(q) \in Routes
                      /\ Tidy(q.routes) /\ Present(At(q)) /\ Tidy(Rest(q))
    OBVIOUS
  <2>1. q.routes # <<>> /\ At(q) \in Dirs /\ Rest(q) \in Routes /\ Tidy(q.routes)
    BY <1>3, <1>5, OnwardIs DEF Placed, Sound, SoundForward
  <2>2. At(q) \in Ahead(q.routes) /\ Tidy(Rest(q))
    BY <1>4, <2>1, RestIs
  <2>3. PICK k \in 1..Len(q.routes) : \E j \in 1..Len(q.routes[k]) : q.routes[k][j] = At(q)
    BY <2>2, AheadIs
  <2> QED BY <2>1, <2>2, <2>3 DEF Tidy
<1>26. q.stage = "rows" =>
         /\ q.routes # <<>> /\ At(q) \in Dirs /\ Present(At(q)) /\ Present(q.in.dir)
         /\ q.in.op = "refresh" /\ Stale(q) = {} /\ q.pc \in RowPcs
         /\ Tail(q.routes) \in Routes /\ \A x \in Ahead(Tail(q.routes)) : Present(x)
  <2> SUFFICES ASSUME q.stage = "rows"
               PROVE  /\ q.routes # <<>> /\ At(q) \in Dirs /\ Present(At(q)) /\ Present(q.in.dir)
                      /\ q.in.op = "refresh" /\ Stale(q) = {} /\ q.pc \in RowPcs
                      /\ Tail(q.routes) \in Routes /\ \A x \in Ahead(Tail(q.routes)) : Present(x)
    OBVIOUS
  <2>1. q.routes # <<>> /\ Single(q.routes) /\ q.in.op = "refresh" /\ q.pc \in RowPcs
    BY <1>3 DEF Placed
  <2>2. /\ Tail(q.routes) \in Routes /\ At(q) \in Dirs
        /\ Ahead(q.routes) = {At(q)} \cup Ahead(Tail(q.routes))
    BY <1>4, <2>1, RowsLeftAre
  <2>3. Present(q.in.dir) /\ \A x \in Ahead(q.routes) : Present(x)
    BY <1>5 DEF Sound, SoundRows
  <2>4. Stale(q) = {}
    BY <2>1 DEF Stale, RowPcs
  <2> QED BY <2>1, <2>2, <2>3, <2>4
<1>27. q.stage \in Summing =>
         /\ At(q) \in Dirs /\ Present(At(q)) /\ SoundSum(q)
         /\ q.pc = "scan" => q.values = NoValues
  BY <1>5, <1>8, <1>26 DEF Sound, SoundForward, SoundRows, Summing
(* What is enough to show, and what is enough where no record changes.     *)
<1>9. SUFFICES /\ Sound(n)' /\ \A d \in Dirs : SizeOf(d)' \in Nat
               /\ \A d \in Dirs : Right(d) \/ d \in Stale(q) => Right(d)' \/ d \in Stale(n)
  BY <1>1, <1>2, ExactGoes
<1>10. ASSUME meta' = meta, Sound(n), Stale(q) \subseteq Stale(n)
       PROVE  /\ Sound(n)' /\ \A d \in Dirs : SizeOf(d)' \in Nat
              /\ \A d \in Dirs : Right(d) \/ d \in Stale(q) => Right(d)' \/ d \in Stale(n)
  <2>1. \A d \in Dirs : SizeOf(d)' = SizeOf(d)
    BY <1>10 DEF SizeOf
  <2>2. \A d \in Dirs : Right(d)' = Right(d)
    BY <1>1, <1>10, <2>1, FilesStay DEF Right
  <2> QED BY <1>1, <1>2, <1>5, <1>10, <2>1, <2>2, SoundStays
<1>11. ASSUME NEW d, NEW i, GotAs(n, q, d, i), q.stage = "list"
       PROVE  Sound(n) /\ Stale(n) = Stale(q)
  <2>1. /\ n.stage = "list" /\ n.in = q.in /\ n.left \subseteq q.left
        /\ n.pc \in {"listed", "count", "get"} /\ q.pc \in ListPcs
    BY <1>3, <1>11 DEF GotAs, Placed
  <2> QED BY <1>5, <1>11, <2>1 DEF Sound, SoundList, SoundForward, SoundRows, SoundOwn, Stale, ListPcs
<1>12. ASSUME NEW d \in q.left, GotAs(n, q, d, SizeOf(d)), q.pc \in {"get", "read", "fill"}
       PROVE  Sound(n) /\ Stale(n) = Stale(q)
  <2>1. CASE q.stage = "list"
    BY <1>11, <1>12, <2>1
  <2>2. CASE q.stage \in Summing
    BY <1>1, <1>2, <1>3, <1>4, <1>5, <1>6, <1>12, <2>2, GotSound
  <2> QED BY <1>7, <1>12, <2>1, <2>2 DEF OwnPcs
<1>13. ASSUME Carries(n, q), \/ q.pc \in {"get", "read"} /\ n.pc \in {"read", "fill"}
                             \/ q.pc \in {"many", "set"} /\ n.pc \in {"set", "cache"}
                                  /\ q.stage = "forward"
       PROVE  Sound(n) /\ Stale(n) = Stale(q)
  <2>1. /\ n.stage = q.stage /\ n.in = q.in /\ n.left = q.left /\ n.routes = q.routes
        /\ n.total = q.total /\ n.values = q.values /\ At(n) = At(q) /\ Rest(n) = Rest(q)
    BY <1>13 DEF Carries, At, Rest
  <2>2. Stale(n) = Stale(q)
    BY <1>13, <2>1 DEF Stale
  <2>3. SoundList(n) /\ SoundOwn(n)
    BY <1>5, <1>13, <2>1 DEF Sound, SoundList, SoundOwn
  <2>4. SoundForward(n)
    BY <1>5, <1>13, <2>1 DEF Sound, SoundForward, SoundSum, Again
  <2>5. SoundRows(n)
    BY <1>5, <1>13, <2>1 DEF Sound, SoundRows, SoundSum, Again
  <2> QED BY <2>2, <2>3, <2>4, <2>5 DEF Sound
<1>14. CASE TakesCached(q, n)
  <2>1. PICK d \in q.left : cache[d] # None /\ GotAs(n, q, d, cache[d])
    BY <1>14 DEF TakesCached
  <2>2. q.pc = "get" /\ meta' = meta
    BY <1>14 DEF TakesCached
  <2>3. Agrees(d)
    <3>1. \A u \in Requests \ {r} : req[u].pc = "idle"
      BY <1>1 DEF CacheInv, Sole, Active
    <3> QED BY <1>1, <1>4, <2>2, <3>1 DEF CacheInv, Pending
  <2>4. cache[d] = SizeOf(d)
    BY <2>1, <2>3 DEF Agrees, SizeOf
  <2> QED BY <1>10, <1>12, <2>1, <2>2, <2>4
<1>15. CASE Evicts(q, n) \/ Reads(q, n)
  BY <1>10, <1>13, <1>15 DEF Evicts, Reads
<1>16. CASE TakesNone(q, n)
  <2>1. q.pc = "read" /\ meta' = meta /\ SizeOf(q.row) = 0 /\ GotAs(n, q, q.row, 0)
    BY <1>16 DEF TakesNone, SizeOf
  <2> QED BY <1>4, <1>10, <1>12, <2>1
<1>17. CASE Fills(q, n)
  <2>1. q.pc = "fill" /\ meta' = meta /\ GotAs(n, q, q.row, q.value)
    BY <1>17 DEF Fills
  <2>2. SizeOf(q.row) = q.value
    BY <1>5, <2>1 DEF Matches, SizeOf
  <2> QED BY <1>4, <1>10, <1>12, <2>1, <2>2
<1>18. CASE Counts(q, n)
  <2>1. PICK d \in q.left : CountedAs(n, q, d)
    BY <1>18 DEF Counts
  <2>2. q.stage = "list" /\ q.pc \in {"read", "count"} /\ meta' = meta
    BY <1>18 DEF Counts
  <2>3. Sound(n) /\ Stale(n) = Stale(q)
    BY <1>5, <2>1, <2>2 DEF CountedAs, Sound, SoundList, SoundForward, SoundRows, SoundOwn, Stale
  <2> QED BY <1>10, <2>2, <2>3
<1>19. CASE ReadsFlags(q, n)
  <2>1. q.pc = "flags" /\ meta' = meta /\ (FlagsReadAs(n, q) \/ RowsReadAs(n, q))
    BY <1>19 DEF ReadsFlags
  <2>2. q.stage = "list"
    BY <1>3, <1>7, <2>1 DEF Placed, OwnPcs, ForwardPcs, RowPcs, Summing
  <2>3. CASE FlagsReadAs(n, q)
    <3>1. /\ n.pc \in {"listed", "count", "get"} /\ n.in = q.in
          /\ n.stage = "list" /\ n.left \subseteq q.left
      BY <2>3 DEF FlagsReadAs
    <3>2. Sound(n) /\ Stale(n) = Stale(q)
      BY <1>5, <2>1, <2>2, <3>1 DEF Sound, SoundList, SoundForward, SoundRows, SoundOwn, Stale
    <3> QED BY <1>10, <2>1, <3>2
  <2>4. CASE RowsReadAs(n, q)
    <3>1. PICK ds \in SUBSET q.left : \E rows \in RowsOf(ds) : RefreshedAs(n, q, rows)
      BY <2>4 DEF RowsReadAs
    <3>2. PICK rows \in RowsOf(ds) : RefreshedAs(n, q, rows)
      BY <3>1
    <3>3. Ahead(rows) = ds
      BY <1>4, RowsAre
    <3>4. Present(q.in.dir) /\ \A x \in Ahead(rows) : Present(x)
      BY <1>5, <2>2, <3>3 DEF Sound, SoundList
    <3>5. Sound(n)
      BY <3>2, <3>4 DEF RefreshedAs, Sound, SoundList, SoundForward, SoundRows, SoundSum, SoundOwn
    <3>6. Stale(q) = {}
      BY <2>1, <2>2, <2>4 DEF RowsReadAs, Stale
    <3> QED BY <1>10, <2>1, <3>5, <3>6
  <2> QED BY <2>1, <2>3, <2>4
<1>20. CASE Ends(q, n)
  <2> DEFINE routes == IF q.in.op = "find" THEN <<Up[q.in.dir]>> ELSE <<>>
  <2>1. q.pc = "listed" /\ meta' = meta /\ OnItsWay(n, q, routes)
    BY <1>20 DEF Ends
  <2>2. q.stage = "list" /\ Present(q.in.dir)
    BY <1>3, <1>5, <1>7, <2>1
       DEF Placed, OwnPcs, ForwardPcs, RowPcs, Summing, Sound, SoundList
  <2>3. routes \in Routes /\ Tidy(routes)
        /\ Ahead(routes) = IF q.in.op = "find" THEN Way(q.in.dir) ELSE {}
    <3>1. <<>> \in Routes /\ <<Up[q.in.dir]>> \in Routes
      BY <1>4, RoutesAre DEF Routes
    <3> QED BY <1>1, <1>4, <2>2, <3>1, UpIsTidy
  <2>4. Stale(q) = IF q.in.op = "find" THEN Way(q.in.dir) ELSE {}
    BY <2>1, <2>2 DEF Stale
  <2> HIDE DEF routes
  <2>5. Sound(n) /\ Stale(n) = Stale(q)
    BY <1>2, <2>1, <2>3, <2>4, GoesOn
  <2> QED BY <1>10, <2>1, <2>5
<1>21. CASE Scans(q, n)
  <2>1. q.pc = "scan" /\ q.stage \in Summing /\ meta' = meta
    BY <1>3, <1>7, <1>21 DEF Scans, Placed, OwnPcs, ListPcs
  <2>2. ScannedAs(n, q, own[At(q)], Subs(At(q))) /\ q.values = NoValues
    BY <1>21, <1>27, <2>1 DEF Scans, Present
  <2>3. /\ n.in = q.in /\ n.stage = q.stage /\ n.routes = q.routes /\ n.left = Subs(At(q))
        /\ n.total = own[At(q)] /\ n.pc \in {"get", "bulk"}
        /\ n.pc = "bulk" <=> Subs(At(q)) = {}
        /\ \A c \in Dirs \ {At(q)} : n.values[c] = None
    BY <2>2 DEF ScannedAs, NoValues
  <2>4. At(n) = At(q) /\ Rest(n) = Rest(q) /\ Stale(n) = Stale(q)
    BY <2>1, <2>3 DEF At, Rest, Stale, Summing
  <2>5. /\ Cardinality(PartOf(At(q), {})) = own[At(q)]
        /\ PartOf(At(q), Subs(At(q))) = HeldUnder(At(q))
    BY <1>1, <1>27, <2>1, PartIs
  <2>6. Subs(At(q)) \ n.left = {}
    BY <2>3
  <2>7. SoundSum(n)
    BY <2>3, <2>4, <2>5, <2>6 DEF SoundSum, Under
  <2>8. Sound(n)
    BY <1>5, <1>8, <2>1, <2>3, <2>7
       DEF Sound, SoundList, SoundForward, SoundRows, SoundOwn, Summing
  <2> QED BY <1>10, <2>1, <2>4, <2>8
<1>22. CASE Writes(q, n)
  <2>1. /\ q.pc = "bulk" /\ n.pc = "many" /\ n.in = q.in /\ n.stage = q.stage /\ n.left = q.left
        /\ n.routes = q.routes /\ n.total = q.total /\ At(n) = At(q) /\ Rest(n) = Rest(q)
    BY <1>22 DEF Writes, Carries, At, Rest
  <2>2. ASSUME NEW d \in Dirs
        PROVE  /\ q.values[d] = None => meta'[d] = meta[d]
               /\ q.values[d] # None => meta'[d] # None /\ meta'[d].size = q.values[d]
    <3>1. meta'[d] = IF q.values[d] = None THEN meta[d] ELSE Sized(meta[d], q.values[d])
      BY <1>22 DEF Writes
    <3>2. CASE q.values[d] # None
      <4>1. q.values[d] \in Int /\ meta[d] \in Meta \cup {None}
        BY <1>1, <1>4, <3>2
      <4>2. Sized(meta[d], q.values[d]) # None /\ Sized(meta[d], q.values[d]).size = q.values[d]
        BY <4>1, SizedIs
      <4> QED BY <3>1, <3>2, <4>2
    <3> QED BY <3>1, <3>2
  <2>3. \A d \in Dirs : /\ q.values[d] = None => SizeOf(d)' = SizeOf(d)
                        /\ q.values[d] # None => SizeOf(d)' = q.values[d]
    BY <2>2 DEF SizeOf
  <2>4. \A d \in Dirs : SizeOf(d)' = Under(d) /\ (Present(d) => meta'[d] # None) => Right(d)'
    BY <1>1, FilesStay DEF Right
  <2>5. \A d \in Dirs : Right(d) /\ SizeOf(d)' = SizeOf(d) => Right(d)'
    BY <2>2, <2>4 DEF Right
  <2>6. CASE q.stage = "list"
    <3>1. Present(q.row) /\ q.row \in Dirs /\ q.values = CountedValues(q.row)
      BY <1>3, <1>4, <1>5, <2>1, <2>6 DEF Sound, SoundList, Ready
    <3>2. \A d \in Dirs : q.values[d] # None => Present(d) /\ q.values[d] = Under(d)
      BY <1>1, <3>1, UnderIs DEF CountedValues
    <3>3. \A d \in Dirs : SizeOf(d)' \in Nat
      BY <1>1, <1>5, <2>3, <3>2, UnderIs
    <3>4. \A d \in Dirs : Right(d) => Right(d)'
      <4> SUFFICES ASSUME NEW d \in Dirs, Right(d) PROVE Right(d)'
        OBVIOUS
      <4>1. CASE q.values[d] = None
        BY <2>3, <2>5, <4>1
      <4>2. CASE q.values[d] # None
        BY <2>2, <2>3, <2>4, <3>2, <4>2
      <4> QED BY <4>1, <4>2
    <3>5. Stale(n) = Stale(q)
      BY <2>1, <2>6 DEF Stale
    <3>6. Sound(n)'
      BY <1>1, <1>5, <2>1, <2>6, FilesStay
         DEF Sound, SoundList, SoundForward, SoundRows, SoundOwn
    <3> QED BY <3>3, <3>4, <3>5, <3>6
  <2>7. CASE q.stage \in Summing
    <3>0. PICK a : a = At(q)
      OBVIOUS
    <3>1. /\ a \in Dirs /\ q.values[a] = q.total /\ q.values[a] # None /\ q.total \in Nat
          /\ q.total = Under(a) \/ Again(q)
      BY <1>1, <1>3, <1>4, <1>27, <2>1, <2>7, <3>0, UnderIs DEF SoundSum, Ready
    <3>2. \A d \in Dirs \ {a} : SizeOf(d)' = SizeOf(d)
      BY <1>27, <2>1, <2>3, <2>7, <3>0 DEF SoundSum
    <3>3. SizeOf(a)' = q.total /\ meta'[a] # None
      BY <2>2, <2>3, <3>1
    <3>4. IF q.stage = "forward"
          THEN Stale(n) = Ahead(Rest(q)) /\ Stale(q) = Ahead(q.routes)
          ELSE Stale(q) = {}
      BY <1>26, <2>1, <2>7 DEF Stale, Summing
    <3>5. q.stage = "forward" =>
            /\ \A d \in Ahead(q.routes) : d = a \/ d \in Ahead(Rest(q))
            /\ Tidy(n.routes)'
      BY <1>1, <1>4, <1>8, <2>1, <3>0, RestIs, FilesStay
    <3>6. Right(a)' \/ a \in Stale(n)
      BY <2>4, <3>0, <3>1, <3>3, <3>4 DEF Again
    <3>7. \A d \in Dirs : Right(d) \/ d \in Stale(q) => Right(d)' \/ d \in Stale(n)
      BY <2>5, <3>2, <3>4, <3>5, <3>6
    <3>8. \A d \in Dirs : SizeOf(d)' \in Nat
      BY <1>5, <3>1, <3>2, <3>3
    <3>9. SoundRows(n)'
      BY <1>1, <1>5, <2>1, FilesStay DEF Sound, SoundRows, SoundSum
    <3>10. Sound(n)'
      BY <2>1, <2>7, <3>1, <3>5, <3>9
         DEF Sound, SoundList, SoundForward, SoundSum, SoundOwn, Summing
    <3> QED BY <3>7, <3>8, <3>10
  <2> QED BY <1>7, <2>1, <2>6, <2>7 DEF OwnPcs
<1>23. CASE Caches(q, n)
  <2>1. q.pc = "many" /\ meta' = meta /\ q.stage \in {"list", "forward", "rows"}
    BY <1>7, <1>23 DEF Caches, OwnPcs, Summing
  <2>2. CASE q.stage = "list"
    BY <1>10, <1>11, <1>23, <2>1, <2>2 DEF Caches
  <2>3. CASE q.stage = "forward"
    <3>1. q.total \in Nat /\ Stale(q) = Ahead(Rest(q))
      BY <1>5, <2>1, <2>3 DEF Sound, SoundForward, Stale
    <3>2. CASE OnItsWay(n, q, Rest(q))
      BY <1>2, <1>8, <1>10, <2>1, <2>3, <3>1, <3>2, GoesOn
    <3>3. CASE Carries(n, q) /\ n.pc = "set"
      BY <1>10, <1>13, <2>1, <2>3, <3>3
    <3>4. q.total # -1
      BY <3>1
    <3> QED BY <1>23, <2>3, <3>2, <3>3, <3>4 DEF Caches
  <2>4. CASE q.stage = "rows"
    <3>1. RefreshedAs(n, q, Tail(q.routes))
      BY <1>23, <2>4 DEF Caches, RowDone
    <3>2. Sound(n)
      BY <1>26, <2>4, <3>1
         DEF RefreshedAs, Sound, SoundList, SoundForward, SoundRows, SoundSum, SoundOwn
    <3> QED BY <1>10, <1>26, <2>1, <2>4, <3>2
  <2> QED BY <2>1, <2>2, <2>3, <2>4
<1>24. CASE Sets(q, n)
  <2>1. /\ q.pc = "set" /\ Carries(n, q) /\ n.pc = "cache" /\ q.stage = "forward"
        /\ meta' = [meta EXCEPT ![At(q)] = Sized(meta[At(q)], q.total)]
    BY <1>3, <1>7, <1>24 DEF Sets, Placed, OwnPcs, ListPcs, RowPcs, Summing
  <2>2. PICK a \in Dirs : a = At(q)
    BY <1>8, <2>1
  <2>3. meta[a] # None /\ meta[a].size = q.total
    BY <1>5, <2>1, <2>2 DEF Matches
  <2>4. Sized(meta[a], q.total) # None /\ Sized(meta[a], q.total).size = q.total
    BY <1>1, <1>4, SizedIs
  <2>5. /\ meta'[a] # None /\ meta'[a].size = q.total
        /\ \A d \in Dirs \ {a} : meta'[d] = meta[d]
    BY <1>1, <2>1, <2>2, <2>4
  <2>6. \A d \in Dirs : SizeOf(d)' = SizeOf(d) /\ (meta[d] # None => meta'[d] # None)
    BY <2>3, <2>5 DEF SizeOf
  <2>7. \A d \in Dirs : Right(d) => Right(d)'
    BY <1>1, <2>6, FilesStay DEF Right
  <2>8. Sound(n) /\ Stale(n) = Stale(q)
    BY <1>13, <2>1
  <2>9. Sound(n)'
    BY <1>1, <1>2, <2>6, <2>8, SoundStays
  <2> QED BY <1>5, <2>6, <2>7, <2>8, <2>9
<1>25. CASE SetsCached(q, n)
  <2>1. q.pc = "cache" /\ meta' = meta /\ OnItsWay(n, q, Rest(q)) /\ q.stage = "forward"
    BY <1>3, <1>7, <1>25 DEF SetsCached, Placed, OwnPcs, ListPcs, RowPcs, Summing
  <2>2. Stale(q) = Ahead(Rest(q))
    BY <2>1 DEF Stale
  <2> QED BY <1>2, <1>8, <1>10, <2>1, <2>2, GoesOn
<1> QED BY <1>2, <1>14, <1>15, <1>16, <1>17, <1>18, <1>19, <1>20, <1>21, <1>22, <1>23, <1>24,
           <1>25 DEF OnList

LEMMA ParentRouteIs ==
  ASSUME NEW d \in Dirs, Standing(own)
  PROVE  /\ Present(d) /\ Parent(d) # None => Present(Parent(d))
         /\ (Parent(d) # None => Present(Parent(d))) =>
              /\ ParentRoute(d) \in Routes /\ Tidy(ParentRoute(d))
              /\ Ahead(ParentRoute(d)) = Way(d) \ {d}
<1>1. ASSUME Present(d), Parent(d) # None PROVE Present(Parent(d))
  <2>1. Parent(d) = Up[d][2] /\ Len(Up[d]) # 1 /\ Len(Up[d]) \in Nat \ {0}
    BY <1>1, ParentIs, WayUp
  <2>2. \A n \in Nat \ {0} : n # 1 => 2 \in 1..n
    OBVIOUS
  <2>3. 2 \in 1..Len(Up[d])
    BY <2>1, <2>2, Zenon
  <2> QED BY <1>1, <2>1, <2>3 DEF Standing, Present
<1>2. CASE Parent(d) = None
  <2>1. ParentRoute(d) = <<>> /\ Way(d) = {d}
    BY <1>2, WayIs DEF ParentRoute
  <2>2. <<>> \in Routes
    BY DEF Routes
  <2> QED BY <1>2, <2>1, <2>2, UpIsTidy
<1>3. CASE Parent(d) # None
  <2>1. PICK p \in Dirs : p = Parent(d)
    BY <1>3, ParentIs
  <2>2. ParentRoute(d) = <<Up[p]>> /\ Way(p) = Way(d) \ {d}
    BY <1>3, <2>1, WayIs DEF ParentRoute, Path
  <2>3. <<Up[p]>> \in Routes
    BY <2>1, DirMetadataAssumption DEF Routes
  <2>4. Ahead(<<Up[p]>>) = Way(p) /\ (Present(p) => Tidy(<<Up[p]>>))
    BY UpIsTidy
  <2> QED BY <1>1, <1>3, <2>1, <2>2, <2>3, <2>4
<1> QED BY <1>1, <1>2, <1>3

(* What a request does to its directory makes the records on the way up    *)
(* wrong, and no others; and it goes on with that way.                     *)
LEMMA DirectoryExact ==
  ASSUME AggregateInv, NEW r \in Requests, DirectoryStep(r), ~overlap, ~neglected'
  PROVE  Exact'
<1> DEFINE q == req[r]
<1>0. PICK d : d = req[r].in.dir
  OBVIOUS
<1>1. /\ TypeInv /\ CacheInv /\ CacheInv' /\ meta \in [Dirs -> Meta \cup {None}] /\ Standing(own)
      /\ own \in [Dirs -> Nat \cup {None}] /\ own' \in [Dirs -> Nat \cup {None}]
      /\ Standing(own)' /\ Active(r) /\ q.stage = "none"
  BY DirectoryAgrees, TypesNow, DirectoryIs
     DEF AggregateInv, CacheInv, TypeInv, DirMetadataTypeOK, Standing, Present
<1>2. PICK n : QueryOK(n) /\ Go(r, n) /\ OnOwn(q, n)
  BY <1>1, DirectoryIs
<1>3. /\ QueryOK(q) /\ q \in Query /\ q.in \in Inputs /\ Placed(q) /\ d \in Dirs
      /\ q.in.to \in Dirs /\ None \notin Nat
  BY <1>0, <1>1, AtWork, DirMetadataAssumption
<1>4. ~neglected
  BY <1>2 DEF OnOwn, Unlinks, Clears, Removes, Forgets, Uncaches, SetsFlags, FindsTaken
<1>5. SoundOwn(q) /\ \A e \in Dirs : SizeOf(e) \in Nat
  BY <1>4 DEF AggregateInv, Exact, Sound
<1>6. \A e \in Dirs : Right(e) \/ e \in Stale(q)
  <2>1. \A u \in Requests \ {r} : req[u].pc = "idle" /\ req[u].stage = "none"
    BY <1>1 DEF CacheInv, Sole, Active, TypeInv, Queries, QueryOK, Placed
  <2>2. \A u \in Requests \ {r} : Stale(req[u]) = {}
    BY <2>1 DEF Stale
  <2> QED BY <1>4, <2>2 DEF AggregateInv, Exact
<1>7. SUFFICES /\ Sound(n)' /\ \A e \in Dirs : SizeOf(e)' \in Nat
               /\ \A e \in Dirs : Right(e) \/ e \in Stale(q) => Right(e)' \/ e \in Stale(n)
  BY <1>1, <1>2, <1>4, ExactGoes
<1>8. \A e \in Dirs : meta'[e] = meta[e] => SizeOf(e)' = SizeOf(e) /\ SizeOf(e)' \in Nat
  BY <1>5 DEF SizeOf
<1>9. ASSUME NEW routes \in Routes, OnItsWay(n, q, routes), Tidy(routes),
             \A e \in Dirs : Present(e)' = Present(e)
      PROVE  Sound(n)' /\ Stale(n) = Ahead(routes)
  BY <1>9, GoesOn, TidyStays
<1>10. ASSUME NEW e \in Dirs, Right(e), Under(e)' = Under(e), Present(e)' => Present(e),
              SizeOf(e)' = SizeOf(e), meta[e] # None => meta'[e] # None
       PROVE  Right(e)'
  BY <1>10 DEF Right
<1>11. CASE Unlinks(q, n)
  <2> DEFINE to == q.in.to
             both == <<Up[d], Up[q.in.to]>>
  <2>1. /\ q.pc = "unlink" /\ meta' = meta /\ q.in.op \in {"delete", "move"} /\ Present(d)
        /\ q.in.op = "move" => Present(to)
        /\ Stale(q) = IF q.in.op = "move" THEN Way(to) ELSE {}
    BY <1>0, <1>1, <1>3, <1>5, <1>11 DEF Unlinks, Placed, SoundOwn, Stale
  <2>2. /\ <<>> \in Routes /\ <<Up[d]>> \in Routes /\ both \in Routes
        /\ Tidy(<<>>) /\ Tidy(<<Up[d]>>) /\ (q.in.op = "move" => Tidy(both))
        /\ Ahead(<<>>) = {} /\ Ahead(<<Up[d]>>) = Way(d) /\ Ahead(both) = Way(d) \cup Way(to)
    <3>1. <<>> \in Routes /\ <<Up[d]>> \in Routes /\ both \in Routes
      BY <1>3, DirMetadataAssumption DEF Routes
    <3>2. /\ Tidy(<<>>) /\ Tidy(<<Up[d]>>) /\ (q.in.op = "move" => Tidy(both))
      BY <1>1, <1>3, <2>1, UpIsTidy
    <3>3. Ahead(<<>>) = {} /\ Ahead(<<Up[d]>>) = Way(d) /\ Ahead(both) = Way(d) \cup Way(to)
      BY <1>1, <1>3, UpIsTidy
    <3> QED BY <3>1, <3>2, <3>3
  <2> HIDE DEF to, both
  <2>3. \A e \in Dirs : Present(e)' = Present(e)
    BY <1>0, <1>1, <1>3, <1>11 DEF Unlinks, Present
  <2>4. CASE own[d] > 0
    <3>1. /\ \A e \in Dirs \ {d} : own'[e] = own[e]
          /\ OnItsWay(n, q, IF q.in.op = "move" THEN both ELSE <<Up[d]>>)
      BY <1>0, <1>1, <1>3, <1>11, <2>1, <2>4 DEF Unlinks, Present, both
    <3>2. Sound(n)' /\ Stale(n) = Way(d) \cup Stale(q)
      BY <1>9, <2>1, <2>2, <2>3, <3>1
    <3>3. \A e \in Dirs \ Way(d) : Under(e)' = Under(e)
      BY <1>3, <3>1, OneChanges
    <3> QED BY <1>8, <1>10, <2>1, <2>3, <3>2, <3>3
  <2>5. CASE ~(own[d] > 0)
    <3>1. own' = own /\ OnItsWay(n, q, IF q.in.op = "move" THEN both ELSE <<>>)
      BY <1>0, <1>11, <2>5 DEF Unlinks, both
    <3>2. Sound(n)' /\ Stale(q) \subseteq Stale(n)
      BY <1>9, <2>1, <2>2, <2>3, <3>1
    <3> QED BY <1>8, <1>10, <2>1, <2>3, <3>1, <3>2, FilesStay
  <2> QED BY <2>4, <2>5
<1>12. CASE Clears(q, n)
  <2>0. PICK cleared : cleared = Cleared(d)
    OBVIOUS
  <2>1. /\ q.pc = "clear" /\ meta' = meta /\ n.in = q.in /\ n.stage = "none"
        /\ own' = [e \in Dirs |-> IF e \in cleared THEN 0 ELSE own[e]]
        /\ n.value = IF d \in cleared THEN 1 ELSE 0
        /\ n.pc = IF q.in.op = "keep folder" THEN "mark" ELSE "remove"
        /\ cleared \ {d} = {}
    BY <1>0, <1>12, <2>0 DEF Clears, StaysAs
  <2>2. q.in.op \in {"keep folder", "delete folder"} /\ Present(d) /\ Stale(q) = {}
    BY <1>0, <1>1, <1>3, <1>5, <2>1 DEF Placed, SoundOwn, Stale
  <2>3. \A e \in cleared : e \in Dirs /\ Present(e)
    BY <1>3, <2>0, BelowIs DEF Cleared, Present
  <2>4. \A e \in Dirs : Present(e)' = Present(e)
    <3>1. 0 # None
      BY DirMetadataAssumption
    <3>2. \A e \in Dirs : own'[e] = IF e \in cleared THEN 0 ELSE own[e]
      BY <2>1
    <3> QED BY <2>3, <3>1, <3>2 DEF Present
  <2>5. Sound(n)'
    BY <1>0, <1>3, <2>1, <2>2, <2>4 DEF Sound, SoundList, SoundForward, SoundRows, SoundOwn
  <2>6. CASE d \in cleared
    <3>1. \A e \in Dirs \ {d} : own'[e] = own[e]
      BY <2>1
    <3>2. \A e \in Dirs \ Way(d) : Under(e)' = Under(e)
      BY <1>3, <3>1, OneChanges
    <3>3. Stale(n) = Way(d)
      BY <1>0, <2>1, <2>2, <2>6 DEF Stale
    <3> QED BY <1>8, <1>10, <2>1, <2>2, <2>4, <2>5, <3>2, <3>3
  <2>7. CASE d \notin cleared
    <3>1. own' = own
      BY <1>1, <2>1, <2>7
    <3> QED BY <1>8, <1>10, <2>1, <2>2, <2>4, <2>5, <3>1, FilesStay
  <2> QED BY <2>6, <2>7
<1>13. CASE Removes(q, n)
  <2>1. /\ q.pc = "remove" /\ meta' = meta /\ n.in = q.in /\ n.stage = "none" /\ n.value = q.value
        /\ q.in.op = "delete folder" /\ Present(d)
        /\ Stale(q) = IF q.value = 1 THEN Way(d) ELSE {}
    BY <1>0, <1>1, <1>3, <1>5, <1>13 DEF Removes, StaysAs, Placed, SoundOwn, Stale
  <2>2. CASE Removable(d)
    <3>1. own' = [own EXCEPT ![d] = None] /\ n.pc = "forget"
      BY <1>0, <1>13, <2>2 DEF Removes, StaysAs
    <3>2. own[d] = 0
      BY <2>2 DEF Removable
    <3>3. \A e \in Dirs \ {d} : Present(e)' = Present(e) /\ Held(e)' = Held(e)
      BY <1>1, <3>1 DEF Present, Held
    <3>4. ~Present(d)' /\ Held(d)' = {} /\ Held(d) = {}
      BY <1>1, <1>3, <3>1, <3>2 DEF Present, Held
    <3>5. \A e \in Dirs : Under(e)' = Under(e)
      BY <3>3, <3>4, NoneChanges
    <3>6. Parent(d) # None => Present(Parent(d))'
      <4> SUFFICES ASSUME Parent(d) # None PROVE Present(Parent(d))'
        OBVIOUS
      <4>1. PICK p \in Dirs : p = Parent(d)
        BY <1>3, ParentIs
      <4>2. p \in Way(d) /\ p # d
        BY <1>3, <4>1, WayIs
      <4>3. Present(p)
        BY <1>1, <1>3, <2>1, <4>2 DEF Standing, Present, Way
      <4> QED BY <3>3, <4>1, <4>2, <4>3
    <3>7. Sound(n)'
      BY <1>0, <2>1, <3>1, <3>4, <3>6 DEF Sound, SoundList, SoundForward, SoundRows, SoundOwn
    <3>8. Stale(q) \subseteq Stale(n)
      BY <1>0, <2>1, <3>1 DEF Stale
    <3> QED BY <1>8, <1>10, <2>1, <3>3, <3>4, <3>5, <3>7, <3>8
  <2>3. CASE ~Removable(d)
    <3>1. own' = own /\ n.pc = "mark"
      BY <1>0, <1>13, <2>3 DEF Removes, StaysAs
    <3>2. Sound(n)'
      BY <1>0, <2>1, <3>1, FilesStay DEF Sound, SoundList, SoundForward, SoundRows, SoundOwn
    <3>3. Stale(n) = Stale(q)
      BY <1>0, <2>1, <3>1 DEF Stale
    <3> QED BY <1>8, <1>10, <2>1, <3>1, <3>2, <3>3, FilesStay
  <2> QED BY <2>2, <2>3
<1>14. CASE Forgets(q, n)
  <2>1. /\ q.pc = "forget" /\ own' = own /\ meta' = [meta EXCEPT ![d] = None]
        /\ n.pc = "uncache" /\ n.in = q.in /\ n.stage = "none" /\ Stale(q) = Way(d)
        /\ ~Present(d) /\ (Parent(d) # None => Present(Parent(d)))
    BY <1>0, <1>1, <1>3, <1>5, <1>14 DEF Forgets, StaysAs, SoundOwn, Stale
  <2>2. Stale(n) = Way(d) \ {d}
    BY <1>0, <2>1 DEF Stale
  <2>3. meta'[d] = None /\ \A e \in Dirs \ {d} : meta'[e] = meta[e]
    BY <1>1, <1>3, <2>1
  <2>4. SizeOf(d)' = 0 /\ Under(d)' = 0 /\ ~Present(d)'
    BY <1>1, <1>3, <2>1, <2>3, UnderIs, FilesStay DEF SizeOf
  <2>5. Right(d)'
    BY <2>4 DEF Right
  <2>6. Sound(n)'
    BY <1>0, <2>1, FilesStay DEF Sound, SoundList, SoundForward, SoundRows, SoundOwn
  <2> QED BY <1>8, <1>10, <2>1, <2>2, <2>3, <2>4, <2>5, <2>6, FilesStay
<1>15. CASE Uncaches(q, n)
  <2>1. /\ q.pc = "uncache" /\ own' = own /\ meta' = meta /\ OnItsWay(n, q, ParentRoute(d))
        /\ Stale(q) = Way(d) \ {d} /\ (Parent(d) # None => Present(Parent(d)))
    BY <1>0, <1>1, <1>3, <1>5, <1>15 DEF Uncaches, SoundOwn, Stale
  <2>2. ParentRoute(d) \in Routes /\ Tidy(ParentRoute(d)) /\ Ahead(ParentRoute(d)) = Way(d) \ {d}
    BY <1>1, <1>3, <2>1, ParentRouteIs
  <2>3. Sound(n)' /\ Stale(n) = Stale(q)
    BY <1>9, <2>1, <2>2, FilesStay
  <2> QED BY <1>8, <1>10, <2>1, <2>3, FilesStay
<1>16. CASE SetsFlags(q, n)
  <2> DEFINE routes == IF q.in.op = "create" THEN <<>>
                       ELSE IF q.in.op = "keep folder" THEN <<Up[d]>> ELSE ParentRoute(d)
  <2>1. /\ q.pc = "mark" /\ own' = own /\ meta' = [meta EXCEPT ![d] = Flagged(meta[d], Chosen(q))]
        /\ OnItsWay(n, q, routes) /\ ~(Chosen(q) = "deleted" /\ q.value = 1) /\ Present(d)
    BY <1>0, <1>5, <1>16 DEF SetsFlags, SoundOwn
  <2>2. q.in.op \in {"keep folder", "delete folder", "create"}
    BY <1>3, <2>1 DEF Placed, Decides
  <2>3. Stale(q) = IF q.in.op = "create" THEN {d} ELSE IF q.in.op = "keep folder" THEN Way(d)
                   ELSE {}
    BY <1>0, <1>1, <2>1, <2>2 DEF Stale, Chosen
  <2>4. /\ Flagged(meta[d], Chosen(q)) # None
        /\ Flagged(meta[d], Chosen(q)).size = IF meta[d] = None THEN 0 ELSE meta[d].size
    BY <1>1, <1>3, FlaggedIs DEF Chosen
  <2>5. meta'[d] = Flagged(meta[d], Chosen(q)) /\ \A e \in Dirs \ {d} : meta'[e] = meta[e]
    BY <1>1, <1>3, <2>1
  <2>6. SizeOf(d)' = SizeOf(d) /\ meta'[d] # None
    BY <2>4, <2>5 DEF SizeOf
  <2>7. \A e \in Dirs : SizeOf(e)' = SizeOf(e) /\ (meta[e] # None => meta'[e] # None)
    BY <1>8, <2>5, <2>6
  <2>8. routes \in Routes /\ Tidy(routes)
        /\ Ahead(routes) = IF q.in.op = "create" THEN {}
                           ELSE IF q.in.op = "keep folder" THEN Way(d) ELSE Way(d) \ {d}
    <3>1. Parent(d) # None => Present(Parent(d))
      BY <1>1, <1>3, <2>1, ParentRouteIs
    <3>2. ParentRoute(d) \in Routes /\ Tidy(ParentRoute(d)) /\ Ahead(ParentRoute(d)) = Way(d) \ {d}
      BY <1>1, <1>3, <3>1, ParentRouteIs
    <3>3. <<>> \in Routes /\ <<Up[d]>> \in Routes
      BY <1>3, RoutesAre DEF Routes
    <3> QED BY <1>1, <1>3, <2>1, <3>2, <3>3, UpIsTidy
  <2> HIDE DEF routes
  <2>9. Sound(n)' /\ Stale(n) = Ahead(routes)
    BY <1>9, <2>1, <2>8, FilesStay
  <2>10. q.in.op = "create" => Right(d)'
    <3>1. q.in.op = "create" => SizeOf(d) = Under(d)
      BY <1>0, <1>5, <2>1 DEF SoundOwn
    <3> QED BY <2>1, <2>6, <3>1, FilesStay DEF Right
  <2> QED BY <1>5, <1>10, <2>1, <2>2, <2>3, <2>7, <2>8, <2>9, <2>10, FilesStay
<1>17. CASE FindsTaken(q, n)
  <2>1. /\ q.pc = "taken" /\ own' = own /\ meta' = meta /\ q.in.op = "create" /\ Present(d)
        /\ Stale(q) = {}
        /\ n = Idle \/ (n.pc = "mark" /\ n.in = q.in /\ n.stage = "none")
    BY <1>0, <1>1, <1>3, <1>5, <1>17 DEF FindsTaken, StaysAs, Placed, SoundOwn, Stale
  <2>2. SizeOf(d)' = Under(d)'
    BY <1>3, <1>6, <1>8, <2>1, FilesStay DEF Right
  <2>3. Sound(n)'
    <3>1. CASE n = Idle
      BY <3>1, IdleIs DEF Sound, SoundList, SoundForward, SoundRows, SoundOwn
    <3>2. CASE n # Idle
      BY <1>0, <2>1, <2>2, <3>2, FilesStay DEF Sound, SoundList, SoundForward, SoundRows, SoundOwn
    <3> QED BY <3>1, <3>2
  <2> QED BY <1>8, <1>10, <2>1, <2>3, FilesStay
<1> QED BY <1>2, <1>11, <1>12, <1>13, <1>14, <1>15, <1>16, <1>17 DEF OnOwn

(* What a request begins with: the numbers on the way up from the files it *)
(* has met or made are stale.                                              *)
LEMMA AskingExact ==
  ASSUME AggregateInv, NEW r \in Requests, Asking(r), ~overlap', ~neglected
  PROVE  Exact'
<1>0. PICK n : n = req'[r]
  OBVIOUS
<1>1. /\ TypeInv /\ TypeInv' /\ CacheInv /\ Standing(own) /\ own \in [Dirs -> Nat \cup {None}]
      /\ None \notin Nat
  BY TypesAsking, TypesNow, DirMetadataAssumption DEF AggregateInv, CacheInv
<1>2. /\ Beginning(n, own, own') /\ meta' = meta /\ QueryOK(n) /\ ~Active(r)
      /\ n.in.dir \in Dirs /\ n.in.to \in Dirs /\ n.in \in Inputs
      /\ \A u \in Requests \ {r} : req'[u] = [req[u] EXCEPT !.alone = req[u].alone /\ ~Active(u)]
      /\ overlap' = (overlap \/ \E u \in Requests \ {r} : Active(u))
  <2>1. n.in \in Inputs
    BY <1>0, <1>1, AskingIs
  <2>2. n.in.dir \in Dirs /\ n.in.to \in Dirs
    BY <2>1, DirMetadataAssumption
  <2>3. Beginning(n, own, own') /\ meta' = meta /\ QueryOK(n) /\ ~Active(r)
    BY <1>0, <1>1, AskingIs
  <2>4. /\ \A u \in Requests \ {r} : req'[u] = [req[u] EXCEPT !.alone = req[u].alone /\ ~Active(u)]
        /\ overlap' = (overlap \/ \E u \in Requests \ {r} : Active(u))
    BY <1>1, AskingIs
  <2> QED BY <2>1, <2>2, <2>3, <2>4
<1>3. ~overlap /\ \A u \in Requests : req[u].pc = "idle" /\ req[u].stage = "none"
  BY <1>1, <1>2 DEF Active, TypeInv, Queries, QueryOK, Placed
<1>4. \A x \in Dirs : Right(x) /\ SizeOf(x) \in Nat
  <2>1. \A u \in Requests : Stale(req[u]) = {}
    BY <1>3 DEF Stale
  <2> QED BY <1>3, <2>1 DEF AggregateInv, Exact
<1>5. ASSUME NEW u \in Requests \ {r} PROVE Sound(req[u])'
  <2>1. req[u] \in Query /\ (req[u].alone /\ ~Active(u)) \in BOOLEAN
    BY <1>1 DEF TypeInv, Queries
  <2>2. Alike(req'[u], req[u])
    BY <1>2, <2>1, AloneIs
  <2>3. req'[u].pc = "idle" /\ req'[u].stage = "none"
    BY <1>3, <2>2 DEF Alike
  <2> QED BY <2>3 DEF Sound, SoundList, SoundForward, SoundRows, SoundOwn
<1>6. SUFFICES Sound(n)' /\ \A x \in Dirs : Right(x)' \/ x \in Stale(n)
  <2>1. \A x \in Dirs : SizeOf(x)' \in Nat
    BY <1>2, <1>4 DEF SizeOf
  <2>2. \A u \in Requests : Sound(req[u])'
    BY <1>0, <1>5, <1>6
  <2>3. \A x \in Dirs : Right(x)' \/ x \in Stale(req'[r])
    BY <1>0, <1>6
  <2> QED BY <2>1, <2>2, <2>3 DEF Exact, Stale
<1>7. PICK d, e : d = n.in.dir /\ e = n.in.to /\ d \in Dirs /\ e \in Dirs
  BY <1>2
<1>8. \A x \in Dirs : Under(x)' = Under(x) /\ (Present(x)' => Present(x)) => Right(x)'
  BY <1>2, <1>4 DEF Right, SizeOf
<1>9. ASSUME NEW x \in Dirs, own[x] # None, own' = [own EXCEPT ![x] = own[x] + 1]
      PROVE  /\ \A y \in Dirs : Present(y)' = Present(y)
             /\ \A y \in Dirs \ Way(x) : Right(y)'
  <2>1. /\ \A y \in Dirs \ {x} : own'[y] = own[y]
        /\ own'[x] = own[x] + 1 /\ own[x] + 1 \in Nat
    BY <1>1, <1>9
  <2>2. \A y \in Dirs : Present(y)' = Present(y)
    BY <1>1, <1>9, <2>1 DEF Present
  <2>3. \A y \in Dirs \ Way(x) : Under(y)' = Under(y)
    BY <2>1, OneChanges
  <2> QED BY <1>8, <2>2, <2>3
<1>10. own' = own => /\ \A x \in Dirs : Right(x)'
                     /\ \A x \in Dirs : Present(x)' = Present(x)
  BY <1>8, FilesStay
<1>11. CASE Listing(n, own, own')
  <2>1. /\ n.stage = "list" /\ n.pc = "flags" /\ n.left = Subs(d) /\ own[d] # None
        /\ IF n.in.op = "find" THEN own' = [own EXCEPT ![d] = own[d] + 1] ELSE own' = own
    BY <1>7, <1>11 DEF Listing
  <2>2. Stale(n) = IF n.in.op = "find" THEN Way(d) ELSE {}
    BY <1>7, <2>1 DEF Stale
  <2>3. /\ \A x \in Dirs : Present(x)' = Present(x)
        /\ \A x \in Dirs : Right(x)' \/ x \in Stale(n)
    BY <1>7, <1>9, <1>10, <2>1, <2>2
  <2>4. \A x \in n.left : x \in Dirs /\ Present(x)
    BY <2>1 DEF Subs
  <2>5. Present(d)
    BY <2>1 DEF Present
  <2>6. Sound(n)'
    BY <1>7, <2>1, <2>3, <2>4, <2>5 DEF Sound, SoundList, SoundForward, SoundRows, SoundOwn
  <2> QED BY <2>3, <2>6
<1>12. CASE Measuring(n, own, own')
  <2>1. /\ n.stage = "list" /\ n.pc = "bulk" /\ n.left = {d} /\ n.row = d /\ own[d] # None
        /\ n.values = CountedValues(d) /\ own' = own
    BY <1>7, <1>12 DEF Measuring
  <2>2. Present(d)' /\ CountedValues(d)' = CountedValues(d)
    BY <1>7, <1>10, <2>1, TotalsStay DEF Present
  <2>3. Sound(n)'
    BY <1>7, <2>1, <2>2 DEF Sound, SoundList, SoundForward, SoundRows, SoundOwn
  <2> QED BY <1>10, <2>1, <2>3
<1>13. CASE Changing(n, own, own')
  <2>1. /\ n.stage = "none" /\ own[d] # None /\ (n.in.op = "move" => own[e] # None)
        /\ IF n.in.op = "move" THEN own' = [own EXCEPT ![e] = own[e] + 1] ELSE own' = own
        /\ n.pc = "unlink" \/ (n.pc = "clear" /\ n.in.op # "move")
    BY <1>7, <1>13 DEF Changing
  <2>2. Stale(n) = IF n.in.op = "move" THEN Way(e) ELSE {}
    BY <1>7, <2>1 DEF Stale
  <2>3. /\ \A x \in Dirs : Present(x)' = Present(x)
        /\ \A x \in Dirs : Right(x)' \/ x \in Stale(n)
    BY <1>7, <1>9, <1>10, <2>1, <2>2
  <2>4. Present(d) /\ (n.in.op = "move" => Present(e))
    BY <2>1 DEF Present
  <2>5. Sound(n)'
    BY <1>7, <2>1, <2>3, <2>4 DEF Sound, SoundList, SoundForward, SoundRows, SoundOwn
  <2> QED BY <2>3, <2>5
<1>14. CASE Updating(n, own, own')
  <2>1. PICK route \in DeepestFirst({d, e}) : n.routes = <<route>>
    BY <1>7, <1>14 DEF Updating
  <2>2. /\ n.stage = "forward" /\ n.pc = "scan" /\ n.values = NoValues
        /\ own[d] # None /\ own[e] # None
        /\ own' = [x \in Dirs |-> IF x \in {d, e} THEN own[x] + 1 ELSE own[x]]
    BY <1>7, <1>14 DEF Updating
  <2>3. /\ \A x \in {d, e} : own'[x] = own[x] + 1 /\ own[x] + 1 \in Nat
        /\ \A x \in Dirs \ {d, e} : own'[x] = own[x]
    BY <1>1, <1>7, <2>2
  <2>4. \A x \in Dirs : Present(x)' = Present(x)
    BY <1>1, <2>2, <2>3 DEF Present
  <2>5. Ahead(n.routes) = Way(d) \cup Way(e) /\ Tidy(n.routes)
    <3>1. Present(d) /\ Present(e)
      BY <2>2 DEF Present
    <3>2. Ahead(<<route>>) = Way(d) \cup Way(e) /\ Tidy(<<route>>)
      BY <1>1, <1>7, <3>1, DeepestIsTidy
    <3> QED BY <2>1, <3>2
  <2>6. n.routes \in Routes
    BY <1>2 DEF QueryOK, Query, Routes
  <2>7. Tidy(n.routes)'
    BY <2>4, <2>5, <2>6, TidyStays
  <2>8. Stale(n) = Way(d) \cup Way(e)
    BY <2>2, <2>5 DEF Stale
  <2>9. ASSUME NEW x \in Dirs \ Stale(n) PROVE Right(x)'
    <3>1. {d, e} \in SUBSET Dirs /\ \A y \in {d, e} : x \notin Way(y)
      BY <1>7, <2>8, <2>9
    <3>2. \A y \in Dirs \ {d, e} : Held(y)' = Held(y)
      BY <2>3 DEF Held, Present
    <3>3. Under(x)' = Under(x)
      BY <3>1, <3>2, UnderStays
    <3> QED BY <1>8, <2>4, <3>3
  <2>10. Sound(n)'
    BY <2>2, <2>7 DEF Sound, SoundList, SoundForward, SoundSum, SoundRows, SoundOwn
  <2> QED BY <2>9, <2>10
<1>15. CASE Creating(n, own, own')
  <2>1. /\ n.stage = "none" /\ n.in.op = "create"
        /\ IF own[d] # None THEN n.pc = "taken" /\ own' = own
           ELSE n.pc = "mark" /\ own' = [own EXCEPT ![d] = 0]
    BY <1>7, <1>15 DEF Creating
  <2>2. CASE own[d] # None
    <3>1. Present(d)'
      BY <1>7, <1>10, <2>1, <2>2 DEF Present
    <3>2. Sound(n)'
      BY <1>7, <2>1, <2>2, <3>1 DEF Sound, SoundList, SoundForward, SoundRows, SoundOwn
    <3> QED BY <1>10, <2>1, <2>2, <3>2
  <2>3. CASE own[d] = None
    <3>1. own'[d] = 0 /\ \A x \in Dirs \ {d} : own'[x] = own[x]
      BY <1>1, <1>7, <2>1, <2>3
    <3>2. /\ ~Present(d) /\ Present(d)'
          /\ \A x \in Dirs \ {d} : Present(x)' = Present(x) /\ Held(x)' = Held(x)
      BY <1>1, <2>3, <3>1 DEF Present, Held
    <3>3. Held(d) = {} /\ Held(d)' = {}
      BY <3>1, <3>2 DEF Held
    <3>4. \A x \in Dirs : Under(x)' = Under(x)
      BY <3>2, <3>3, NoneChanges
    <3>5. SizeOf(d)' = Under(d)'
      BY <1>2, <1>4, <1>7, <3>4 DEF Right, SizeOf
    <3>6. Stale(n) = {d}
      BY <1>7, <2>1, <2>3 DEF Stale
    <3>7. Sound(n)'
      BY <1>7, <2>1, <2>3, <3>2, <3>5 DEF Sound, SoundList, SoundForward, SoundRows, SoundOwn
    <3> QED BY <1>8, <3>2, <3>4, <3>6, <3>7
  <2> QED BY <2>2, <2>3
<1> QED BY <1>2, <1>11, <1>12, <1>13, <1>14, <1>15 DEF Beginning

LEMMA AggregateInit ==
  ASSUME DirMetadataInit
  PROVE  AggregateInv
<1>1. CacheInv /\ TypeInv
  BY CacheInit DEF CacheInv
<1>2. /\ own \in [Dirs -> Nat \cup {None}] /\ Standing(own) /\ decided \in [Dirs -> Opinions]
  BY <1>1, TypesNow
<1> SUFFICES ASSUME ~neglected PROVE Exact
  BY <1>1 DEF AggregateInv
<1>3. \A d \in Dirs : Present(d) => meta[d] # None /\ meta[d].size = Total(d)
  <2>1. PICK known \in Known :
          /\ meta = [d \in Dirs |->
                       IF d \in known /\ Present(d)
                       THEN Sized(IF decided[d] = "none" THEN None ELSE Flagged(None, decided[d]),
                                  Total(d))
                       ELSE IF decided[d] = "none" THEN None ELSE Flagged(None, decided[d])]
          /\ neglected = \E d \in Dirs \ known : Present(d)
    BY DEF DirMetadataInit
  <2>2. \A d \in Dirs : (IF decided[d] = "none" THEN None ELSE Flagged(None, decided[d]))
                          \in Meta \cup {None}
    BY <1>2, FlaggedIs DEF Opinions
  <2>3. \A d \in Dirs : Total(d) \in Int
    BY <1>2, HeldFinite
  <2> SUFFICES ASSUME NEW d \in Dirs, Present(d)
               PROVE  meta[d] # None /\ meta[d].size = Total(d)
    OBVIOUS
  <2>4. PICK m \in Meta \cup {None} :
          m = IF decided[d] = "none" THEN None ELSE Flagged(None, decided[d])
    BY <2>2
  <2>5. meta[d] = Sized(m, Total(d))
    BY <2>1, <2>4
  <2> QED BY <2>3, <2>5, SizedIs
<1>4. \A d \in Dirs : ~Present(d) => SizeOf(d) = 0
  <2> SUFFICES ASSUME NEW d \in Dirs, ~Present(d) PROVE SizeOf(d) = 0
    OBVIOUS
  <2>1. meta[d] = IF decided[d] = "none" THEN None ELSE Flagged(None, decided[d])
    BY DEF DirMetadataInit
  <2>2. decided[d] # "none" => Flagged(None, decided[d]).size = 0
    BY <1>2, FlaggedIs DEF Opinions
  <2> QED BY <2>1, <2>2 DEF SizeOf
<1>5. \A d \in Dirs : Right(d) /\ SizeOf(d) \in Nat
  BY <1>2, <1>3, <1>4, UnderIs DEF Right, SizeOf
<1>6. \A r \in Requests : Sound(req[r])
  <2>1. req = [r \in Requests |-> Idle] /\ Idle.pc = "idle" /\ Idle.stage = "none"
    BY IdleIs DEF DirMetadataInit
  <2> QED BY <2>1 DEF Sound, SoundList, SoundForward, SoundRows, SoundOwn
<1> QED BY <1>5, <1>6 DEF Exact

LEMMA AggregateStep ==
  ASSUME AggregateInv, [DirMetadataNext]_vars
  PROVE  AggregateInv'
<1>1. CacheInv'
  BY CacheStep DEF AggregateInv
<1> SUFFICES ASSUME ~overlap', ~neglected' PROVE Exact'
  BY <1>1 DEF AggregateInv
<1>2. CASE DirMetadataNext
  <2>1. PICK r \in Requests : Asking(r) \/ MetadataStep(r) \/ DirectoryStep(r)
    BY <1>2 DEF DirMetadataNext
  <2>2. TypeInv
    BY DEF AggregateInv, CacheInv
  <2>3. CASE Asking(r)
    <3>1. neglected' = neglected
      BY <2>2, <2>3, AskingIs
    <3> QED BY <2>3, <3>1, AskingExact
  <2>4. CASE MetadataStep(r)
    <3>1. overlap' = overlap /\ neglected' = neglected
      BY <2>2, <2>4, MetadataIs
    <3> QED BY <2>4, <3>1, MetadataExact
  <2>5. CASE DirectoryStep(r)
    <3>1. overlap' = overlap
      BY <2>2, <2>5, DirectoryIs
    <3> QED BY <2>5, <3>1, DirectoryExact
  <2> QED BY <2>1, <2>3, <2>4, <2>5
<1>3. CASE UNCHANGED vars
  <2>1. /\ own' = own /\ meta' = meta /\ req' = req /\ overlap' = overlap
        /\ neglected' = neglected
    BY <1>3 DEF vars, storeVars, history
  <2>2. Exact /\ \A r \in Requests : QueryOK(req[r])
    BY <2>1 DEF AggregateInv, CacheInv, TypeInv, Queries
  <2>3. \A d \in Dirs : SizeOf(d)' = SizeOf(d)
    BY <2>1 DEF SizeOf
  <2>4. \A r \in Requests : Sound(req[r])'
    <3> SUFFICES ASSUME NEW r \in Requests PROVE Sound(req[r])'
      OBVIOUS
    <3>1. PICK q : q = req[r]
      OBVIOUS
    <3>2. QueryOK(q) /\ Sound(q)
      BY <2>2, <3>1 DEF Exact
    <3>3. Sound(q)'
      BY <2>1, <2>3, <3>2, SoundStays
    <3> QED BY <2>1, <3>1, <3>3
  <2>5. \A d \in Dirs : Right(d)' = Right(d)
    BY <2>1, <2>3, FilesStay DEF Right
  <2> QED BY <2>1, <2>2, <2>3, <2>4, <2>5 DEF Exact, Stale
<1> QED BY <1>2, <1>3

(* As long as no two requests overlapped and no videos went whose          *)
(* directory nobody counts again, the record of every directory is the     *)
(* number of videos under it whenever nobody is at work: what a request    *)
(* changes makes wrong only records on the way up from there, its forward  *)
(* update passes all of them, each after those under it, and so adds up    *)
(* right numbers, whether it finds them in the cache or in the database.   *)
THEOREM AggregatesAreExact == DirMetadataSpec => []AggregatesExact
<1>1. DirMetadataInit => AggregateInv
  BY AggregateInit
<1>2. AggregateInv /\ [DirMetadataNext]_vars => AggregateInv'
  BY AggregateStep
<1>3. AggregateInv => AggregatesExact
  <2> SUFFICES ASSUME AggregateInv, Quiet, ~overlap, ~neglected, NEW d \in Dirs, Present(d)
               PROVE  meta[d] # None /\ meta[d].size = Total(d)
    BY DEF AggregatesExact
  <2>1. TypeInv /\ Exact
    BY DEF AggregateInv, CacheInv
  <2>2. \A r \in Requests : req[r].pc = "idle" /\ req[r].stage = "none"
    BY <2>1 DEF Quiet, Active, TypeInv, Queries, QueryOK, Placed
  <2>3. \A r \in Requests : Stale(req[r]) = {}
    BY <2>2 DEF Stale
  <2>4. Right(d)
    BY <2>1, <2>3 DEF Exact
  <2>5. own \in [Dirs -> Nat \cup {None}] /\ Standing(own)
    BY <2>1, TypesNow
  <2>6. Total(d) = Under(d)
    BY <2>5, UnderIs
  <2> QED BY <2>4, <2>6 DEF Right, SizeOf
<1> QED BY <1>1, <1>2, <1>3, PTL DEF DirMetadataSpec

-----------------------------------------------------------------------------
(* A refresh.                                                              *)

(* The record of a row is right if those of its sub-directories are. *)
Follows(s) == Present(s) /\ (\A d \in Subs(s) : Exactly(d)) => Exactly(s)

(* A row of a refresh holds what it was told of each sub-directory it has  *)
(* asked about; if all that is right, its sum is the number of videos in   *)
(* them and in the row itself.                                             *)
Adds(q) ==
  LET a == At(q)  met == Subs(a) \ q.left IN
  /\ \A x \in Dirs : q.values[x] # None => x = a \/ x \in Subs(a)
  /\ q.pc = "scan" => q.values = NoValues
  /\ q.pc \in {"get", "read", "fill"} => q.left \subseteq Subs(a)
  /\ q.pc \in {"bulk", "many"} => q.left = {}
  /\ q.pc # "scan" /\ Present(a) =>
       /\ \A c \in met : q.values[c] # None
       /\ (\A c \in met : q.values[c] = Total(c)) => q.total = Cardinality(PartOf(a, met))
Recorded(q) ==
  q.pc = "many" =>
    \A x \in Dirs : q.values[x] # None => meta[x] # None /\ meta[x].size = q.values[x]

(* A refresh that nobody disturbs has right rows where their               *)
(* sub-directories are, and writes about no row but the one it is at.      *)
Refreshing(q) ==
  q.alone /\ q.stage \in {"list", "rows"} /\ q.in.op = "refresh" =>
    /\ q.pc = "flags" => q.shown = {} /\ \A d \in q.left : Parent(d) = q.in.dir
    /\ \A s \in q.shown : Parent(s) = q.in.dir /\ Follows(s)
    /\ q.stage = "rows" =>
         /\ Apart(q.routes)
         /\ \A s \in Ahead(q.routes) : Parent(s) = q.in.dir /\ s \notin q.shown
         /\ Adds(q) /\ Recorded(q)

RefreshInv == RepairInv /\ \A r \in Requests : Refreshing(req[r])

(* What is written about a directory and those in it makes no other one    *)
(* beside it wrong.                                                        *)
LEMMA FollowsStays ==
  ASSUME own' = own, NEW b \in Dirs, NEW s \in Dirs, s # b, Parent(s) = Parent(b),
         Follows(s),
         \A x \in Dirs : x # b /\ x \notin Subs(b) => meta'[x] = meta[x] /\ cache'[x] = cache[x]
  PROVE  Follows(s)'
<1>1. /\ Present(s)' = Present(s) /\ Subs(s)' = Subs(s)
      /\ \A x \in Dirs : Total(x)' = Total(x)
  BY FilesStay, TotalsStay
<1>2. \A x \in Dirs : x # b /\ x \notin Subs(b) => Exactly(x)' = Exactly(x)
  BY <1>1 DEF Exactly
<1>3. \A x \in Dirs : Parent(x) # None => Parent(x) # x
  BY ParentIs, WayUp
<1>4. \A x \in Subs(b) : x \in Dirs /\ Parent(x) = b
  BY DEF Subs
<1>5. None \notin Dirs
  BY DirMetadataAssumption
<1>6. s \notin Subs(b)
  BY <1>3, <1>4, <1>5
<1>7. ASSUME NEW x \in Subs(s) PROVE x \in Dirs /\ x # b /\ x \notin Subs(b)
  <2>1. x \in Dirs /\ Parent(x) = s
    BY DEF Subs
  <2>2. x # b
    BY <1>3, <1>5, <2>1
  <2> QED BY <1>4, <2>1, <2>2
<1> QED BY <1>1, <1>2, <1>6, <1>7 DEF Follows

(* One more sub-directory is added. *)
LEMMA AddsGot ==
  ASSUME own \in [Dirs -> Nat \cup {None}], Standing(own),
         NEW q, QueryOK(q), q.stage = "rows", q.pc \in {"get", "read", "fill"}, Adds(q),
         NEW d \in q.left, NEW i \in Int, NEW n, GotAs(n, q, d, i)
  PROVE  Adds(n) /\ n.pc # "many"
<1>0. PICK b : b = At(q)
  OBVIOUS
<1> DEFINE met == Subs(b) \ q.left
           now == Subs(b) \ n.left
<1>1. q \in Query /\ q.in \in Inputs /\ q.routes # <<>>
  BY DEF QueryOK, Placed
<1>2. b \in Dirs /\ At(n) = b /\ None \notin Int /\ q.values \in [Dirs -> Int \cup {None}]
  BY <1>0, <1>1, OnwardIs, DirMetadataAssumption DEF GotAs, At, Query
<1>3. /\ d \in Subs(b) /\ d \in Dirs /\ d # b /\ Present(d) /\ q.left \subseteq Subs(b)
      /\ \A c \in Subs(b) : c \in Dirs /\ c # b
  <2>1. q.left \subseteq Subs(b)
    BY <1>0 DEF Adds
  <2>2. \A c \in Subs(b) : c \in Dirs /\ Parent(c) = b /\ Present(c)
    BY DEF Subs
  <2>3. \A c \in Dirs : Parent(c) # None => Parent(c) # c
    BY ParentIs, WayUp
  <2>4. b # None
    BY <1>2, DirMetadataAssumption
  <2>5. \A c \in Subs(b) : c # b
    BY <2>2, <2>3, <2>4
  <2>6. d \in Subs(b)
    BY <2>1
  <2> QED BY <2>1, <2>2, <2>5, <2>6
<1>4. /\ n.left = q.left \ {d} /\ n.total = q.total + i
      /\ n.pc \in {"get", "bulk"} /\ (n.pc = "bulk" => n.left = {})
      /\ n.values[d] = i /\ \A c \in Dirs \ {b, d} : n.values[c] = q.values[c]
  BY <1>0, <1>2, <1>3 DEF GotAs, Summing
<1>5. \A x \in Dirs : n.values[x] # None => x = b \/ x \in Subs(b)
  BY <1>0, <1>3, <1>4 DEF Adds
<1>6. ASSUME Present(b)
      PROVE  /\ \A c \in now : n.values[c] # None
             /\ (\A c \in now : n.values[c] = Total(c)) => n.total = Cardinality(PartOf(b, now))
  <2>1. /\ \A c \in met : q.values[c] # None
        /\ (\A c \in met : q.values[c] = Total(c)) => q.total = Cardinality(PartOf(b, met))
    BY <1>0, <1>6 DEF Adds
  <2>2. now = met \cup {d} /\ d \notin met /\ met \in SUBSET Subs(b) /\ d \in Subs(b) \ met
    BY <1>3, <1>4
  <2>3. \A c \in met : c \in Dirs \ {b, d}
    BY <1>3, <2>2
  <2>4. \A c \in now : n.values[c] # None
    BY <1>2, <1>4, <2>1, <2>2, <2>3
  <2>5. ASSUME \A c \in now : n.values[c] = Total(c)
        PROVE  n.total = Cardinality(PartOf(b, now))
    <3>1. i = Under(d)
      BY <1>3, <1>4, <2>2, <2>5, UnderIs
    <3>2. q.total = Cardinality(PartOf(b, met))
      BY <1>4, <2>1, <2>2, <2>3, <2>5
    <3>3. Cardinality(PartOf(b, met \cup {d})) = Cardinality(PartOf(b, met)) + Under(d)
      BY <1>2, <1>6, <2>2, PartIs
    <3> QED BY <1>4, <2>2, <3>1, <3>2, <3>3
  <2> QED BY <2>4, <2>5
<1> HIDE DEF met
<1>7. Adds(n)
  BY <1>2, <1>3, <1>4, <1>5, <1>6 DEF Adds
<1> QED BY <1>4, <1>7

(* As long as the files stay, so does what a row has added up. *)
LEMMA AddsStays ==
  ASSUME own' = own, NEW q, At(q) \in Dirs
  PROVE  Adds(q) => Adds(q)'
<1>1. PICK b \in Dirs : b = At(q)
  OBVIOUS
<1>2. /\ Present(b)' = Present(b) /\ Subs(b)' = Subs(b)
      /\ \A ds : PartOf(b, ds)' = PartOf(b, ds)
      /\ \A c \in Subs(b) : Total(c)' = Total(c)
  BY FilesStay, TotalsStay DEF Subs
<1> QED BY <1>1, <1>2 DEF Adds

(* It is enough to look at the request that takes the step. *)
LEMMA RefreshGoes ==
  ASSUME RefreshInv, RepairInv', NEW r \in Requests, Active(r), NEW n, QueryOK(n), Go(r, n),
         n.alone /\ req[r].alone => Refreshing(n)', n.pc # "idle" => n.alone = req[r].alone
  PROVE  RefreshInv'
<1>1. req'[r] = n /\ \A u \in Requests \ {r} : req'[u] = req[u]
  BY GoKeeps DEF RefreshInv, RepairInv, TypeInv
<1>2. Refreshing(n)'
  <2>1. CASE n.pc = "idle"
    BY <2>1 DEF Refreshing, QueryOK, Placed
  <2>2. CASE n.pc # "idle"
    BY <2>2 DEF Refreshing
  <2> QED BY <2>1, <2>2
<1>3. ASSUME NEW u \in Requests \ {r}
      PROVE  Refreshing(req[u])'
  <2>1. CASE Active(u)
    <3>1. ~req[u].alone
      BY <1>3, <2>1 DEF RefreshInv, RepairInv
    <3> QED BY <1>1, <1>3, <3>1 DEF Refreshing
  <2>2. CASE ~Active(u)
    <3>1. req'[u].stage = "none"
      BY <1>1, <1>3, <2>2
         DEF RefreshInv, RepairInv, TypeInv, Queries, QueryOK, Placed, Active
    <3> QED BY <3>1 DEF Refreshing
  <2> QED BY <2>1, <2>2
<1> QED BY <1>1, <1>2, <1>3 DEF RefreshInv

LEMMA MetadataRefreshes ==
  ASSUME RefreshInv, NEW r \in Requests, MetadataStep(r)
  PROVE  RefreshInv'
<1> DEFINE q == req[r]
<1>1. /\ TypeInv /\ RepairInv' /\ meta \in [Dirs -> Meta \cup {None}] /\ Standing(own)
      /\ own \in [Dirs -> Nat \cup {None}]
      /\ cache \in [Dirs -> Int \cup {None}] /\ Active(r) /\ own' = own
  BY MetadataRepairs, TypesNow, MetadataIs DEF RefreshInv, RepairInv
<1>2. PICK n : QueryOK(n) /\ Go(r, n) /\ OnList(q, n)
  BY <1>1, MetadataIs
<1>3. /\ QueryOK(q) /\ q \in Query /\ Placed(q) /\ Ready(q) /\ Refreshing(q)
      /\ q.in \in Inputs /\ q.in.dir \in Dirs
  BY <1>1, AtWork DEF RefreshInv
<1>4. /\ q.stage \in {"none", "list", "forward", "rows"} /\ q.left \subseteq Dirs
      /\ q.shown \subseteq Dirs /\ q.values \in [Dirs -> Int \cup {None}] /\ q.routes \in Routes
      /\ q.value \in Int /\ q.total \in Int
  BY <1>3 DEF Query, Routes
<1>5. ASSUME NEW routes, OnItsWay(n, q, routes)
      PROVE  (n.pc # "idle" => n.alone = q.alone) /\ n.stage \in {"none", "forward"}
  BY <1>5, IdleIs DEF OnItsWay
<1>6. n.pc # "idle" => n.alone = q.alone
  BY <1>2, <1>5 DEF OnList, TakesCached, Evicts, Reads, TakesNone, Counts, Fills, Writes,
         Caches, Sets, SetsCached, Scans, ReadsFlags, Ends, GotAs, Carries, CountedAs, ScannedAs,
         FlagsReadAs, RowDone, RowsReadAs, RefreshedAs
<1> SUFFICES ASSUME q.alone, n.alone, n.stage \in {"list", "rows"}, n.in.op = "refresh"
             PROVE  Refreshing(n)'
  BY <1>1, <1>2, <1>6, RefreshGoes DEF Refreshing
<1>7. q.stage \in {"list", "rows"} /\ n.in = q.in
  <2>1. q.pc = "flags" => q.stage = "list"
    BY <1>3, <1>4 DEF Placed, OwnPcs, ForwardPcs, RowPcs
  <2> QED BY <1>2, <1>5, <2>1 DEF OnList, TakesCached, Evicts, Reads, TakesNone, Counts, Fills,
         Writes, Caches, Sets, SetsCached, Scans, ReadsFlags, Ends, GotAs, Carries, CountedAs,
         ScannedAs, FlagsReadAs, RowDone, RowsReadAs, RefreshedAs
<1>8. \A s \in q.shown : Parent(s) = q.in.dir /\ Follows(s)
  BY <1>3, <1>7 DEF Refreshing
<1>9. CASE q.stage = "list"
  <2>1. q.pc \in {"flags", "listed"}
    BY <1>3, <1>7, <1>9 DEF Ready
  <2>2. q.pc = "flags" /\ RowsReadAs(n, q)
    BY <1>2, <1>5, <1>7, <2>1 DEF OnList, TakesCached, Evicts, Reads, TakesNone, Counts, Fills,
         Writes, Caches, Sets, SetsCached, Scans, ReadsFlags, Ends, FlagsReadAs
  <2>3. n.shown = {} /\ \A d \in q.left : Parent(d) = q.in.dir
    BY <1>3, <1>7, <1>9, <2>2 DEF Refreshing, RowsReadAs
  <2>4. PICK ds \in SUBSET q.left : \E rows \in RowsOf(ds) : RefreshedAs(n, q, rows)
    BY <2>2 DEF RowsReadAs
  <2>5. PICK rows \in RowsOf(ds) : RefreshedAs(n, q, rows)
    BY <2>4
  <2>6. Apart(rows) /\ Ahead(rows) = ds
    BY <1>4, RowsAre
  <2>7. /\ n.pc \in {"scan", "listed"} /\ n.routes = rows /\ n.values = NoValues
        /\ n.stage = "rows" => n.pc = "scan"
    BY <2>5 DEF RefreshedAs
  <2>8. n.stage = "rows" => Adds(n)' /\ Recorded(n)'
    BY <2>7 DEF Adds, Recorded, NoValues
  <2> QED BY <1>7, <2>3, <2>6, <2>7, <2>8 DEF Refreshing
<1>10. CASE q.stage = "rows"
  <2>0. PICK b : b = At(q)
    OBVIOUS
  <2>1. /\ q.pc \in RowPcs /\ q.routes # <<>> /\ Single(q.routes)
        /\ Adds(q) /\ Recorded(q) /\ Apart(q.routes)
        /\ \A s \in Ahead(q.routes) : Parent(s) = q.in.dir /\ s \notin q.shown
    BY <1>3, <1>7, <1>10 DEF Placed, Refreshing
  <2>2. /\ b \in Dirs /\ Ahead(q.routes) = {b} \cup Ahead(Tail(q.routes))
        /\ Apart(Tail(q.routes)) /\ b \notin Ahead(Tail(q.routes)) /\ Parent(b) = q.in.dir
        /\ b \notin q.shown
    BY <1>4, <2>0, <2>1, RowsLeftAre
  <2>3. \A x \in Dirs : q.values[x] # None => x = b \/ x \in Subs(b)
    BY <2>0, <2>1 DEF Adds
  <2>4. q.pc \in {"get", "read", "fill"} => q.left \subseteq Subs(b)
    BY <2>0, <2>1 DEF Adds
(* A step that writes about this row only leaves the others right.         *)
  <2>5. ASSUME \A x \in Dirs : x # b /\ x \notin Subs(b)
                                 => meta'[x] = meta[x] /\ cache'[x] = cache[x]
        PROVE  \A s \in q.shown : Parent(s) = q.in.dir /\ Follows(s)'
    BY <1>1, <1>4, <1>8, <2>2, <2>5, FollowsStays
  <2>6. ASSUME n.stage = "rows", n.routes = q.routes, n.shown = q.shown, n.pc # "flags",
               Adds(n), Recorded(n)',
               \A x \in Dirs : x # b /\ x \notin Subs(b)
                                 => meta'[x] = meta[x] /\ cache'[x] = cache[x]
        PROVE  Refreshing(n)'
    <3>1. Adds(n)'
      BY <1>1, <2>0, <2>2, <2>6, AddsStays DEF At
    <3> QED BY <1>7, <2>1, <2>5, <2>6, <3>1 DEF Refreshing
  <2>7. ASSUME q.pc \in {"get", "read", "fill"}, NEW d \in q.left, NEW i \in Int, GotAs(n, q, d, i),
               \A x \in Dirs : x # b /\ x \notin Subs(b)
                                 => meta'[x] = meta[x] /\ cache'[x] = cache[x]
        PROVE  Refreshing(n)'
    <3>1. Adds(n) /\ n.pc # "many"
      BY <1>1, <1>3, <1>10, <2>1, <2>7, AddsGot
    <3>2. /\ n.stage = "rows" /\ n.routes = q.routes /\ n.shown = q.shown
          /\ n.pc \in {"get", "bulk"}
      BY <1>10, <2>7 DEF GotAs, Summing
    <3> QED BY <2>6, <2>7, <3>1, <3>2 DEF Recorded
  <2>8. CASE TakesCached(q, n)
    <3>1. PICK d \in q.left : cache[d] # None /\ GotAs(n, q, d, cache[d])
      BY <2>8 DEF TakesCached
    <3>2. q.pc = "get" /\ meta' = meta /\ cache' = cache /\ cache[d] \in Int
      BY <1>1, <1>4, <2>8, <3>1 DEF TakesCached
    <3> QED BY <2>7, <3>1, <3>2
  <2>9. CASE Evicts(q, n)
    <3>1. PICK d \in q.left : cache' = [cache EXCEPT ![d] = None]
      BY <2>9 DEF Evicts
    <3>2. q.pc = "get" /\ meta' = meta /\ Carries(n, q) /\ n.pc = "read"
      BY <2>9 DEF Evicts
    <3>3. \A x \in Dirs : x # b /\ x \notin Subs(b) => meta'[x] = meta[x] /\ cache'[x] = cache[x]
      BY <1>1, <2>4, <3>1, <3>2
    <3>4. Adds(n) /\ n.stage = "rows" /\ n.routes = q.routes /\ n.shown = q.shown
      BY <1>10, <2>1, <3>2 DEF Adds, Carries, At
    <3> QED BY <2>6, <3>2, <3>3, <3>4 DEF Recorded
  <2>10. CASE Reads(q, n)
    <3>1. /\ q.pc = "read" /\ meta' = meta /\ cache' = cache /\ Carries(n, q) /\ n.pc = "fill"
      BY <2>10 DEF Reads
    <3>2. Adds(n) /\ n.stage = "rows" /\ n.routes = q.routes /\ n.shown = q.shown
      BY <1>10, <2>1, <3>1 DEF Adds, Carries, At
    <3> QED BY <2>6, <3>1, <3>2 DEF Recorded
  <2>11. CASE TakesNone(q, n)
    <3>1. q.pc = "read" /\ meta' = meta /\ cache' = cache /\ GotAs(n, q, q.row, 0)
      BY <2>11 DEF TakesNone
    <3>2. q.row \in q.left /\ 0 \in Int
      BY <1>3, <3>1 DEF Ready
    <3> QED BY <2>7, <3>1, <3>2
  <2>12. CASE Fills(q, n)
    <3>1. q.pc = "fill" /\ meta' = meta /\ GotAs(n, q, q.row, q.value)
          /\ cache' = [cache EXCEPT ![q.row] = q.value]
      BY <2>12 DEF Fills
    <3>2. q.row \in q.left /\ q.row \in Subs(b)
      BY <1>3, <2>4, <3>1 DEF Ready
    <3>3. \A x \in Dirs : x # b /\ x \notin Subs(b) => meta'[x] = meta[x] /\ cache'[x] = cache[x]
      BY <1>1, <3>1, <3>2
    <3> QED BY <1>4, <2>7, <3>1, <3>2, <3>3
  <2>13. CASE Writes(q, n)
    <3>1. q.pc = "bulk" /\ cache' = cache /\ Carries(n, q) /\ n.pc = "many"
      BY <2>13 DEF Writes
    <3>2. ASSUME NEW x \in Dirs
          PROVE  /\ q.values[x] = None => meta'[x] = meta[x]
                 /\ q.values[x] # None => meta'[x] # None /\ meta'[x].size = q.values[x]
      <4>1. meta'[x] = IF q.values[x] = None THEN meta[x] ELSE Sized(meta[x], q.values[x])
        BY <2>13 DEF Writes
      <4>2. CASE q.values[x] # None
        <5>1. q.values[x] \in Int /\ meta[x] \in Meta \cup {None}
          BY <1>1, <1>4, <4>2
        <5>2. /\ Sized(meta[x], q.values[x]) # None
              /\ Sized(meta[x], q.values[x]).size = q.values[x]
          BY <5>1, SizedIs
        <5> QED BY <4>1, <4>2, <5>2
      <4> QED BY <4>1, <4>2
    <3>3. Adds(n) /\ n.stage = "rows" /\ n.routes = q.routes /\ n.shown = q.shown
          /\ n.values = q.values
      BY <1>10, <2>1, <3>1 DEF Adds, Carries, At
    <3>4. Recorded(n)'
      BY <3>2, <3>3 DEF Recorded
    <3>5. \A x \in Dirs : x # b /\ x \notin Subs(b) => meta'[x] = meta[x] /\ cache'[x] = cache[x]
      BY <2>3, <3>1, <3>2
    <3> QED BY <2>6, <3>1, <3>3, <3>4, <3>5
  <2>14. CASE Caches(q, n)
    <3>1. /\ q.pc = "many" /\ meta' = meta /\ RefreshedAs(n, q, Tail(q.routes))
          /\ n.shown = Shown(q, b, q.total)
      BY <1>10, <2>0, <2>14 DEF Caches, RowDone
    <3>2. \A x \in Dirs : cache'[x] = IF q.values[x] = None THEN cache[x] ELSE q.values[x]
      BY <2>14 DEF Caches
    <3>3. \A s \in q.shown : Parent(s) = q.in.dir /\ Follows(s)'
      BY <2>3, <2>5, <3>1, <3>2
    <3>4. Follows(b)'
      <4>1. /\ Present(b)' = Present(b) /\ Subs(b)' = Subs(b) /\ Subs(b) \subseteq Dirs
            /\ \A x \in Dirs : Total(x)' = Total(x) /\ Total(x) \in Int
        BY <1>1, FilesStay, TotalsStay, HeldFinite DEF Subs
      <4> SUFFICES ASSUME Present(b), \A c \in Subs(b) : Exactly(c)'
                   PROVE  Exactly(b)'
        BY <4>1 DEF Follows
      <4>2. q.left = {} /\ Subs(b) \ {} = Subs(b)
        BY <2>1, <3>1 DEF Adds
      <4>3. /\ \A c \in Subs(b) : q.values[c] # None
            /\ (\A c \in Subs(b) : q.values[c] = Total(c))
                 => q.total = Cardinality(PartOf(b, Subs(b)))
        BY <2>0, <2>1, <3>1, <4>2 DEF Adds
      <4>4. \A c \in Subs(b) : q.values[c] = Total(c)
        <5> SUFFICES ASSUME NEW c \in Subs(b) PROVE q.values[c] = Total(c)
          OBVIOUS
        <5>1. c \in Dirs /\ q.values[c] # None
          BY <4>1, <4>3
        <5>2. meta[c].size = q.values[c]
          BY <2>1, <3>1, <5>1 DEF Recorded
        <5>3. meta[c].size = Total(c)
          BY <3>1, <4>1, <5>1 DEF Exactly
        <5> QED BY <5>2, <5>3
      <4>5. q.total = Total(b)
        <5>1. PartOf(b, Subs(b)) = HeldUnder(b)
          BY <1>1, <2>2, PartIs
        <5> QED BY <4>3, <4>4, <5>1 DEF Total
      <4>6. q.values[b] = q.total /\ q.values[b] # None
        <5>1. q.values[At(q)] = q.total
          BY <1>3, <1>10, <3>1 DEF Ready, Summing
        <5>2. None \notin Int
          BY DirMetadataAssumption
        <5> QED BY <1>4, <2>0, <5>1, <5>2
      <4>7. meta[b] # None /\ meta[b].size = q.total
        BY <2>1, <2>2, <3>1, <4>6 DEF Recorded
      <4> QED BY <2>2, <3>1, <3>2, <4>1, <4>5, <4>6, <4>7 DEF Exactly
    <3>5. \A s \in n.shown : Parent(s) = q.in.dir /\ Follows(s)'
      BY <2>2, <3>1, <3>3, <3>4 DEF Shown
    <3>6. /\ n.routes = Tail(q.routes) /\ n.pc \in {"listed", "scan"} /\ n.values = NoValues
          /\ n.stage = "rows" => n.pc = "scan"
      BY <3>1 DEF RefreshedAs
    <3>7. n.stage = "rows" => Adds(n)' /\ Recorded(n)'
      BY <3>6 DEF Adds, Recorded, NoValues
    <3>8. \A s \in Ahead(Tail(q.routes)) : Parent(s) = q.in.dir /\ s \notin n.shown
      BY <2>1, <2>2, <3>1 DEF Shown
    <3> QED BY <1>7, <2>2, <3>5, <3>6, <3>7, <3>8 DEF Refreshing
  <2>15. CASE Scans(q, n)
    <3>1. q.pc = "scan" /\ meta' = meta /\ cache' = cache /\ q.values = NoValues
      BY <2>1, <2>15 DEF Scans, Adds
    <3>2. ScannedAs(n, q, IF Present(b) THEN own[b] ELSE -1, IF Present(b) THEN Subs(b) ELSE {})
      BY <2>0, <2>15 DEF Scans, Present
    <3>3. /\ n.stage = "rows" /\ n.routes = q.routes /\ n.shown = q.shown /\ At(n) = b
          /\ n.pc \in {"get", "bulk"} /\ (n.pc = "bulk" => n.left = {}) /\ n.left \subseteq Subs(b)
          /\ \A x \in Dirs \ {b} : n.values[x] = None
          /\ Present(b) => n.left = Subs(b) /\ n.total = own[b]
      BY <1>10, <2>0, <3>1, <3>2 DEF ScannedAs, NoValues, At
    <3>4. Present(b) => /\ Subs(b) \ n.left = {}
                        /\ n.total = Cardinality(PartOf(b, Subs(b) \ n.left))
      <4>1. Present(b) => Cardinality(PartOf(b, {})) = own[b]
        BY <1>1, <2>2, PartIs
      <4>2. Present(b) => Subs(b) \ n.left = {}
        BY <3>3
      <4> QED BY <3>3, <4>1, <4>2
    <3>5. Adds(n)
      BY <3>3, <3>4 DEF Adds
    <3> QED BY <2>6, <3>1, <3>3, <3>5 DEF Recorded
  <2>16. ~Counts(q, n) /\ ~Sets(q, n) /\ ~SetsCached(q, n) /\ ~ReadsFlags(q, n) /\ ~Ends(q, n)
    BY <1>10, <2>1 DEF Counts, Sets, SetsCached, ReadsFlags, Ends, RowPcs
  <2> QED BY <1>2, <2>8, <2>9, <2>10, <2>11, <2>12, <2>13, <2>14, <2>15, <2>16 DEF OnList
<1> QED BY <1>7, <1>9, <1>10

LEMMA DirectoryRefreshes ==
  ASSUME RefreshInv, NEW r \in Requests, DirectoryStep(r)
  PROVE  RefreshInv'
<1> DEFINE q == req[r]
<1>1. TypeInv /\ RepairInv' /\ Active(r)
  BY DirectoryRepairs, DirectoryIs DEF RefreshInv, RepairInv
<1>2. PICK n : QueryOK(n) /\ Go(r, n) /\ OnOwn(q, n)
  BY <1>1, DirectoryIs
<1>3. ASSUME NEW routes, OnItsWay(n, q, routes)
      PROVE  (n.pc # "idle" => n.alone = q.alone) /\ n.stage \in {"none", "forward"}
  BY <1>3, IdleIs DEF OnItsWay
<1>4. (n.pc # "idle" => n.alone = q.alone) /\ n.stage \in {"none", "forward"}
  BY <1>2, <1>3, IdleIs DEF OnOwn, Unlinks, Clears, Removes, Forgets, Uncaches, SetsFlags,
         FindsTaken, StaysAs
<1>5. Refreshing(n)'
  BY <1>4 DEF Refreshing
<1> QED BY <1>1, <1>2, <1>4, <1>5, RefreshGoes

LEMMA AskingRefreshes ==
  ASSUME RefreshInv, NEW r \in Requests, Asking(r)
  PROVE  RefreshInv'
<1>0. PICK n : n = req'[r]
  OBVIOUS
<1>1. TypeInv /\ RepairInv'
  BY AskingRepairs DEF RefreshInv, RepairInv
<1>2. /\ Beginning(n, own, own') /\ QueryOK(n) /\ ~Active(r)
      /\ \A u \in Requests \ {r} : req'[u] = [req[u] EXCEPT !.alone = req[u].alone /\ ~Active(u)]
  BY <1>0, <1>1, AskingIs
<1>3. ASSUME NEW u \in Requests \ {r} PROVE Refreshing(req[u])'
  <2>1. req[u] \in Query /\ (req[u].alone /\ ~Active(u)) \in BOOLEAN /\ Placed(req[u])
    BY <1>1 DEF TypeInv, Queries, QueryOK
  <2>2. req'[u] = [req[u] EXCEPT !.alone = req[u].alone /\ ~Active(u)]
    BY <1>2
  <2>3. Alike(req'[u], req[u]) /\ req'[u].alone = (req[u].alone /\ ~Active(u))
    BY <2>1, <2>2, AloneIs
  <2> QED BY <2>1, <2>3 DEF Refreshing, Placed, Active, Alike
<1>4. Refreshing(n)'
  <2>1. CASE Listing(n, own, own')
    <3>1. \A d \in n.left : Parent(d) = n.in.dir
      BY <2>1 DEF Listing, Subs
    <3> QED BY <2>1, <3>1 DEF Listing, Refreshing
  <2>2. CASE Measuring(n, own, own')
    BY <2>2 DEF Measuring, Refreshing
  <2>3. CASE Changing(n, own, own') \/ Updating(n, own, own') \/ Creating(n, own, own')
    BY <2>3 DEF Changing, Updating, Creating, Refreshing
  <2> QED BY <1>2, <2>1, <2>2, <2>3 DEF Beginning
<1>5. \A u \in Requests : Refreshing(req[u])'
  BY <1>0, <1>3, <1>4
<1> QED BY <1>1, <1>5 DEF RefreshInv

LEMMA RefreshInit ==
  ASSUME DirMetadataInit
  PROVE  RefreshInv
<1>1. req = [r \in Requests |-> Idle] /\ Idle.stage = "none"
  BY IdleIs DEF DirMetadataInit
<1> QED BY <1>1, RepairInit DEF RefreshInv, Refreshing

LEMMA RefreshStep ==
  ASSUME RefreshInv, [DirMetadataNext]_vars
  PROVE  RefreshInv'
<1>1. CASE DirMetadataNext
  BY <1>1, AskingRefreshes, MetadataRefreshes, DirectoryRefreshes DEF DirMetadataNext
<1>2. CASE UNCHANGED vars
  <2>1. RepairInv'
    BY <1>2, RepairStep DEF RefreshInv
  <2>2. own' = own /\ meta' = meta /\ cache' = cache /\ req' = req
    BY <1>2 DEF vars, storeVars
  <2>3. ASSUME NEW r \in Requests PROVE Refreshing(req[r])'
    <3>1. PICK q : q = req[r] /\ QueryOK(q) /\ Refreshing(q)
      BY DEF RefreshInv, RepairInv, TypeInv, Queries
    <3>2. q \in Query /\ q.shown \subseteq Dirs /\ (q.stage = "rows" => At(q) \in Dirs)
      BY <3>1, OnwardIs DEF QueryOK, Query, Placed
    <3>3. \A s \in Dirs : Follows(s) => Follows(s)'
      <4>1. /\ \A s : Present(s)' = Present(s) /\ Subs(s)' = Subs(s)
            /\ \A x \in Dirs : Exactly(x)' = Exactly(x)
        BY <2>2, FilesStay, TotalsStay DEF Exactly
      <4>2. \A s : Subs(s) \subseteq Dirs
        BY DEF Subs
      <4> QED BY <4>1, <4>2 DEF Follows
    <3>4. q.stage = "rows" => (Adds(q) => Adds(q)')
      BY <2>2, <3>2, AddsStays
    <3>5. Recorded(q) => Recorded(q)'
      BY <2>2 DEF Recorded
    <3>6. Refreshing(q)'
      BY <3>1, <3>2, <3>3, <3>4, <3>5 DEF Refreshing
    <3> QED BY <2>2, <3>1, <3>6
  <2> QED BY <2>1, <2>3 DEF RefreshInv
<1> QED BY <1>1, <1>2

(* What the refresh button does repair: whatever was recorded or cached    *)
(* before, a refresh that was alone leaves the right number about each     *)
(* row whose sub-directories have the right numbers.                       *)
THEOREM RefreshesRepair == DirMetadataSpec => []RefreshRepairs
<1>1. DirMetadataInit => RefreshInv
  BY RefreshInit
<1>2. RefreshInv /\ [DirMetadataNext]_vars => RefreshInv'
  BY RefreshStep
<1>3. RefreshInv => RefreshRepairs
  <2> SUFFICES ASSUME RefreshInv, NEW r \in Requests, req[r].pc = "listed",
                      req[r].in.op = "refresh", req[r].alone, NEW s \in req[r].shown
               PROVE  Follows(s)
    BY DEF RefreshRepairs, Follows
  <2>1. QueryOK(req[r]) /\ Refreshing(req[r])
    BY DEF RefreshInv, RepairInv, TypeInv, Queries
  <2>2. req[r].stage = "list"
    BY <2>1 DEF QueryOK, Placed, OwnPcs, ForwardPcs, RowPcs, Query
  <2> QED BY <2>1, <2>2 DEF Refreshing
<1> QED BY <1>1, <1>2, <1>3, PTL DEF DirMetadataSpec
=============================================================================
