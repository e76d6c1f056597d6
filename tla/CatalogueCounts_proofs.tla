----------------------- MODULE CatalogueCounts_proofs -----------------------
(***************************************************************************)
(* The tag counters of the catalogue, for any numbers of records, tags,    *)
(* series, requests and inputs, as long as no two actors were at one video *)
(* or at series at once.                                                   *)
(*                                                                         *)
(* CountsAgree speaks of a quiet catalogue.  In between, the counters are  *)
(* the right ones for some tags c of the records: those each is counted    *)
(* with.  They are not its tags only where a request has written the       *)
(* record and has yet to count it (Due), and then the difference it is     *)
(* about to send is the way from c to the tags (Bill).  A request that has *)
(* yet to write knows that what it has read is still so.  The records, the *)
(* counters and the requests are arguments where a fact is used on both    *)
(* sides of a step.                                                        *)
(***************************************************************************)
EXTENDS Catalogue_proofs

(* The tags of the records d, those a tag t is on when they are b, and how *)
(* far the counter of t moves when the records of ids go from b to c.      *)
TagsOf(d) == [i \in Ids |-> d[i].tags]
Bearing(b, t) == {i \in Ids : t \in b[i]}
Shift(ids, b, c, t) ==
  Cardinality({i \in ids : t \in c[i] \ b[i]}) - Cardinality({i \in ids : t \in b[i] \ c[i]})
Tagging == [Ids -> SUBSET Tags]

(* A request that has written its records and not their counters yet.      *)
Deleting == {"delete", "batch delete", "directory delete"}
Due(q) ==
  \/ q.pc = "count"
  \/ q.in.op \in Deleting /\ q.pc \in Pulling
  \/ Removing(q) /\ q.pc \in {"recheck", "unlink"}

(* What a request has read is still so, and what it will count is what it  *)
(* will write, or has written: of the records d, counted with the tags c.  *)
Bill(q, c, d) ==
  /\ q.in.op = "edit" /\ q.pc = "lock" => Seen(q) = {q.in.id}
  /\ \/ q.in.op = "edit" /\ q.pc = "lock"
     \/ q.in.op = "delete" /\ q.pc \in {"lock", "remove"}
     => q.seen[q.in.id].tags = d[q.in.id].tags
  /\ q.in.op \in OneRecord /\ q.pc \notin {"lock"} \cup Counts =>
       \A t \in Tags : q.delta[t] = Shift({q.in.id}, TagsOf(d), TagsOf(q.seen), t)
  /\ q.in.op = "batch update" => q.found = {}
  /\ q.in.op = "batch update" /\ q.pc \in Assigning \cup {"bulk"} =>
       /\ Seen(q) \subseteq Elems(q.in.ids)
       /\ \A i \in Seen(q) : d[i].path # None /\ q.seen[i].tags = d[i].tags
       /\ q.delta = Counting(q).delta
  /\ q.in.op = "directory update" /\ q.pc = "bulk" =>
       /\ Seen(q) = {i \in Ids : d[i].path \in q.found}
       /\ \A i \in Seen(q) : q.seen[i].path = d[i].path /\ q.seen[i].tags = d[i].tags
       /\ q.delta = Counting(q).delta
  /\ q.in.op = "batch delete" /\ q.pc = "remove" =>
       \A i \in Elems(q.in.ids) : q.seen[i].tags = d[i].tags
  /\ q.in.op = "directory delete" /\ q.pc = "remove" =>
       \A i \in Seen(q) : q.seen[i].tags = d[i].tags
  /\ q.pc = "recheck" =>
       /\ Seen(q) \subseteq Touches(q.in)
       /\ \A i \in Seen(q) : d[i].tags = {} /\ c[i] = q.seen[i].tags
       /\ \A i \in Touches(q.in) \ Seen(q) : c[i] = d[i].tags
  /\ Due(q) /\ q.pc # "recheck" =>
       \A t \in Tags : q.delta[t] = Shift(Touches(q.in), c, TagsOf(d), t)

(* The records d are counted, by n, with the tags c, but for those that a  *)
(* request at work has yet to count; a counter at zero is about to go.     *)
Value(n) == IF n = None THEN 0 ELSE n
Tallied(c, d, n, rs) ==
  /\ \A t \in Tags : Value(n[t]) = Cardinality(Bearing(c, t))
  /\ \A t \in Tags : n[t] = 0 => \E r \in Requests : rs[r].pc = "prune"
  /\ \A i \in Ids : c[i] # d[i].tags =>
       \E r \in Requests : rs[r].pc # "done" /\ Due(rs[r]) /\ i \in Touches(rs[r].in)
  /\ \A r \in Requests : rs[r].pc \notin {"new", "done"} => Bill(rs[r], c, d)

Untagged(d) == \A i \in Ids : d[i].path = None => d[i].tags = {}
Balanced == Untagged(doc) /\ \E c \in Tagging : Tallied(c, doc, count, req)
CountInv == ~contended => Balanced

(* Nobody contends, and all the invariants hold. *)
Orderly == Untroubled /\ Balanced

-----------------------------------------------------------------------------
(* Sets of records, and how far counters move. *)

LEMMA IdsFinite ==
  ASSUME NEW S \in SUBSET Ids
  PROVE  IsFiniteSet(S) /\ Cardinality(S) \in Nat
BY FS_Subset, FS_CardinalityType, CatalogueAssumption

(* A counter that moves so is right for the new tags. *)
LEMMA ShiftBearing ==
  ASSUME NEW b \in Tagging, NEW c \in Tagging, NEW ids \in SUBSET Ids, NEW t \in Tags,
         \A i \in Ids \ ids : c[i] = b[i]
  PROVE  /\ Cardinality(Bearing(c, t)) = Cardinality(Bearing(b, t)) + Shift(ids, b, c, t)
         /\ Cardinality(Bearing(b, t)) \in Nat /\ Cardinality(Bearing(c, t)) \in Nat
         /\ Shift(ids, b, c, t) \in Int
<1> DEFINE K == Bearing(b, t)  A == {i \in ids : t \in c[i] \ b[i]}
           B == {i \in ids : t \in b[i] \ c[i]}  L == K \ B
<1>1. /\ K \in SUBSET Ids /\ A \in SUBSET Ids /\ B \in SUBSET K /\ L \in SUBSET Ids
      /\ Bearing(c, t) = L \cup A /\ L \cap A = {} /\ K \cap B = B
  BY DEF Bearing
<1>2. Shift(ids, b, c, t) = Cardinality(A) - Cardinality(B)
  BY DEF Shift
<1> HIDE DEF K, A, B, L
<1>3. /\ IsFiniteSet(K) /\ Cardinality(K) \in Nat /\ IsFiniteSet(A) /\ Cardinality(A) \in Nat
      /\ IsFiniteSet(B) /\ Cardinality(B) \in Nat /\ IsFiniteSet(L) /\ Cardinality(L) \in Nat
  BY <1>1, IdsFinite
<1>4. Cardinality(L) = Cardinality(K) - Cardinality(B)
  <2>1. Cardinality(K \ B) = Cardinality(K) - Cardinality(K \cap B)
    BY <1>3, FS_Difference
  <2> QED BY <1>1, <2>1 DEF L
<1>5. Cardinality(L \cup A) = Cardinality(L) + Cardinality(A)
  <2>1. Cardinality(L \cup A) = Cardinality(L) + Cardinality(A) - Cardinality(L \cap A)
    BY <1>3, FS_Union
  <2>2. Cardinality(L \cap A) = 0
    BY <1>1, FS_EmptySet
  <2> QED BY <1>3, <2>1, <2>2
<1>6. K = Bearing(b, t)
  BY DEF K
<1> QED BY <1>1, <1>2, <1>3, <1>4, <1>5, <1>6

(* Only the tags of ids matter, *)
LEMMA ShiftSame ==
  ASSUME NEW ids, NEW b, NEW c, NEW e, NEW f, \A i \in ids : e[i] = b[i] /\ f[i] = c[i], NEW t
  PROVE  Shift(ids, e, f, t) = Shift(ids, b, c, t)
<1>1. /\ {i \in ids : t \in f[i] \ e[i]} = {i \in ids : t \in c[i] \ b[i]}
      /\ {i \in ids : t \in e[i] \ f[i]} = {i \in ids : t \in b[i] \ c[i]}
  OBVIOUS
<1> QED BY <1>1 DEF Shift

(* and only those that change. *)
LEMMA ShiftWider ==
  ASSUME NEW ids, NEW more, ids \subseteq more, NEW b, NEW c, \A i \in more \ ids : c[i] = b[i],
         NEW t
  PROVE  Shift(more, b, c, t) = Shift(ids, b, c, t)
<1>1. /\ {i \in more : t \in c[i] \ b[i]} = {i \in ids : t \in c[i] \ b[i]}
      /\ {i \in more : t \in b[i] \ c[i]} = {i \in ids : t \in b[i] \ c[i]}
  OBVIOUS
<1> QED BY <1>1 DEF Shift

(* One record, that a counter says does not change, does not. *)
LEMMA ShiftOne ==
  ASSUME NEW i \in Ids, NEW b, NEW c, b[i] \in SUBSET Tags, c[i] \in SUBSET Tags,
         \A t \in Tags : Shift({i}, b, c, t) = 0
  PROVE  b[i] = c[i]
<1>1. ASSUME NEW t \in Tags, t \in c[i], t \notin b[i] PROVE FALSE
  <2>1. {j \in {i} : t \in c[j] \ b[j]} = {i} /\ {j \in {i} : t \in b[j] \ c[j]} = {}
    BY <1>1
  <2>2. Cardinality({i}) = 1 /\ Cardinality({}) = 0
    BY FS_Singleton, FS_EmptySet
  <2>3. Shift({i}, b, c, t) = Cardinality({i}) - Cardinality({})
        \/ Shift({i}, b, c, t) = Cardinality({}) - Cardinality({i})
    BY <2>1 DEF Shift
  <2> QED BY <2>2, <2>3
<1>2. ASSUME NEW t \in Tags, t \notin c[i], t \in b[i] PROVE FALSE
  <2>1. {j \in {i} : t \in c[j] \ b[j]} = {} /\ {j \in {i} : t \in b[j] \ c[j]} = {i}
    BY <1>2
  <2>2. Cardinality({i}) = 1 /\ Cardinality({}) = 0
    BY FS_Singleton, FS_EmptySet
  <2>3. Shift({i}, b, c, t) = Cardinality({i}) - Cardinality({})
        \/ Shift({i}, b, c, t) = Cardinality({}) - Cardinality({i})
    BY <2>1 DEF Shift
  <2> QED BY <2>2, <2>3
<1> QED BY <1>1, <1>2

-----------------------------------------------------------------------------
(* Steps. *)

(* What a request counts is about the records it touches. *)
LEMMA BillSame ==
  ASSUME NEW q, AtWork(q), NEW c, NEW d, Bill(q, c, d), NEW b, NEW e,
         \A i \in Touches(q.in) :
           b[i] = c[i] /\ e[i].tags = d[i].tags /\ (e[i].path = None <=> d[i].path = None),
         WholeDir(q.in) => \A i \in Ids : e[i].path = d[i].path
  PROVE  Bill(q, b, e)
<1> DEFINE T == Touches(q.in)  in == q.in
<1>1. /\ q.in.op \in Ops /\ q.in.id \in Ids /\ q.in.ids \in Seq(Ids) /\ Seen(q) \subseteq Ids
      /\ Elems(q.in.ids) \subseteq Ids
  <2>1. q.in.op \in Ops /\ q.in.id \in Ids /\ q.in.ids \in Seq(Ids)
    BY DEF AtWork, Input, Question
  <2> QED BY <2>1, ElemsIn DEF Seen
<1>2. /\ in.op \in OneRecord \cup {"delete"} => in.id \in T
      /\ in.op \in {"batch update", "batch delete"} => Elems(in.ids) \subseteq T
      /\ WholeDir(in) => T = Ids
      /\ T \subseteq Ids
  BY <1>1 DEF Touches, ByDirectory, OneRecord, WholeDir
<1>3. \A i \in T : /\ b[i] = c[i] /\ e[i].tags = d[i].tags /\ (e[i].path = None <=> d[i].path = None)
                   /\ TagsOf(e)[i] = TagsOf(d)[i]
  BY <1>2 DEF TagsOf
<1>4. \A t : Shift(T, b, TagsOf(e), t) = Shift(T, c, TagsOf(d), t)
  BY <1>3, ShiftSame
<1>5. in.op \in OneRecord => \A t : Shift({in.id}, TagsOf(e), TagsOf(q.seen), t)
                                   = Shift({in.id}, TagsOf(d), TagsOf(q.seen), t)
  <2> SUFFICES ASSUME in.op \in OneRecord, NEW t
               PROVE  Shift({in.id}, TagsOf(e), TagsOf(q.seen), t)
                      = Shift({in.id}, TagsOf(d), TagsOf(q.seen), t)
    OBVIOUS
  <2>1. \A i \in {in.id} : TagsOf(e)[i] = TagsOf(d)[i]
    BY <1>2, <1>3
  <2> HIDE DEF in
  <2> QED BY <2>1, ShiftSame
<1> HIDE DEF T
<1>6. in.op = "edit" => in.op \in OneRecord
  BY DEF OneRecord
<1>7. in.op \in OneRecord \/ in.op = "delete" => e[in.id].tags = d[in.id].tags
  BY <1>2, <1>3
<1>8. in.op = "batch update" /\ q.pc \in Assigning \cup {"bulk"} =>
        \A i \in Seen(q) : e[i].path # None /\ q.seen[i].tags = e[i].tags
  BY <1>2, <1>3 DEF Bill
<1>9. in.op = "directory update" /\ q.pc = "bulk" =>
       /\ Seen(q) = {i \in Ids : e[i].path \in q.found}
       /\ \A i \in Seen(q) : q.seen[i].path = e[i].path /\ q.seen[i].tags = e[i].tags
  BY <1>1, <1>2, <1>3 DEF Bill, WholeDir
<1>10. in.op = "batch delete" /\ q.pc = "remove" =>
       \A i \in Elems(q.in.ids) : q.seen[i].tags = e[i].tags
  BY <1>2, <1>3 DEF Bill
<1>11. in.op = "directory delete" /\ q.pc = "remove" =>
       \A i \in Seen(q) : q.seen[i].tags = e[i].tags
  BY <1>1, <1>2, <1>3 DEF Bill, WholeDir
<1>12. q.pc = "recheck" =>
       /\ \A i \in Seen(q) : e[i].tags = {} /\ b[i] = q.seen[i].tags
       /\ \A i \in Touches(q.in) \ Seen(q) : b[i] = e[i].tags
  BY <1>3 DEF Bill, T
<1> QED BY <1>4, <1>5, <1>6, <1>7, <1>8, <1>9, <1>10, <1>11, <1>12 DEF Bill, T

(* The others are not at the records ids, and find the rest as it was.     *)
OutOfTheWay(r, ids) ==
  /\ \A u \in Requests \ {r} : Active(u) =>
       /\ Touches(req[u].in) \cap ids = {}
       /\ \A i \in Touches(req[u].in) : doc'[i].path = None <=> doc[i].path = None
       /\ WholeDir(req[u].in) => \A i \in Ids : doc'[i].path = doc[i].path
  /\ Active(r) /\ Due(req[r]) => Touches(req[r].in) \subseteq ids

(* The records ids are counted, or p is yet to count them. *)
CountedBy(p, b, ids) ==
  /\ \A i \in ids : b[i] # doc'[i].tags => p # Done /\ Due(p) /\ i \in Touches(p.in)
  /\ p = Done \/ p.pc # "done"
  /\ p = Done \/ Bill(p, b, doc')

(* A request makes a step: it may write the tags of the records ids, which *)
(* nobody else is at, and count them.                                      *)
LEMMA TallyStep ==
  ASSUME RequestsOK, NEW r \in Requests, NEW p, Go(r, p), NEW ids \in SUBSET Ids,
         OutOfTheWay(r, ids),
         NEW c \in Tagging, Tallied(c, doc, count, req), NEW b \in Tagging,
         \A i \in Ids \ ids : b[i] = c[i] /\ doc'[i].tags = doc[i].tags,
         CountedBy(p, b, ids),
         \A t \in Tags : Value(count'[t]) = Cardinality(Bearing(b, t)),
         \A t \in Tags : count'[t] = 0 =>
           p.pc = "prune" \/ \E u \in Requests \ {r} : req[u].pc = "prune"
  PROVE  Tallied(b, doc', count', req')
<1>1. req' = [req EXCEPT ![r] = p] /\ req \in [Requests -> Query]
  BY DEF Go, RequestsOK
<1>2. req'[r] = p /\ \A u \in Requests \ {r} : req'[u] = req[u]
  BY <1>1
<1>3. \A t \in Tags : count'[t] = 0 => \E u \in Requests : req'[u].pc = "prune"
  BY <1>2
<1>4. ASSUME NEW i \in Ids, b[i] # doc'[i].tags
      PROVE  \E u \in Requests : req'[u].pc # "done" /\ Due(req'[u]) /\ i \in Touches(req'[u].in)
  <2>1. CASE i \in ids
    BY <1>2, <1>4, <2>1, DoneIs DEF CountedBy
  <2>2. CASE i \notin ids
    <3>1. c[i] # doc[i].tags
      BY <1>4, <2>2
    <3>2. PICK u \in Requests : req[u].pc # "done" /\ Due(req[u]) /\ i \in Touches(req[u].in)
      BY <3>1 DEF Tallied
    <3>3. Active(u)
      BY <3>2 DEF Active, Due, Pulling
    <3>4. u # r
      BY <2>2, <3>2, <3>3 DEF OutOfTheWay
    <3> QED BY <1>2, <3>2, <3>4
  <2> QED BY <2>1, <2>2
<1>5. ASSUME NEW u \in Requests, req'[u].pc \notin {"new", "done"} PROVE Bill(req'[u], b, doc')
  <2>1. CASE u = r
    BY <1>2, <1>5, <2>1, DoneIs DEF CountedBy
  <2>2. CASE u # r
    <3>1. Active(u) /\ AtWork(req[u]) /\ Touches(req[u].in) \subseteq Ids
      BY <1>2, <1>5, <2>2, ActiveOne DEF Active
    <3>2. Bill(req[u], c, doc)
      BY <3>1 DEF Tallied, Active
    <3>3. \A i \in Touches(req[u].in) : b[i] = c[i] /\ doc'[i].tags = doc[i].tags
      BY <2>2, <3>1 DEF OutOfTheWay
    <3>4. /\ \A i \in Touches(req[u].in) : doc'[i].path = None <=> doc[i].path = None
          /\ WholeDir(req[u].in) => \A i \in Ids : doc'[i].path = doc[i].path
      BY <2>2, <3>1 DEF OutOfTheWay
    <3> QED BY <1>2, <2>2, <3>1, <3>2, <3>3, <3>4, BillSame
  <2> QED BY <2>1, <2>2
<1> QED BY <1>3, <1>4, <1>5 DEF Tallied

(* The same of a request at work, which touches nobody else's records.     *)
LEMMA OneTallies ==
  ASSUME Orderly, NEW r \in Requests, Active(r), NEW p, Go(r, p), p = Done \/ p.pc # "done",
         NEW c \in Tagging, Tallied(c, doc, count, req), NEW b \in Tagging,
         \A i \in Ids \ Touches(req[r].in) :
           b[i] = c[i] /\ doc'[i].tags = doc[i].tags /\ doc'[i].path = doc[i].path,
         \A i \in Touches(req[r].in) :
           b[i] # doc'[i].tags => p # Done /\ Due(p) /\ p.in = req[r].in,
         p = Done \/ Bill(p, b, doc'), Untagged(doc'),
         \A t \in Tags : Value(count'[t]) = Cardinality(Bearing(b, t)),
         \A t \in Tags : count'[t] = 0 =>
           p.pc = "prune" \/ \E u \in Requests \ {r} : req[u].pc = "prune"
  PROVE  Balanced'
<1> DEFINE T == Touches(req[r].in)
<1>1. RequestsOK /\ T \in SUBSET Ids /\ T # {}
  BY ActiveOne DEF Orderly, Untroubled, CatalogueInv, Kept
<1>2. ASSUME NEW u \in Requests \ {r}, Active(u)
      PROVE  Touches(req[u].in) \cap T = {} /\ Touches(req[u].in) \subseteq Ids
  <2>1. Touches(req[u].in) \cap T = {}
    BY <1>2 DEF Orderly, Untroubled, InOrder, KeepApart, Crosses
  <2> QED BY <1>1, <1>2, <2>1, ActiveOne
<1>3. \A u \in Requests \ {r} : Active(u) => ~WholeDir(req[u].in)
  BY <1>1, <1>2 DEF WholeDir, Touches, ByDirectory
<1>4. Tallied(b, doc', count', req')
  <2>1. OutOfTheWay(r, T)
    BY <1>2, <1>3 DEF OutOfTheWay
  <2>2. CountedBy(p, b, T)
    <3>1. \A i \in T : b[i] # doc'[i].tags => p # Done /\ Due(p) /\ i \in Touches(p.in)
      OBVIOUS
    <3>2. p = Done \/ p.pc # "done"
      OBVIOUS
    <3>3. p = Done \/ Bill(p, b, doc')
      OBVIOUS
    <3> HIDE DEF T
    <3> QED BY <3>1, <3>2, <3>3 DEF CountedBy
  <2>3. \A i \in Ids \ T : b[i] = c[i] /\ doc'[i].tags = doc[i].tags
    OBVIOUS
  <2> HIDE DEF T
  <2> QED BY <1>1, <2>1, <2>2, <2>3, TallyStep
<1> QED BY <1>4 DEF Balanced

(* The records of a request with nothing left to count are all counted. *)
LEMMA NothingDue ==
  ASSUME Orderly, NEW r \in Requests, Active(r), ~Due(req[r]), NEW c,
         Tallied(c, doc, count, req), NEW i \in Touches(req[r].in)
  PROVE  c[i] = doc[i].tags
<1>1. i \in Ids
  BY ActiveOne DEF Orderly, Untroubled, CatalogueInv, Kept
<1>2. SUFFICES ASSUME c[i] # doc[i].tags PROVE FALSE
  OBVIOUS
<1>3. PICK u \in Requests : req[u].pc # "done" /\ Due(req[u]) /\ i \in Touches(req[u].in)
  BY <1>1, <1>2 DEF Tallied
<1>4. Active(u) /\ u # r
  BY <1>3 DEF Active, Due, Pulling
<1> QED BY <1>3, <1>4 DEF Orderly, Untroubled, InOrder, KeepApart, Crosses

(* A request leaves the counters alone. *)
LEMMA KeepTallies ==
  ASSUME Orderly, NEW r \in Requests, Active(r), NEW p, Go(r, p), p = Done \/ p.pc # "done",
         count' = count, req[r].pc # "prune", Untagged(doc'),
         \A i \in Ids \ Touches(req[r].in) :
           doc'[i].tags = doc[i].tags /\ doc'[i].path = doc[i].path,
         \A c \in Tagging :
           /\ Bill(req[r], c, doc)
           /\ ~Due(req[r]) => \A i \in Touches(req[r].in) : c[i] = doc[i].tags
           => /\ p = Done \/ Bill(p, c, doc')
              /\ \/ p # Done /\ Due(p) /\ p.in = req[r].in
                 \/ \A i \in Touches(req[r].in) : c[i] = doc'[i].tags
  PROVE  Balanced'
<1>1. PICK c \in Tagging : Tallied(c, doc, count, req)
  BY DEF Orderly, Balanced
<1>2. Bill(req[r], c, doc)
  BY <1>1 DEF Tallied, Active
<1>3. ASSUME ~Due(req[r]), NEW i \in Touches(req[r].in) PROVE c[i] = doc[i].tags
  BY <1>1, <1>3, NothingDue
<1>4. /\ p = Done \/ Bill(p, c, doc')
      /\ \/ p # Done /\ Due(p) /\ p.in = req[r].in
         \/ \A i \in Touches(req[r].in) : c[i] = doc'[i].tags
  BY <1>2, <1>3
<1>5. \A t \in Tags : count'[t] = 0 =>
        p.pc = "prune" \/ \E u \in Requests \ {r} : req[u].pc = "prune"
  BY <1>1 DEF Tallied
<1>6. \A t \in Tags : Value(count'[t]) = Cardinality(Bearing(c, t))
  BY <1>1 DEF Tallied
<1>7. \A i \in Touches(req[r].in) : c[i] # doc'[i].tags => p # Done /\ Due(p) /\ p.in = req[r].in
  BY <1>4
<1> QED BY <1>1, <1>4, <1>5, <1>6, <1>7, OneTallies

(* A request counts what it has written. *)
LEMMA PaidTallies ==
  ASSUME Orderly, NEW r \in Requests, Active(r), NEW p, Go(r, p), p = Done \/ p.pc # "done",
         \A i \in Ids : doc'[i].tags = doc[i].tags /\ doc'[i].path = doc[i].path,
         Due(req[r]), req[r].pc # "recheck",
         \A t \in Tags : Value(count'[t]) = Value(count[t]) + req[r].delta[t],
         \A t \in Tags : count'[t] = 0 => p.pc = "prune" \/ count[t] = 0,
         p = Done \/ \A b : Bill(p, b, doc')
  PROVE  Balanced'
<1> DEFINE q == req[r]  T == Touches(q.in)
<1>1. PICK c \in Tagging : Tallied(c, doc, count, req)
  BY DEF Orderly, Balanced
<1>2. /\ doc \in [Ids -> Rec] /\ T \in SUBSET Ids /\ RequestsOK
  BY ActiveOne DEF Orderly, Untroubled, CatalogueInv, Kept, DataOK
<1> DEFINE b == [i \in Ids |-> IF i \in T THEN doc[i].tags ELSE c[i]]
<1>3. b \in Tagging
  BY <1>2 DEF Tagging, Rec
<1>4. \A i \in Ids \ T : b[i] = c[i]
  OBVIOUS
<1>5. \A i \in T : b[i] = doc[i].tags /\ b[i] = TagsOf(doc)[i]
  BY <1>2 DEF TagsOf
<1> HIDE DEF b
<1>6. ASSUME NEW t \in Tags PROVE Value(count'[t]) = Cardinality(Bearing(b, t))
  <2>1. q.delta[t] = Shift(T, c, TagsOf(doc), t)
    BY <1>1 DEF Tallied, Active, Bill
  <2>2. Shift(T, c, b, t) = Shift(T, c, TagsOf(doc), t)
    BY <1>5, ShiftSame
  <2>3. Cardinality(Bearing(b, t)) = Cardinality(Bearing(c, t)) + Shift(T, c, b, t)
    BY <1>2, <1>3, <1>4, ShiftBearing
  <2>4. Value(count[t]) = Cardinality(Bearing(c, t))
    BY <1>1 DEF Tallied
  <2> QED BY <2>1, <2>2, <2>3, <2>4
<1>7. \A t \in Tags : count'[t] = 0 =>
        p.pc = "prune" \/ \E u \in Requests \ {r} : req[u].pc = "prune"
  <2>1. q.pc # "prune"
    BY DEF Due, Pulling
  <2> QED BY <1>1, <2>1 DEF Tallied
<1>8. Untagged(doc')
  BY DEF Orderly, Balanced, Untagged
<1>9. \A i \in T : b[i] = doc'[i].tags
  BY <1>2, <1>5
<1> QED BY <1>1, <1>3, <1>4, <1>6, <1>7, <1>8, <1>9, OneTallies

-----------------------------------------------------------------------------
(* The calls on the series: nothing is counted, and what is due stays due. *)

(* What the counters depend on. *)
Copies(q, p) ==
  /\ p.in = q.in /\ p.delta = q.delta /\ p.found = q.found
  /\ \A i \in Ids : p.seen[i].path = q.seen[i].path /\ p.seen[i].tags = q.seen[i].tags

Onward(q, p) ==
  \/ p = Done /\ (q.in.op \in Deleting => q.delta = NoChange)
  \/ /\ Copies(q, p)
     /\ \/ p.pc \in Pulling
        \/ p.pc \in {"target", "place"} /\ q.in.op \notin Deleting
        \/ p.pc = "save" /\ q.in.op = "edit"
        \/ p.pc = "bulk" /\ q.in.op = "batch update"
        \/ p.pc = "count" /\ q.in.op \in Deleting
        \/ p.pc = "unlink" /\ q.in.op = "delete" /\ q.delta = NoChange

LEMMA SameOnward ==
  ASSUME NEW q, NEW o, Copies(q, o), NEW p, Onward(o, p)
  PROVE  Onward(q, p)
<1>1. o.in = q.in /\ o.delta = q.delta
  BY DEF Copies
<1>2. Copies(o, p) => Copies(q, p)
  BY DEF Copies
<1> QED BY <1>1, <1>2 DEF Onward

LEMMA PcCopies ==
  ASSUME NEW q \in Query, NEW c
  PROVE  Copies(q, [q EXCEPT !.pc = c]) /\ [q EXCEPT !.pc = c].pc = c
BY DEF Copies, Query

LEMMA SeriesOnward ==
  ASSUME NEW q \in Query, AtWork(q), q.in.op \in Serial
  PROVE  Onward(q, AfterSeries(q)) /\ Onward(q, AfterPull(q)) /\ Onward(q, ToPull(q))
<1>1. Onward(q, AfterSeries(q))
  <2>1. CASE q.in.op = "edit"
    <3> DEFINE e == [q.seen EXCEPT ![q.in.id].series = q.target]
               p == [q EXCEPT !.pc = "save", !.seen[q.in.id].series = q.target]
    <3>1. AfterSeries(q) = p
      BY <2>1 DEF AfterSeries
    <3>2. q.in.id \in Ids /\ q.seen \in [Ids -> Rec]
      BY DEF AtWork, Input, Question, QueryOK, Query
    <3>3. \A i \in Ids : e[i].path = q.seen[i].path /\ e[i].tags = q.seen[i].tags
      BY <3>2 DEF Rec
    <3>4. p = [[q EXCEPT !.pc = "save"] EXCEPT !.seen = e]
      BY DEF Query
    <3>5. p.pc = "save" /\ p.in = q.in /\ p.found = q.found /\ p.seen = e /\ p.delta = q.delta
      BY <3>4 DEF Query
    <3> HIDE DEF p, e
    <3> QED BY <2>1, <3>1, <3>3, <3>5 DEF Onward, Copies
  <2>2. CASE q.in.op = "batch update"
    <3>1. AfterSeries(q) = Done \/ AfterSeries(q) = [q EXCEPT !.pc = "bulk"]
      BY <2>2 DEF AfterSeries, ToBulk
    <3> QED BY <2>2, <3>1, PcCopies DEF Onward, Deleting
  <2>3. CASE q.in.op \in Deleting
    <3>1. \/ AfterSeries(q) = [q EXCEPT !.pc = "count"]
          \/ q.delta = NoChange /\ AfterSeries(q) = Done
          \/ q.delta = NoChange /\ q.in.op = "delete" /\ AfterSeries(q) = [q EXCEPT !.pc = "unlink"]
      BY <2>3 DEF AfterSeries, ToCount, AfterCount, Deleting
    <3>2. CASE AfterSeries(q) = [q EXCEPT !.pc = "count"]
      <4> DEFINE p == [q EXCEPT !.pc = "count"]
      <4>1. Copies(q, p) /\ p.pc = "count"
        BY PcCopies
      <4> HIDE DEF p
      <4> QED BY <2>3, <3>2, <4>1 DEF Onward, p
    <3>3. CASE q.delta = NoChange /\ AfterSeries(q) = Done
      BY <3>3 DEF Onward
    <3>4. CASE q.delta = NoChange /\ q.in.op = "delete" /\ AfterSeries(q) = [q EXCEPT !.pc = "unlink"]
      <4> DEFINE p == [q EXCEPT !.pc = "unlink"]
      <4>1. Copies(q, p) /\ p.pc = "unlink"
        BY PcCopies
      <4> HIDE DEF p
      <4> QED BY <3>4, <4>1 DEF Onward, p
    <3> QED BY <3>1, <3>2, <3>3, <3>4
  <2> QED BY <2>1, <2>2, <2>3 DEF Serial, Deleting
<1>2. Onward(q, [q EXCEPT !.pc = "refer"]) /\ Onward(q, [q EXCEPT !.pc = "affected"])
  BY PcCopies DEF Onward, Pulling
<1> QED BY <1>1, <1>2 DEF AfterPull, ToPull

LEMMA JoinOnward ==
  ASSUME NEW q \in Query, AtWork(q), q.in.op \in Serial, NEW s \in Series \cup {None}
  PROVE  Onward(q, ToJoin(q, s))
<1> DEFINE J == Joining(q, s)  p == [q EXCEPT !.target = s, !.ids = J, !.refs = J]
<1>1. J \subseteq Ids
  BY DEF Joining, Elems, Query
<1>2. p \in Query
  BY <1>1 DEF Query
<1>3. /\ p.pc = q.pc /\ p.in = q.in
      /\ p.order = q.order /\ p.members = q.members /\ p.placed = q.placed
      /\ p.seen = q.seen /\ p.found = q.found /\ p.delta = q.delta
  BY DEF Query
<1>4. ToJoin(q, s) = ToPull(p)
  BY DEF ToJoin
<1> HIDE DEF p
<1>5. AtWork(p) /\ Copies(q, p)
  BY <1>2, <1>3 DEF AtWork, QueryOK, Planned, Seen, Copies
<1> QED BY <1>2, <1>3, <1>4, <1>5, SeriesOnward, SameOnward

LEMMA CountingDelta ==
  ASSUME NEW q \in Query
  PROVE  Counting(q).delta = [t \in Tags |-> TagDelta(q, Retagged(q))[t]
                                + IF t \in q.in.add THEN Cardinality(New(q)) ELSE 0]
BY DEF Counting, Query

LEMMA CopiesCount ==
  ASSUME NEW q \in Query, NEW p \in Query, p.in = q.in, p.found = q.found,
         \A i \in Ids : p.seen[i].path = q.seen[i].path /\ p.seen[i].tags = q.seen[i].tags
  PROVE  Seen(p) = Seen(q) /\ Counting(p).delta = Counting(q).delta
<1>1. Seen(p) = Seen(q) /\ p.in = q.in /\ p.found = q.found /\ Seen(q) \subseteq Ids
  BY DEF Seen
<1>2. \A i \in Ids : p.seen[i].path = q.seen[i].path /\ p.seen[i].tags = q.seen[i].tags
                     /\ Retagged(p)[i] = Retagged(q)[i]
  BY DEF Retagged
<1>3. New(p) = New(q)
  BY <1>1, <1>2 DEF New, SeenPaths
<1>4. ASSUME NEW t \in Tags PROVE TagDelta(p, Retagged(p))[t] = TagDelta(q, Retagged(q))[t]
  <2>1. /\ {i \in Seen(p) : t \in Retagged(p)[i] \ p.seen[i].tags}
             = {i \in Seen(q) : t \in Retagged(q)[i] \ q.seen[i].tags}
        /\ {i \in Seen(p) : t \in p.seen[i].tags \ Retagged(p)[i]}
             = {i \in Seen(q) : t \in q.seen[i].tags \ Retagged(q)[i]}
    BY <1>1, <1>2
  <2> QED BY <2>1 DEF TagDelta
<1>5. \A t \in Tags : TagDelta(p, Retagged(p))[t] + (IF t \in p.in.add THEN Cardinality(New(p)) ELSE 0)
                     = TagDelta(q, Retagged(q))[t] + (IF t \in q.in.add THEN Cardinality(New(q)) ELSE 0)
  BY <1>1, <1>3, <1>4
<1>6. /\ Counting(p).delta = [t \in Tags |-> TagDelta(p, Retagged(p))[t]
                                + IF t \in p.in.add THEN Cardinality(New(p)) ELSE 0]
      /\ Counting(q).delta = [t \in Tags |-> TagDelta(q, Retagged(q))[t]
                                + IF t \in q.in.add THEN Cardinality(New(q)) ELSE 0]
  BY CountingDelta
<1> QED BY <1>1, <1>5, <1>6

LEMMA OnwardBill ==
  ASSUME NEW q \in Query, NEW p \in Query, q.in.op \in Serial, q.in.id \in Ids,
         q.in.op \in Deleting => Due(q) /\ q.pc # "recheck",
         q.in.op \notin Deleting => q.pc \in Assigning,
         NEW c, NEW d, Bill(q, c, d), Copies(q, p), Onward(q, p), p.pc # "done",
         p.pc # "unlink"
  PROVE  Bill(p, c, d) /\ (Due(q) => Due(p))
<1>1. /\ p.in = q.in /\ p.delta = q.delta /\ p.found = q.found
      /\ Seen(p) = Seen(q) /\ Counting(p).delta = Counting(q).delta
      /\ \A i \in Ids : p.seen[i].path = q.seen[i].path /\ p.seen[i].tags = q.seen[i].tags
  BY CopiesCount DEF Copies
<1>2. /\ p.pc \in Assigning \cup {"save", "bulk", "count"}
      /\ p.pc = "save" => q.in.op = "edit"
      /\ p.pc = "bulk" => q.in.op = "batch update"
      /\ p.pc = "count" => q.in.op \in Deleting
      /\ q.in.op \in Deleting => p.pc \in Pulling \cup {"count"}
  <2>1. p # Done
    BY DoneIs
  <2>2. \/ p.pc \in Pulling
        \/ p.pc \in {"target", "place"} /\ q.in.op \notin Deleting
        \/ p.pc = "save" /\ q.in.op = "edit"
        \/ p.pc = "bulk" /\ q.in.op = "batch update"
        \/ p.pc = "count" /\ q.in.op \in Deleting
    BY <2>1 DEF Onward
  <2>3. "edit" \notin Deleting /\ "batch update" \notin Deleting
    BY DEF Deleting
  <2> QED BY <2>2, <2>3 DEF Assigning, Pulling
<1>0. q.in.op \in {"edit", "batch update"} => q.pc \in Assigning
  BY DEF Deleting
<1>3. CASE q.in.op = "edit"
  <2>1. ~Due(p) /\ ~Due(q)
    BY <1>1, <1>2, <1>3 DEF Due, Deleting, Removing, Assigning, Pulling
  <2>2. \A t : Shift({q.in.id}, TagsOf(d), TagsOf(p.seen), t)
              = Shift({q.in.id}, TagsOf(d), TagsOf(q.seen), t)
    <3>1. \A i \in {q.in.id} : TagsOf(p.seen)[i] = TagsOf(q.seen)[i]
      BY <1>1 DEF TagsOf
    <3> QED BY <3>1, ShiftSame
  <2>3. \A t \in Tags : q.delta[t] = Shift({q.in.id}, TagsOf(d), TagsOf(q.seen), t)
    BY <1>0, <1>3 DEF Bill, OneRecord, Assigning, Pulling, Counts
  <2>4. p.pc \notin {"lock", "remove", "recheck"} /\ p.in.op = "edit"
    BY <1>1, <1>2, <1>3 DEF Assigning, Pulling, Deleting
  <2>5. \A t \in Tags : p.delta[t] = Shift({q.in.id}, TagsOf(d), TagsOf(p.seen), t)
    BY <1>1, <2>2, <2>3
  <2> QED BY <1>1, <2>1, <2>4, <2>5 DEF Bill
<1>4. CASE q.in.op = "batch update"
  <2>1. ~Due(p) /\ ~Due(q)
    BY <1>1, <1>2, <1>4 DEF Due, Deleting, Removing, Assigning, Pulling
  <2>2. /\ Seen(q) \subseteq Elems(q.in.ids) /\ Seen(q) \subseteq Ids
        /\ \A i \in Seen(q) : d[i].path # None /\ q.seen[i].tags = d[i].tags
        /\ q.delta = Counting(q).delta /\ q.found = {}
    BY <1>0, <1>4 DEF Bill, Seen
  <2> QED BY <1>1, <1>2, <1>4, <2>1, <2>2 DEF Bill, OneRecord, Assigning, Pulling
<1>5. CASE q.in.op \in Deleting
  <2>1. Due(p) /\ Due(q)
    BY <1>1, <1>2, <1>5 DEF Due
  <2>2. \A t \in Tags : q.delta[t] = Shift(Touches(q.in), c, TagsOf(d), t)
    BY <1>5, <2>1 DEF Bill, Pulling
  <2> QED BY <1>1, <1>2, <1>5, <2>1, <2>2 DEF Bill, Deleting, OneRecord, Assigning, Pulling
<1> QED BY <1>3, <1>4, <1>5 DEF Serial, Deleting

(* A step of the series: the tags and the paths stay, and the counters. *)
LEMMA OnwardTallies ==
  ASSUME Orderly, RequestsOK', NEW r \in Requests, Active(r), NEW p, Go(r, p),
         Onward(req[r], p), count' = count,
         req[r].pc \in Assigning \/ (Removing(req[r]) /\ req[r].pc = "unlink"),
         \A i \in Ids : doc'[i].tags = doc[i].tags /\ doc'[i].path = doc[i].path
  PROVE  Balanced'
<1> DEFINE q == req[r]
<1>1. /\ RequestsOK /\ DataOK /\ AtWork(q) /\ q \in Query /\ q.in.id \in Ids /\ q.in \in Input
      /\ q.pc \in PcsOf(q.in.op) /\ q.in.op \in Ops
  BY AtAny DEF Orderly
<1>2. q.in.op \in Serial
  <2>1. q.pc \in Assigning => q.in.op \in Serial
    BY AtSeries DEF Orderly
  <2>2. Removing(q) => q.in.op \in Serial
    BY DEF Removing, Serial
  <2> QED BY <2>1, <2>2
<1>3. /\ q.in.op \in Deleting => Due(q) /\ q.pc # "recheck"
      /\ q.in.op \notin Deleting => q.pc \in Assigning /\ ~Due(q)
      /\ q.pc # "prune"
  <2>1. q.pc \in Assigning /\ q.in.op \in Deleting => q.pc \in Pulling
    <3>1. q.pc \in Assigning /\ q.pc \notin Pulling => q.in.op \in {"edit", "batch update"}
      BY AtSeries DEF Orderly
    <3> QED BY <3>1 DEF Deleting
  <2>2. Removing(q) => q.in.op \in Deleting
    BY DEF Removing, Deleting
  <2> QED BY <2>1, <2>2 DEF Due, Assigning, Pulling
<1>4. p = Done \/ (p # Done /\ Copies(q, p) /\ p.pc \notin {"new", "done"})
  BY DoneIs DEF Onward, Pulling
<1>5. p \in Query /\ (p.pc \notin {"new", "done"} => AtWork(p))
  <2>1. req' = [req EXCEPT ![r] = p]
    BY DEF Go
  <2>2. req'[r] = p
    BY <1>1, <2>1 DEF RequestsOK
  <2>3. QueryOK(p)
    BY <2>2 DEF RequestsOK
  <2> QED BY <2>3 DEF QueryOK, AtWork
<1>6. Untagged(doc')
  BY DEF Orderly, Balanced, Untagged
<1>9. Onward(q, p)
  OBVIOUS
<1> HIDE DEF q
<1>7. CASE q.in.op \in Deleting /\ (p = Done \/ p.pc = "unlink")
  <2>1. q.delta = NoChange /\ (p # Done => p.in.op = "delete" /\ p.pc = "unlink")
    BY <1>4, <1>7, <1>9, DoneIs DEF Onward, Copies, Pulling
  <2>2. ASSUME NEW t \in Tags PROVE Value(count'[t]) = Value(count[t]) + q.delta[t]
    <3>1. q.delta[t] = 0
      BY <2>1 DEF NoChange
    <3>2. Value(count[t]) \in Int
      BY <1>1 DEF DataOK, Value
    <3> QED BY <3>1, <3>2
  <2>3. p = Done \/ \A b : Bill(p, b, doc')
    BY <2>1 DEF Bill, Due, Removing, Pulling, OneRecord, Assigning
  <2> QED BY <1>1, <1>3, <1>4, <1>7, <2>2, <2>3, PaidTallies DEF q
<1>8. CASE ~(q.in.op \in Deleting /\ (p = Done \/ p.pc = "unlink"))
  <2>1. ASSUME p # Done, NEW c, Bill(q, c, doc)
        PROVE  Bill(p, c, doc') /\ (Due(q) => Due(p)) /\ p.in = q.in
    <3>1. p.pc # "unlink"
      BY <1>4, <1>8, <1>9, <2>1 DEF Onward, Pulling, Deleting
    <3>2. Bill(p, c, doc) /\ (Due(q) => Due(p))
      BY <1>1, <1>2, <1>3, <1>4, <1>5, <1>9, <2>1, <3>1, OnwardBill
    <3>3. p.in = q.in /\ AtWork(p)
      BY <1>4, <1>5, <2>1 DEF Copies
    <3>4. Touches(p.in) \subseteq Ids
      BY <1>1, <3>3, ActiveOne DEF q
    <3>5. Bill(p, c, doc')
      BY <3>2, <3>3, <3>4, BillSame
    <3> QED BY <3>2, <3>3, <3>5
  <2>2. p = Done => ~Due(q)
    BY <1>3, <1>8
  <2>3. \A i \in Touches(q.in) : doc'[i].tags = doc[i].tags
    BY <1>1, ActiveOne DEF q
  <2> QED BY <1>1, <1>3, <1>4, <1>6, <2>1, <2>2, <2>3, KeepTallies DEF q
<1> QED BY <1>7, <1>8

LEMMA ResolveOnward ==
  ASSUME Orderly, NEW r \in Requests, Resolve(r)
  PROVE  \E p : Go(r, p) /\ Onward(req[r], p)
<1> DEFINE q == req[r]
           named == IF q.in.op = "edit" /\ q.in.series = "clear" THEN {q.in.id}
                    ELSE Elems(q.in.ids)
           there == {i \in named : Exists(i)}
           back == [i \in Ids |-> doc[i].series]
           refs == {i \in there : doc[i].series # None}
           known == [q EXCEPT !.back = back]
           order == Resolved(q.in.ids, there)
           asked == [known EXCEPT !.pc = "target", !.order = order]
           pulls == [known EXCEPT !.ids = there, !.refs = refs]
           p == IF q.in.series = "assign" THEN asked ELSE ToPull(pulls)
<1>1. q.pc = "resolve" /\ Go(r, p)
  BY DEF Resolve
<1>2. /\ RequestsOK /\ DataOK /\ AtWork(q) /\ q \in Query /\ q.in.op \in {"edit", "batch update"}
      /\ q.in.id \in Ids /\ q.in.ids \in Seq(Ids) /\ q.in.op \in Serial
  BY <1>1, AtSeries DEF Orderly, Assigning, Pulling
<1>3. there \in SUBSET Ids /\ refs \in SUBSET Ids /\ back \in [Ids -> Series \cup {None}]
  <2>1. there \in SUBSET Ids /\ refs \in SUBSET Ids
    BY <1>2, ElemsIn
  <2>2. back \in [Ids -> Series \cup {None}]
    BY <1>2 DEF DataOK, Rec
  <2> QED BY <2>1, <2>2
<1> HIDE DEF q, there, back, refs, order
<1>4. known \in Query /\ known.pc = q.pc /\ known.in = q.in /\ known.seen = q.seen
      /\ known.order = q.order /\ known.placed = q.placed /\ known.delta = q.delta
      /\ known.found = q.found
  BY <1>2, <1>3 DEF Query
<1> HIDE DEF known
<1>5. /\ asked.pc = "target" /\ asked.in = q.in /\ asked.seen = q.seen /\ asked.delta = q.delta
      /\ asked.found = q.found
      /\ pulls \in Query /\ pulls.pc = q.pc /\ pulls.in = q.in /\ pulls.seen = q.seen
      /\ pulls.order = q.order /\ pulls.placed = q.placed /\ pulls.delta = q.delta
      /\ pulls.found = q.found
  BY <1>3, <1>4 DEF Query
<1> HIDE DEF asked, pulls
<1>6. Copies(q, asked) /\ Copies(q, pulls)
  BY <1>5 DEF Copies
<1>7. Onward(q, asked)
  BY <1>2, <1>5, <1>6 DEF Onward, Deleting
<1>8. Onward(q, ToPull(pulls))
  <2>1. AtWork(pulls)
    BY <1>1, <1>2, <1>5, Changed DEF AtWork, QueryOK
  <2> QED BY <1>2, <1>5, <1>6, <2>1, SeriesOnward, SameOnward
<1>9. Onward(q, p)
  BY <1>7, <1>8
<1> HIDE DEF p
<1> QED BY <1>1, <1>9 DEF q

LEMMA FindTargetOnward ==
  ASSUME Orderly, NEW r \in Requests, FindTarget(r)
  PROVE  \E p : Go(r, p) /\ Onward(req[r], p)
<1> DEFINE q == req[r]
           target == IF Named(q.in.name) = {} THEN None
                     ELSE CHOOSE s \in Named(q.in.name) : TRUE
           members == IF target = None THEN <<>> ELSE list[target]
           placed == Place(members, q.order)
           settled == [q EXCEPT !.target = target]
           stored == [q EXCEPT !.pc = "place", !.target = target, !.members = members,
                               !.placed = placed]
<1>1. /\ q.pc = "target"
      /\ \/ Go(r, AfterSeries(settled))
         \/ Go(r, stored)
         \/ target # None /\ Go(r, ToJoin(q, target))
  BY DEF FindTarget
<1>2. /\ AtWork(q) /\ q \in Query /\ q.in.op \in {"edit", "batch update"} /\ q.in.op \in Serial
      /\ alive \in SUBSET Series /\ IsInjectiveSeq(q.order) /\ IsInjectiveSeq(q.placed)
  BY <1>1, AtSeries DEF Orderly, Assigning, Pulling, AtWork, QueryOK
<1>3. target \in Series \cup {None}
  BY <1>2 DEF Named
<1> HIDE DEF q, target, members, placed
<1>4. settled \in Query /\ settled.pc = q.pc /\ settled.in = q.in /\ settled.seen = q.seen
      /\ settled.order = q.order /\ settled.placed = q.placed /\ settled.delta = q.delta
      /\ settled.found = q.found
  BY <1>2, <1>3 DEF Query
<1>5. stored.pc = "place" /\ stored.in = q.in /\ stored.seen = q.seen /\ stored.delta = q.delta
      /\ stored.found = q.found
  BY <1>2 DEF Query
<1> HIDE DEF settled, stored
<1>6. Onward(q, AfterSeries(settled))
  <2>1. AtWork(settled) /\ Copies(q, settled)
    BY <1>1, <1>2, <1>4, Changed DEF Copies
  <2> QED BY <1>2, <1>4, <2>1, SeriesOnward, SameOnward
<1>7. Onward(q, stored)
  BY <1>2, <1>5 DEF Onward, Copies, Deleting
<1>8. Onward(q, ToJoin(q, target))
  BY <1>2, <1>3, JoinOnward
<1> QED BY <1>1, <1>6, <1>7, <1>8 DEF q

LEMMA PlaceOnward ==
  ASSUME Orderly, NEW r \in Requests, InsertSeries(r) \/ SetMembers(r)
  PROVE  \E p : Go(r, p) /\ Onward(req[r], p)
<1> DEFINE q == req[r]
<1>1. q.pc = "place"
  BY DEF InsertSeries, SetMembers
<1>2. /\ AtWork(q) /\ q \in Query /\ q.in.op \in {"edit", "batch update"} /\ q.in.op \in Serial
      /\ unborn \subseteq Series
  BY <1>1, AtSeries DEF Orderly, Assigning, Pulling, DataOK
<1>3. q.target \in Series \cup {None}
  BY <1>2 DEF Query
<1>4. Go(r, Done) \/ \E s \in Series \cup {None} : Go(r, ToJoin(q, s))
  BY <1>2, <1>3 DEF InsertSeries, SetMembers, Finish
<1>5. Onward(q, Done)
  BY <1>2 DEF Onward, Deleting
<1> HIDE DEF q
<1>6. \A s \in Series \cup {None} : Onward(q, ToJoin(q, s))
  BY <1>2, JoinOnward
<1> QED BY <1>4, <1>5, <1>6 DEF q

LEMMA PullOnward ==
  ASSUME Orderly, NEW r \in Requests,
         FindAffected(r) \/ PullIds(r) \/ SweepSeries(r) \/ Refer(r)
  PROVE  \E p : Go(r, p) /\ Onward(req[r], p)
<1> DEFINE q == req[r]
           affected == {s \in alive \ {q.target} : Elems(list[s]) \cap q.ids # {}}
           found == [q EXCEPT !.pc = "pull", !.affected = affected]
           sweep == [q EXCEPT !.pc = "sweep"]
<1>1. /\ q.pc \in Pulling
      /\ \/ Go(r, AfterPull(q)) \/ Go(r, AfterSeries(q)) \/ Go(r, found) \/ Go(r, sweep)
  BY DEF FindAffected, PullIds, SweepSeries, Refer, Pulling
<1>2. AtWork(q) /\ q \in Query /\ q.in.op \in Serial
  BY <1>1, AtSeries DEF Orderly, Assigning
<1> HIDE DEF q, affected
<1>3. found.pc = "pull" /\ found.in = q.in /\ found.seen = q.seen /\ found.delta = q.delta
      /\ found.found = q.found
  BY <1>2 DEF Query
<1>4. Copies(q, sweep) /\ sweep.pc = "sweep"
  BY <1>2, PcCopies
<1> HIDE DEF found, sweep
<1>5. Onward(q, found) /\ Onward(q, sweep)
  BY <1>3, <1>4 DEF Onward, Copies, Pulling
<1> QED BY <1>1, <1>2, <1>5, SeriesOnward DEF q

LEMMA SeriesTallies ==
  ASSUME Orderly, RequestsOK', NEW r \in Requests, SeriesStep(r)
  PROVE  Balanced'
<1>1. PICK p : Go(r, p) /\ Onward(req[r], p)
  BY ResolveOnward, FindTargetOnward, PlaceOnward, PullOnward DEF SeriesStep
<1>2. req[r].pc \in Assigning /\ count' = count
  BY DEF SeriesStep, Resolve, FindTarget, InsertSeries, SetMembers, FindAffected, PullIds,
     SweepSeries, Refer, Assigning, Pulling, dataVars
<1>3. Active(r) /\ doc \in [Ids -> Rec]
  BY <1>2, AtSeries DEF Orderly, DataOK
<1>4. \A i \in Ids : doc'[i].tags = doc[i].tags /\ doc'[i].path = doc[i].path
  <2>1. CASE Refer(r)
    <3>1. \A i \in Ids : doc'[i] = doc[i] \/ \E s : doc'[i] = [doc[i] EXCEPT !.series = s]
      BY <2>1 DEF Refer
    <3>2. \A i \in Ids : \A s : /\ [doc[i] EXCEPT !.series = s].tags = doc[i].tags
                               /\ [doc[i] EXCEPT !.series = s].path = doc[i].path
      BY <1>3 DEF Rec
    <3> TAKE i \in Ids
    <3>3. PICK s : doc'[i] = doc[i] \/ doc'[i] = [doc[i] EXCEPT !.series = s]
      BY <3>1
    <3>4. [doc[i] EXCEPT !.series = s].tags = doc[i].tags /\ [doc[i] EXCEPT !.series = s].path = doc[i].path
      BY <3>2
    <3> QED BY <3>3, <3>4
  <2>2. CASE ~Refer(r)
    BY <2>2 DEF SeriesStep, Resolve, FindTarget, InsertSeries, SetMembers, FindAffected, PullIds,
     SweepSeries, dataVars
  <2> QED BY <2>1, <2>2
<1> QED BY <1>1, <1>2, <1>3, <1>4, OnwardTallies

-----------------------------------------------------------------------------
(* The locks, and the reads. *)

LEMMA CalmTallies ==
  ASSUME Orderly, NEW r \in Requests, Active(r), NEW p, Go(r, p), p = Done \/ p.pc # "done",
         UNCHANGED <<doc, count>>, ~Due(req[r]), req[r].pc # "prune",
         \A c : Bill(req[r], c, doc) => p = Done \/ Bill(p, c, doc)
  PROVE  Balanced'
<1>1. Untagged(doc')
  BY DEF Orderly, Balanced, Untagged
<1> QED BY <1>1, KeepTallies

LEMMA CheckLocksTallies ==
  ASSUME Orderly, NEW r \in Requests, CheckLocks(r)
  PROVE  Balanced'
<1> DEFINE q == req[r]
           remove == [q EXCEPT !.pc = "remove"]  read == [q EXCEPT !.pc = "read"]
           edited == ToSeries(Edited(q))
<1>1. /\ q.pc = "lock" /\ UNCHANGED <<doc, count>>
      /\ \/ Go(r, Done)
         \/ q.in.op = "edit" /\ Go(r, edited)
         \/ q.in.op = "delete" /\ Go(r, remove)
         \/ q.in.op # "edit" /\ Go(r, read)
  BY DEF CheckLocks, dataVars
<1>2. /\ AtWork(q) /\ q \in Query /\ q.in.id \in Ids /\ q.in.series \in SeriesInputs /\ Active(r)
      /\ q.in.op \in {"edit", "delete", "batch update", "batch delete"}
      /\ doc \in [Ids -> Rec] /\ q.in.add \in SUBSET Tags
  <2>1. /\ AtWork(q) /\ q \in Query /\ q.in.id \in Ids /\ q.in.series \in SeriesInputs /\ Active(r)
        /\ q.in.op \in Ops /\ q.pc \in PcsOf(q.in.op) /\ doc \in [Ids -> Rec] /\ q.in \in Input
    BY <1>1, AtAny DEF Orderly, Active, DataOK
  <2>2. q.in.op \in {"edit", "delete", "batch update", "batch delete"}
    BY <1>1, <2>1 DEF PcsOf, Ops, Viewing, Assigning, Pulling, Counts
  <2> QED BY <2>1, <2>2 DEF Input, Question
<1>3. ~Due(q)
  BY <1>1 DEF Due, Pulling
<1> HIDE DEF q
<1>4. /\ remove.pc = "remove" /\ remove.in = q.in /\ remove.seen = q.seen /\ remove.found = q.found
      /\ read.pc = "read" /\ read.in = q.in /\ read.seen = q.seen /\ read.found = q.found
  BY <1>2 DEF Query
<1> HIDE DEF remove, read
<1>5. ASSUME NEW c, Bill(q, c, doc)
      PROVE  /\ q.in.op = "delete" => Bill(remove, c, doc)
             /\ q.in.op # "edit" => Bill(read, c, doc)
  <2>1. q.in.op = "delete" => Bill(remove, c, doc)
    BY <1>1, <1>4, <1>5 DEF Bill, Due, Removing, Pulling, OneRecord, Assigning, Counts
  <2>2. q.in.op # "edit" => Bill(read, c, doc)
    BY <1>1, <1>2, <1>4, <1>5 DEF Bill, Due, Removing, Pulling, OneRecord, Assigning, Counts
  <2> QED BY <2>1, <2>2
<1>6. ASSUME NEW c, q.in.op = "edit", Bill(q, c, doc) PROVE edited.pc # "done" /\ Bill(edited, c, doc)
  <2> DEFINE i == q.in.id  new == [j \in Ids |-> q.in.add]  delta == TagDelta(q, new)
             e == [q.seen EXCEPT ![i].tags = q.in.add]
  <2>1. Edited(q) = [q EXCEPT !.seen = e, !.delta = delta]
    BY <1>2 DEF Edited, Query
  <2>2. e[i].tags = q.in.add /\ new[i] = q.in.add
    <3>1. q.seen \in [Ids -> Rec] /\ i \in Ids
      BY <1>2 DEF Query
    <3> QED BY <3>1 DEF Rec
  <2>3. Seen(q) = {i} /\ q.seen[i].tags = doc[i].tags
    BY <1>1, <1>6 DEF Bill
  <2>4. \A t \in Tags : delta[t] = Shift({i}, TagsOf(doc), TagsOf([j \in Ids |-> e[j]]), t)
    <3> TAKE t \in Tags
    <3>1. delta[t] = Cardinality({j \in {i} : t \in new[j] \ q.seen[j].tags})
                       - Cardinality({j \in {i} : t \in q.seen[j].tags \ new[j]})
      BY <2>3 DEF TagDelta
    <3>2. \A j \in {i} : /\ TagsOf(doc)[j] = q.seen[j].tags /\ TagsOf([k \in Ids |-> e[k]])[j] = new[j]
      BY <1>2, <2>2, <2>3 DEF TagsOf
    <3> HIDE DEF delta, new, e, i
    <3>3. /\ {j \in {i} : t \in new[j] \ q.seen[j].tags}
               = {j \in {i} : t \in TagsOf([k \in Ids |-> e[k]])[j] \ TagsOf(doc)[j]}
          /\ {j \in {i} : t \in q.seen[j].tags \ new[j]}
               = {j \in {i} : t \in TagsOf(doc)[j] \ TagsOf([k \in Ids |-> e[k]])[j]}
      BY <3>2
    <3> QED BY <3>1, <3>3 DEF Shift
  <2>5. [j \in Ids |-> e[j]] = e
    BY <1>2 DEF Query
  <2> HIDE DEF e, delta, new
  <2>6. /\ Edited(q).in = q.in /\ Edited(q).delta = delta /\ Edited(q).seen = e
        /\ \A k : LET p == [Edited(q) EXCEPT !.pc = k]
                  IN  p.pc = k /\ p.in = q.in /\ p.delta = delta /\ p.seen = e
    BY <1>2, <2>1 DEF Query
  <2>7. PICK k \in {"resolve", "others", "save"} : edited = [Edited(q) EXCEPT !.pc = k]
    BY <1>2, <1>6, <2>6 DEF ToSeries, SeriesInputs
  <2>8. edited.pc = k /\ edited.in = q.in /\ edited.delta = delta /\ edited.seen = e
    BY <2>6, <2>7
  <2> HIDE DEF edited
  <2>9. ~Due(edited)
    BY <1>6, <2>8 DEF Due, Removing, Deleting
  <2> QED BY <1>6, <2>4, <2>5, <2>8, <2>9 DEF Bill
<1> HIDE DEF edited
<1>7. PICK p : /\ Go(r, p) /\ (p = Done \/ p.pc # "done")
               /\ \A c : Bill(q, c, doc) => p = Done \/ Bill(p, c, doc)
  <2>1. CASE Go(r, Done)
    BY <2>1
  <2>2. CASE q.in.op = "edit" /\ Go(r, edited)
    <3>1. (\E c : Bill(q, c, doc)) => edited.pc # "done"
      BY <1>6, <2>2
    <3>2. \E c : Bill(q, c, doc)
      BY <1>2 DEF Orderly, Balanced, Tallied, Active, q
    <3> QED BY <1>6, <2>2, <3>1, <3>2
  <2>3. CASE q.in.op = "delete" /\ Go(r, remove)
    BY <1>4, <1>5, <2>3
  <2>4. CASE q.in.op # "edit" /\ Go(r, read)
    BY <1>4, <1>5, <2>4
  <2> QED BY <1>1, <2>1, <2>2, <2>3, <2>4
<1>8. /\ Go(r, p) /\ (p = Done \/ p.pc # "done")
      /\ \A c : Bill(req[r], c, doc) => p = Done \/ Bill(p, c, doc)
  BY <1>7 DEF q
<1>9. Active(r) /\ ~Due(req[r]) /\ req[r].pc # "prune" /\ UNCHANGED <<doc, count>>
  BY <1>1, <1>2, <1>3 DEF q
<1> QED BY <1>8, <1>9, CalmTallies

LEMMA CheckOthersTallies ==
  ASSUME Orderly, NEW r \in Requests, CheckOthers(r) \/ CheckForeign(r) \/ CheckListing(r)
  PROVE  Balanced'
<1> DEFINE q == req[r]  back == [i \in Ids |-> doc[i].series]
           foreign == [q EXCEPT !.pc = "foreign", !.back = back]
           resolve == [q EXCEPT !.pc = "resolve"]
           held == {p \in q.found : Locked(p)}
           find == [q EXCEPT !.pc = "find", !.held = held]
<1>1. /\ UNCHANGED <<doc, count>> /\ q.pc \in {"others", "foreign", "locks"}
      /\ \/ Go(r, Done)
         \/ q.pc = "others" /\ Go(r, foreign)
         \/ q.pc = "foreign" /\ Go(r, resolve)
         \/ q.pc = "locks" /\ Go(r, find)
  BY DEF CheckOthers, CheckForeign, CheckListing, dataVars
<1>2. /\ q \in Query /\ Active(r)
      /\ q.pc \in {"others", "foreign"} => q.in.op = "edit"
      /\ q.pc = "locks" => q.in.op = "list"
  <2>1. q \in Query /\ Active(r) /\ q.in.op \in Ops /\ q.pc \in PcsOf(q.in.op)
    BY <1>1, AtAny DEF Orderly, Active
  <2> QED BY <1>1, <2>1 DEF PcsOf, Ops, Viewing, Assigning, Pulling, Counts
<1>3. ~Due(q) /\ q.pc # "prune"
  BY <1>1 DEF Due, Pulling
<1> HIDE DEF q, back, held
<1>4. /\ foreign.pc = "foreign" /\ foreign.in = q.in /\ foreign.seen = q.seen
      /\ foreign.delta = q.delta
      /\ resolve.pc = "resolve" /\ resolve.in = q.in /\ resolve.seen = q.seen
      /\ resolve.delta = q.delta
      /\ find.pc = "find" /\ find.in = q.in
  BY <1>2 DEF Query
<1> HIDE DEF foreign, resolve, find
<1>5. ASSUME NEW c, Bill(q, c, doc), q.in.op = "edit", q.pc \in {"others", "foreign"},
             NEW p \in {foreign, resolve}
      PROVE  Bill(p, c, doc)
  <2>1. p.pc \in {"foreign", "resolve"} /\ p.in = q.in /\ p.seen = q.seen /\ p.delta = q.delta
    BY <1>4, <1>5
  <2>2. \A t \in Tags : q.delta[t] = Shift({q.in.id}, TagsOf(doc), TagsOf(q.seen), t)
    BY <1>5 DEF Bill, OneRecord, Counts
  <2>3. ~Due(p)
    BY <1>5, <2>1 DEF Due, Removing, Deleting
  <2> QED BY <1>5, <2>1, <2>2, <2>3 DEF Bill
<1>6. q.pc = "locks" => \A c : Bill(find, c, doc)
  <2>1. q.pc = "locks" => ~Due(find)
    BY <1>2, <1>4 DEF Due, Removing, Deleting
  <2> QED BY <1>2, <1>4, <2>1 DEF Bill, OneRecord
<1>7. PICK p : /\ Go(r, p) /\ (p = Done \/ p.pc # "done")
               /\ \A c : Bill(q, c, doc) => p = Done \/ Bill(p, c, doc)
  BY <1>1, <1>2, <1>4, <1>5, <1>6
<1>8. /\ Go(r, p) /\ (p = Done \/ p.pc # "done")
      /\ \A c : Bill(req[r], c, doc) => p = Done \/ Bill(p, c, doc)
  BY <1>7 DEF q
<1>9. Active(r) /\ ~Due(req[r]) /\ req[r].pc # "prune" /\ UNCHANGED <<doc, count>>
  BY <1>1, <1>2, <1>3 DEF q
<1> QED BY <1>8, <1>9, CalmTallies

(* What a batch update has read, and will count. *)
LEMMA CountingBill ==
  ASSUME NEW q \in Query, NEW p \in Query, p.in = q.in, p.found = q.found,
         p.seen = q.seen, p.delta = Counting(q).delta,
         q.in.op \in {"batch update", "directory update"},
         q.in.op = "batch update" => p.pc \in {"resolve", "bulk"} /\ q.found = {},
         q.in.op = "directory update" => p.pc = "bulk", NEW d,
         q.in.op = "batch update" =>
           /\ Seen(q) \subseteq Elems(q.in.ids)
           /\ \A i \in Seen(q) : d[i].path # None /\ q.seen[i].tags = d[i].tags,
         q.in.op = "directory update" =>
           /\ Seen(q) = {i \in Ids : d[i].path \in q.found}
           /\ \A i \in Seen(q) : q.seen[i].path = d[i].path /\ q.seen[i].tags = d[i].tags,
         NEW c
  PROVE  Bill(p, c, d)
<1>1. Seen(p) = Seen(q) /\ Counting(p).delta = Counting(q).delta
  BY CopiesCount
<1>2. ~Due(p) /\ q.in.op \notin OneRecord
  BY DEF Due, Removing, Deleting, OneRecord
<1> QED BY <1>1, <1>2 DEF Bill

LEMMA ReadSelectionTallies ==
  ASSUME Orderly, RequestsOK', NEW r \in Requests, ReadSelection(r)
  PROVE  Balanced'
<1> DEFINE q == req[r]
           e == ReadIds(Elems(q.in.ids))  f == ReadPaths(q.found)
           byId == [q EXCEPT !.seen = e]  byPath == [q EXCEPT !.seen = f]
           bulk == [Counting(byPath) EXCEPT !.pc = "bulk"]
           removeIds == [byId EXCEPT !.pc = "remove"]
           removePaths == [byPath EXCEPT !.pc = "remove"]
           insert == [byPath EXCEPT !.pc = "insert"]
           update == ToSeries(Counting(byId))
<1>1. /\ q.pc \in {"read", "find"} /\ UNCHANGED <<doc, count>>
      /\ \/ q.in.op = "batch update" /\ Go(r, update)
         \/ q.in.op = "batch delete" /\ Go(r, removeIds)
         \/ Go(r, Done)
         \/ q.in.op = "directory update" /\ Go(r, bulk)
         \/ q.in.op = "directory delete" /\ Go(r, removePaths)
         \/ q.in.op = "list" /\ Go(r, insert)
  BY DEF ReadSelection, dataVars
<1>2. /\ RequestsOK /\ DataOK /\ AtWork(q) /\ q \in Query /\ q.in.series \in SeriesInputs
      /\ Active(r) /\ q.found \in SUBSET Paths /\ Elems(q.in.ids) \subseteq Ids
      /\ doc \in [Ids -> Rec]
  BY <1>1, AtAny, ElemsIn DEF Active, Query, Orderly, DataOK
<1>3. ~Due(q) /\ q.pc # "prune"
  BY <1>1 DEF Due, Pulling
<1>4. /\ e \in [Ids -> Rec] /\ f \in [Ids -> Rec]
      /\ \A i \in fresh : e[i].path = None /\ f[i].path = None
      /\ \A i \in Elems(q.in.ids) : e[i] = doc[i]
      /\ \A i \in Ids : e[i].path # None => i \in Elems(q.in.ids)
      /\ \A i \in Ids : f[i].path # None <=> doc[i].path \in q.found
      /\ \A i \in Ids : f[i].path # None => f[i] = doc[i]
  <2>1. /\ e \in [Ids -> Rec] /\ f \in [Ids -> Rec]
        /\ \A i \in fresh : e[i].path = None /\ f[i].path = None
    BY <1>2, ReadOK
  <2>2. \A i \in Elems(q.in.ids) : e[i] = doc[i]
    BY <1>2 DEF ReadIds
  <2>3. \A i \in Ids : e[i].path # None => i \in Elems(q.in.ids)
    BY DEF ReadIds, NoRec
  <2>4. /\ \A i \in Ids : f[i].path # None <=> doc[i].path \in q.found
        /\ \A i \in Ids : f[i].path # None => f[i] = doc[i]
    BY <1>2, CatalogueAssumption DEF ReadPaths, NoRec
  <2> QED BY <2>1, <2>2, <2>3, <2>4
<1> HIDE DEF q, e, f
<1>5. /\ byId \in Query /\ byId.in = q.in /\ byId.seen = e /\ byId.found = q.found
      /\ byPath \in Query /\ byPath.in = q.in /\ byPath.seen = f /\ byPath.found = q.found
      /\ byId.pc = q.pc /\ byPath.pc = q.pc
  BY <1>2, <1>4 DEF Query
<1>6. /\ removeIds.pc = "remove" /\ removeIds.in = q.in /\ removeIds.seen = e
      /\ removePaths.pc = "remove" /\ removePaths.in = q.in /\ removePaths.seen = f
      /\ insert.pc = "insert" /\ insert.in = q.in
  BY <1>5 DEF Query
<1>15. q.in.op \notin OneRecord => AtWork(byId) /\ AtWork(byPath)
  BY <1>1, <1>2, <1>4, RereadOK DEF q
<1> HIDE DEF byId, byPath, removeIds, removePaths, insert
<1>7. /\ Counting(byId).in = q.in /\ Counting(byId).seen = e /\ Counting(byId).found = q.found
      /\ Counting(byPath).in = q.in /\ Counting(byPath).seen = f /\ Counting(byPath).found = q.found
  BY <1>5 DEF Counting, Query
<1>8. ASSUME q.in.op = "batch update", NEW c, Bill(q, c, doc)
      PROVE  update = Done \/ (update.pc # "done" /\ Bill(update, c, doc))
  <2>1. Counting(byId) \in Query
    <3>1. AtWork(byId) /\ byId.pc # "place"
      BY <1>1, <1>5, <1>15, <1>8 DEF OneRecord
    <3> QED BY <3>1, CountingOK DEF AtWork, QueryOK
  <2>2. update = Done \/ \E k \in {"resolve", "bulk"} : update = [Counting(byId) EXCEPT !.pc = k]
    BY <1>2, <1>7, <1>8 DEF ToSeries, ToBulk, SeriesInputs
  <2>3. ASSUME NEW k \in {"resolve", "bulk"}
        PROVE  Bill([Counting(byId) EXCEPT !.pc = k], c, doc) /\ [Counting(byId) EXCEPT !.pc = k].pc = k
    <3> DEFINE p == [Counting(byId) EXCEPT !.pc = k]
    <3>1. p \in Query /\ p.pc = k /\ p.in = q.in /\ p.seen = e /\ p.found = q.found
          /\ p.delta = Counting(byId).delta
      BY <1>7, <2>1 DEF Query, Calls
    <3> HIDE DEF p
    <3>2. Seen(byId) \subseteq Elems(q.in.ids) /\ q.found = {}
          /\ \A i \in Seen(byId) : doc[i].path # None /\ byId.seen[i].tags = doc[i].tags
      BY <1>4, <1>5, <1>8 DEF Seen, Bill
    <3>3. Bill(p, c, doc)
      BY <1>5, <1>8, <3>1, <3>2, CountingBill
    <3> QED BY <3>1, <3>3 DEF p
  <2> HIDE DEF update
  <2> QED BY <2>2, <2>3
<1>9. ASSUME q.in.op = "directory update", NEW c PROVE bulk.pc # "done" /\ Bill(bulk, c, doc)
  <2>1. Counting(byPath) \in Query
    <3>1. AtWork(byPath) /\ byPath.pc # "place"
      BY <1>1, <1>5, <1>15, <1>9 DEF OneRecord
    <3> QED BY <3>1, CountingOK DEF AtWork, QueryOK
  <2>2. bulk \in Query /\ bulk.pc = "bulk" /\ bulk.in = q.in /\ bulk.seen = f /\ bulk.found = q.found
        /\ bulk.delta = Counting(byPath).delta
    BY <1>7, <2>1 DEF Query, Calls
  <2> HIDE DEF bulk
  <2>3. /\ Seen(byPath) = {i \in Ids : doc[i].path \in q.found}
        /\ \A i \in Seen(byPath) : /\ byPath.seen[i].path = doc[i].path
                                  /\ byPath.seen[i].tags = doc[i].tags
    BY <1>4, <1>5 DEF Seen
  <2>4. Bill(bulk, c, doc)
    BY <1>5, <1>9, <2>2, <2>3, CountingBill
  <2> QED BY <2>2, <2>4
<1>10. ASSUME NEW c
       PROVE  /\ q.in.op = "batch delete" => Bill(removeIds, c, doc)
              /\ q.in.op = "directory delete" => Bill(removePaths, c, doc)
              /\ q.in.op = "list" => Bill(insert, c, doc)
  <2>1. q.in.op = "batch delete" => Bill(removeIds, c, doc)
    BY <1>4, <1>6 DEF Bill, Due, Pulling, OneRecord
  <2>2. q.in.op = "directory delete" => Bill(removePaths, c, doc)
    BY <1>4, <1>6 DEF Bill, Due, Pulling, OneRecord, Seen
  <2>3. q.in.op = "list" => Bill(insert, c, doc)
    BY <1>6 DEF Bill, Due, Pulling, OneRecord
  <2> QED BY <2>1, <2>2, <2>3
<1> HIDE DEF update, bulk
<1>11. PICK c : Bill(q, c, doc)
  BY <1>2 DEF Orderly, Balanced, Tallied, Active, q
<1>12. PICK p : /\ Go(r, p) /\ (p = Done \/ p.pc # "done")
                /\ \A b : Bill(q, b, doc) => p = Done \/ Bill(p, b, doc)
  BY <1>1, <1>6, <1>8, <1>9, <1>10, <1>11
<1>13. /\ Go(r, p) /\ (p = Done \/ p.pc # "done")
       /\ \A b : Bill(req[r], b, doc) => p = Done \/ Bill(p, b, doc)
  BY <1>12 DEF q
<1>14. Active(r) /\ ~Due(req[r]) /\ req[r].pc # "prune" /\ UNCHANGED <<doc, count>>
  BY <1>1, <1>2, <1>3 DEF q
<1> QED BY <1>13, <1>14, CalmTallies

-----------------------------------------------------------------------------
(* The writes. *)

(* A request that has counted everything so far writes its records, and is *)
(* to count them by delta, if that is anything.                            *)
LEMMA DeltaTallies ==
  ASSUME Orderly, NEW r \in Requests, Active(r), ~Due(req[r]), req[r].pc # "prune",
         NEW p, Go(r, p), p = Done \/ p.pc # "done", count' = count,
         doc' \in [Ids -> Rec], Untagged(doc'),
         \A i \in Ids \ Touches(req[r].in) :
           doc'[i].tags = doc[i].tags /\ doc'[i].path = doc[i].path,
         NEW delta,
         \A t \in Tags : delta[t] = Shift(Touches(req[r].in), TagsOf(doc), TagsOf(doc'), t),
         \/ (\A t \in Tags : delta[t] = 0) /\ (p = Done \/ \A b : Bill(p, b, doc'))
         \/ /\ p # Done /\ Due(p) /\ p.in = req[r].in
            /\ \A b : (\A t \in Tags : delta[t] = Shift(Touches(req[r].in), b, TagsOf(doc'), t))
                      => Bill(p, b, doc')
  PROVE  Balanced'
<1> DEFINE T == Touches(req[r].in)
<1>1. PICK c \in Tagging : Tallied(c, doc, count, req)
  BY DEF Orderly, Balanced
<1>2. T \in SUBSET Ids
  BY ActiveOne DEF Orderly, Untroubled, CatalogueInv, Kept
<1>3. \A i \in T : c[i] = doc[i].tags
  BY <1>1, NothingDue
<1>4. \A t \in Tags : count'[t] = 0 =>
        p.pc = "prune" \/ \E u \in Requests \ {r} : req[u].pc = "prune"
  BY <1>1 DEF Tallied
<1>5. ASSUME NEW t \in Tags PROVE delta[t] = Shift(T, c, TagsOf(doc'), t)
  <2>1. \A i \in T : c[i] = TagsOf(doc)[i]
    BY <1>2, <1>3 DEF TagsOf
  <2> HIDE DEF T
  <2>2. Shift(T, c, TagsOf(doc'), t) = Shift(T, TagsOf(doc), TagsOf(doc'), t)
    BY <2>1, ShiftSame
  <2> QED BY <2>2 DEF T
<1>6. CASE (\A t \in Tags : delta[t] = 0) /\ (p = Done \/ \A b : Bill(p, b, doc'))
  <2> DEFINE b == [i \in Ids |-> IF i \in T THEN doc'[i].tags ELSE c[i]]
  <2>1. b \in Tagging
    BY DEF Tagging, Rec
  <2>2. /\ \A i \in Ids \ T : b[i] = c[i]
        /\ \A i \in T : b[i] = doc'[i].tags /\ b[i] = TagsOf(doc')[i]
    BY <1>2 DEF TagsOf
  <2> HIDE DEF b
  <2>3. ASSUME NEW t \in Tags PROVE Value(count'[t]) = Cardinality(Bearing(b, t))
    <3>1. Shift(T, c, b, t) = Shift(T, c, TagsOf(doc'), t)
      <4>1. \A i \in T : b[i] = TagsOf(doc')[i]
        BY <2>2
      <4> HIDE DEF T
      <4> QED BY <4>1, ShiftSame
    <3>2. /\ Cardinality(Bearing(b, t)) = Cardinality(Bearing(c, t)) + Shift(T, c, b, t)
          /\ Cardinality(Bearing(c, t)) \in Nat
      <4> HIDE DEF T
      <4> QED BY <1>2, <2>1, <2>2, ShiftBearing
    <3>3. Value(count[t]) = Cardinality(Bearing(c, t))
      BY <1>1 DEF Tallied
    <3>4. Shift(T, c, b, t) = 0
      BY <1>5, <1>6, <3>1
    <3> QED BY <3>2, <3>3, <3>4
  <2>4. \A i \in Ids \ T : b[i] = c[i] /\ doc'[i].tags = doc[i].tags /\ doc'[i].path = doc[i].path
    BY <2>2
  <2>5. \A i \in T : b[i] # doc'[i].tags => p # Done /\ Due(p) /\ p.in = req[r].in
    BY <2>2
  <2>6. p = Done \/ Bill(p, b, doc')
    BY <1>6
  <2> QED BY <1>1, <1>4, <2>1, <2>3, <2>4, <2>5, <2>6, OneTallies
<1>7. CASE /\ p # Done /\ Due(p) /\ p.in = req[r].in
           /\ \A b : (\A t \in Tags : delta[t] = Shift(T, b, TagsOf(doc'), t)) => Bill(p, b, doc')
  <2>1. Bill(p, c, doc')
    BY <1>5, <1>7
  <2>2. \A t \in Tags : Value(count'[t]) = Cardinality(Bearing(c, t))
    BY <1>1 DEF Tallied
  <2>3. \A i \in Ids \ T : c[i] = c[i] /\ doc'[i].tags = doc[i].tags /\ doc'[i].path = doc[i].path
    OBVIOUS
  <2>4. \A i \in T : c[i] # doc'[i].tags => p # Done /\ Due(p) /\ p.in = req[r].in
    BY <1>7
  <2> QED BY <1>1, <1>4, <2>1, <2>2, <2>3, <2>4, OneTallies
<1> QED BY <1>6, <1>7

(* The same of a request whose next call is the counters. *)
LEMMA ToCountTallies ==
  ASSUME Orderly, NEW r \in Requests, Active(r), ~Due(req[r]), req[r].pc # "prune",
         Go(r, ToCount(req[r])), req[r].in.op \notin Deleting, count' = count,
         req[r].in.op = "batch update" => req[r].found = {},
         doc' \in [Ids -> Rec], Untagged(doc'),
         \A i \in Ids \ Touches(req[r].in) :
           doc'[i].tags = doc[i].tags /\ doc'[i].path = doc[i].path,
         \A t \in Tags :
           req[r].delta[t] = Shift(Touches(req[r].in), TagsOf(doc), TagsOf(doc'), t)
  PROVE  Balanced'
<1> DEFINE q == req[r]  p == ToCount(q)
<1>1. q \in Query
  BY AtAny DEF Orderly
<1>2. CASE q.delta = NoChange
  <2>1. p = Done
    BY <1>2 DEF ToCount, AfterCount, Deleting
  <2>2. \A t \in Tags : q.delta[t] = 0
    BY <1>2 DEF NoChange
  <2> HIDE DEF p
  <2>3. Go(r, p)
    BY DEF p
  <2> QED BY <2>1, <2>2, <2>3, DeltaTallies
<1>3. CASE q.delta # NoChange
  <2>1. p = [q EXCEPT !.pc = "count"]
    BY <1>3 DEF ToCount
  <2>2. Go(r, p)
    OBVIOUS
  <2>4. \A b : (\A t \in Tags : q.delta[t] = Shift(Touches(q.in), b, TagsOf(doc'), t))
               <=> (\A t \in Tags : req[r].delta[t] = Shift(Touches(req[r].in), b, TagsOf(doc'), t))
    OBVIOUS
  <2> HIDE DEF p
  <2>3. p.pc = "count" /\ p.in = q.in /\ p.found = q.found /\ p.delta = q.delta
    BY <1>1, <2>1 DEF Query
  <2>5. p # Done /\ Due(p) /\ p.pc # "done" /\ p.in = req[r].in
    BY <2>3, DoneIs DEF Due
  <2>6. \A b : (\A t \in Tags : q.delta[t] = Shift(Touches(q.in), b, TagsOf(doc'), t))
               => Bill(p, b, doc')
    <3> TAKE b
    <3> HAVE \A t \in Tags : q.delta[t] = Shift(Touches(q.in), b, TagsOf(doc'), t)
    <3>1. /\ p.in.op # "edit" \/ p.pc # "lock" 
          /\ p.pc \notin {"lock", "remove", "recheck", "bulk"} \cup Assigning /\ p.pc \in Counts
      BY <2>3 DEF Assigning, Pulling, Counts
    <3>2. p.in.op = "batch update" => p.found = {}
      BY <2>3
    <3>3. \A t \in Tags : p.delta[t] = Shift(Touches(p.in), b, TagsOf(doc'), t)
      BY <2>3
    <3> QED BY <3>1, <3>2, <3>3 DEF Bill
  <2>7. \A b : (\A t \in Tags : req[r].delta[t] = Shift(Touches(req[r].in), b, TagsOf(doc'), t))
               => Bill(p, b, doc')
    BY <2>4, <2>6
  <2> QED BY <2>2, <2>5, <2>7, DeltaTallies
<1> QED BY <1>2, <1>3

(* What is saved is the record as it was read, but for the fields edited.  *)
LEMMA SaveTallies ==
  ASSUME Orderly, CatalogueInv', NEW r \in Requests, Save(r)
  PROVE  Balanced'
<1> DEFINE q == req[r]  i == q.in.id  T == Touches(q.in)
<1>1. q.pc = "save" /\ count' = count
  BY DEF Save
<1>2. /\ DataOK /\ AtWork(q) /\ q \in Query /\ i \in Ids /\ Knows(q, doc, files, move) /\ Active(r)
      /\ q.in.op \in OneRecord /\ doc \in [Ids -> Rec] /\ OnePath(doc)
  BY <1>1, AtAny DEF Active, Orderly, Untroubled, RowsInv, DataOK, AtWork, QueryOK
<1>3. q.seen[i].path = doc[i].path /\ doc[i].path # None
  BY <1>2 DEF Knows, ByOne
<1>4. i \in T /\ T \subseteq Ids
  <2>1. ~ByDirectory(q.in)
    BY <1>2 DEF ByDirectory, OneRecord
  <2> QED BY <1>2, <2>1, ActiveOne DEF Touches, Orderly, Untroubled, CatalogueInv, Kept
<1>5. doc' = [doc EXCEPT ![i] = q.seen[i]] /\ Go(r, ToCount(q))
  <2>1. SaveTakes(i, q.seen[i])
    BY <1>2, <1>3 DEF SaveTakes, At, OnePath
  <2>2. AfterCount(q) = Done
    BY <1>2 DEF AfterCount, OneRecord
  <2> QED BY <2>1, <2>2 DEF Save, ToCount
<1> HIDE DEF q, i
<1>6. doc'[i] = q.seen[i] /\ \A j \in Ids : j # i => doc'[j] = doc[j]
  BY <1>2, <1>5
<1>7. /\ ~Due(q) /\ q.pc # "prune" /\ q.in.op \notin Deleting
      /\ q.in.op # "batch update"
  BY <1>1, <1>2 DEF Due, Pulling, OneRecord, Deleting
<1>8. ASSUME NEW t \in Tags PROVE q.delta[t] = Shift(T, TagsOf(doc), TagsOf(doc'), t)
  <2>1. PICK c : Bill(q, c, doc)
    BY <1>2 DEF Orderly, Balanced, Tallied, Active, q
  <2>2. q.delta[t] = Shift({i}, TagsOf(doc), TagsOf(q.seen), t)
    BY <1>1, <1>2, <2>1 DEF Bill, Counts, i
  <2>3. /\ \A j \in {i} : TagsOf(doc)[j] = TagsOf(doc)[j] /\ TagsOf(doc')[j] = TagsOf(q.seen)[j]
        /\ \A j \in T \ {i} : TagsOf(doc')[j] = TagsOf(doc)[j]
    BY <1>2, <1>4, <1>6 DEF TagsOf
  <2>4. Shift({i}, TagsOf(doc), TagsOf(doc'), t) = Shift({i}, TagsOf(doc), TagsOf(q.seen), t)
    BY <2>3, ShiftSame
  <2>5. {i} \subseteq T
    BY <1>4
  <2> HIDE DEF T
  <2>6. Shift(T, TagsOf(doc), TagsOf(doc'), t) = Shift({i}, TagsOf(doc), TagsOf(doc'), t)
    BY <2>3, <2>5, ShiftWider
  <2> QED BY <2>2, <2>4, <2>6
<1>9. Untagged(doc')
  BY <1>3, <1>6 DEF Orderly, Balanced, Untagged
<1>10. doc' \in [Ids -> Rec]
  BY DEF CatalogueInv, Kept, DataOK
<1>11. \A j \in Ids \ T : doc'[j].tags = doc[j].tags /\ doc'[j].path = doc[j].path
  BY <1>4, <1>6
<1> QED BY <1>1, <1>2, <1>5, <1>7, <1>8, <1>9, <1>10, <1>11, ToCountTallies DEF q

(* Upserts make as many new records as there are paths without one. *)
LEMMA UpsertTags ==
  ASSUME DataOK, NEW d, NEW paths \in SUBSET Paths, NEW tags, Upsert(d, paths, tags)
  PROVE  \E new \in SUBSET fresh :
           /\ Cardinality(new) = Cardinality({x \in paths : At(x) = {}})
           /\ \A i \in new : doc'[i].tags = tags /\ doc'[i].path # None
           /\ \A i \in Ids \ new : doc'[i] = d[i]
<1> DEFINE D == {x \in paths : At(x) = {}}
<1>1. PICK ids \in [D -> fresh] :
        /\ \A p, o \in DOMAIN ids : ids[p] = ids[o] => p = o
        /\ doc' = [i \in Ids |->
                     IF \E p \in DOMAIN ids : ids[p] = i
                     THEN [path |-> CHOOSE p \in DOMAIN ids : ids[p] = i,
                           tags |-> tags, series |-> None]
                     ELSE d[i]]
  BY DEF Upsert
<1>2. IsFiniteSet(D) /\ D \subseteq Paths
  BY CatalogueAssumption, FS_Subset
<1> HIDE DEF D
<1> DEFINE new == {ids[p] : p \in D}
<1>3. new \in SUBSET fresh
  BY <1>1
<1>4. Cardinality(new) = Cardinality(D)
  <2>1. ids \in Bijection(D, new)
    BY <1>1 DEF Bijection, Injection, Surjection, IsInjective
  <2>2. ExistsBijection(D, new)
    BY <2>1 DEF ExistsBijection
  <2> HIDE DEF new
  <2> QED BY <1>2, <2>2, FS_Bijection
<1>5. ASSUME NEW i \in new PROVE doc'[i].tags = tags /\ doc'[i].path # None
  <2>1. i \in Ids /\ \E p \in DOMAIN ids : ids[p] = i
    BY <1>1, <1>3 DEF DataOK
  <2> DEFINE of == CHOOSE p \in DOMAIN ids : ids[p] = i
  <2>2. of \in D
    BY <1>1, <2>1
  <2>3. doc'[i] = [path |-> of, tags |-> tags, series |-> None]
    BY <1>1, <2>1
  <2> HIDE DEF of
  <2> QED BY <1>2, <2>2, <2>3, CatalogueAssumption
<1>6. ASSUME NEW i \in Ids \ new PROVE doc'[i] = d[i]
  BY <1>1, <1>6
<1> HIDE DEF new
<1> QED BY <1>3, <1>4, <1>5, <1>6 DEF D

(* What a bulk write is to count: the records it has seen, with their new  *)
(* tags, and the new ones.                                                 *)
LEMMA BulkShift ==
  ASSUME NEW q \in Query, NEW new \in SUBSET Ids, new \cap Seen(q) = {},
         Cardinality(new) = Cardinality(New(q)),
         NEW T \in SUBSET Ids, Seen(q) \cup new \subseteq T, NEW b, NEW c,
         \A i \in Seen(q) : b[i] = q.seen[i].tags /\ c[i] = Retagged(q)[i],
         \A i \in new : b[i] = {} /\ c[i] = q.in.add,
         \A i \in T \ (Seen(q) \cup new) : c[i] = b[i], NEW t \in Tags
  PROVE  Counting(q).delta[t] = Shift(T, b, c, t)
<1> DEFINE A == {i \in Seen(q) : t \in Retagged(q)[i] \ q.seen[i].tags}
           B == {i \in Seen(q) : t \in q.seen[i].tags \ Retagged(q)[i]}
           N == IF t \in q.in.add THEN new ELSE {}
<1>1. Counting(q).delta[t]
        = TagDelta(q, Retagged(q))[t] + IF t \in q.in.add THEN Cardinality(New(q)) ELSE 0
  BY CountingDelta
<1>2. TagDelta(q, Retagged(q))[t] = Cardinality(A) - Cardinality(B)
  BY DEF TagDelta
<1>3. (IF t \in q.in.add THEN Cardinality(New(q)) ELSE 0) = Cardinality(N)
  BY FS_EmptySet
<1>4. /\ {i \in T : t \in c[i] \ b[i]} = A \cup N
      /\ {i \in T : t \in b[i] \ c[i]} = B
  <2>1. \A i \in T : t \in c[i] \ b[i] <=> i \in A \cup N
    <3> TAKE i \in T
    <3>1. CASE i \in Seen(q)
      BY <3>1
    <3>2. CASE i \in new
      BY <3>2
    <3>3. CASE i \notin Seen(q) \cup new
      BY <3>3
    <3> QED BY <3>1, <3>2, <3>3
  <2>2. \A i \in T : t \in b[i] \ c[i] <=> i \in B
    <3> TAKE i \in T
    <3>1. CASE i \in Seen(q)
      BY <3>1
    <3>2. CASE i \in new
      BY <3>2
    <3>3. CASE i \notin Seen(q) \cup new
      BY <3>3
    <3> QED BY <3>1, <3>2, <3>3
  <2>3. A \cup N \subseteq T /\ B \subseteq T
    OBVIOUS
  <2> HIDE DEF A, B, N
  <2> QED BY <2>1, <2>2, <2>3
<1>5. A \in SUBSET Ids /\ B \in SUBSET Ids /\ N \in SUBSET Ids /\ A \cap N = {}
  BY DEF Seen
<1> HIDE DEF A, B, N
<1>6. /\ IsFiniteSet(A) /\ Cardinality(A) \in Nat /\ Cardinality(B) \in Nat
      /\ IsFiniteSet(N) /\ Cardinality(N) \in Nat
  BY <1>5, IdsFinite
<1>7. Cardinality(A \cup N) = Cardinality(A) + Cardinality(N)
  <2>1. Cardinality(A \cup N) = Cardinality(A) + Cardinality(N) - Cardinality(A \cap N)
    BY <1>6, FS_Union
  <2>2. Cardinality(A \cap N) = 0
    BY <1>5, FS_EmptySet
  <2> QED BY <1>6, <2>1, <2>2
<1>8. Shift(T, b, c, t) = Cardinality(A \cup N) - Cardinality(B)
  BY <1>4 DEF Shift
<1> QED BY <1>1, <1>2, <1>3, <1>6, <1>7, <1>8

LEMMA BulkWriteTallies ==
  ASSUME Orderly, CatalogueInv', NEW r \in Requests, BulkWrite(r)
  PROVE  Balanced'
<1> DEFINE q == req[r]  T == Touches(q.in)
           retag == Retagged(q)
           retagged == {i \in Seen(q) : retag[i] # q.seen[i].tags}
           source == [i \in Ids |-> IF q.in.op = "batch update" THEN {i} \cap retagged
                                    ELSE {j \in retagged : q.seen[j].path = doc[i].path}]
           d == [i \in Ids |-> IF Exists(i) /\ source[i] # {}
                               THEN [doc[i] EXCEPT !.tags = retag[CHOOSE j \in source[i] : TRUE]]
                               ELSE doc[i]]
           paths == IF q.in.op = "batch update" THEN {} ELSE New(q)
<1>1. q.pc = "bulk" /\ Upsert(d, paths, q.in.add) /\ Go(r, ToCount(q)) /\ count' = count
  BY DEF BulkWrite
<1>2. /\ DataOK /\ q \in Query /\ Active(r) /\ q.in.op \in Ops /\ q.pc \in PcsOf(q.in.op)
      /\ doc \in [Ids -> Rec] /\ OnePath(doc) /\ Seen(q) \subseteq Ids /\ Seen(q) \cap fresh = {}
      /\ T \subseteq Ids /\ q.found \in SUBSET Paths /\ q.in.add \in SUBSET Tags
  <2>1. T \subseteq Ids
    BY <1>1, ActiveOne DEF Active, Orderly, Untroubled, CatalogueInv, Kept
  <2>2. q.in \in Input
    BY <1>1, AtAny DEF Active, Orderly
  <2> QED BY <1>1, <2>1, <2>2, AtAny DEF Active, Orderly, Untroubled, RowsInv, DataOK, Query, Input, Question
<1>3. q.in.op \in {"batch update", "directory update"}
  BY <1>1, <1>2 DEF PcsOf, Ops, Viewing, Assigning, Pulling, Counts
<1>4. PICK c : Bill(q, c, doc)
  BY <1>2 DEF Orderly, Balanced, Tallied, Active
<1>5. /\ \A i \in Seen(q) : doc[i].path # None /\ q.seen[i].tags = doc[i].tags
      /\ Seen(q) \subseteq T /\ q.delta = Counting(q).delta
      /\ q.in.op = "batch update" => q.found = {}
      /\ q.in.op = "directory update" =>
           /\ Seen(q) = {i \in Ids : doc[i].path \in q.found} /\ T = Ids
           /\ \A i \in Seen(q) : q.seen[i].path = doc[i].path
  <2>1. CASE q.in.op = "batch update"
    BY <1>1, <1>4, <2>1 DEF Bill, Touches, ByDirectory
  <2>2. CASE q.in.op = "directory update"
    <3>1. /\ Seen(q) = {i \in Ids : doc[i].path \in q.found}
          /\ \A i \in Seen(q) : q.seen[i].path = doc[i].path /\ q.seen[i].tags = doc[i].tags
          /\ q.delta = Counting(q).delta
      BY <1>1, <1>4, <2>2 DEF Bill
    <3>2. T = Ids
      BY <2>2 DEF Touches, ByDirectory
    <3>3. None \notin q.found
      BY <1>2, CatalogueAssumption
    <3>4. \A i \in Seen(q) : doc[i].path # None
      BY <3>1, <3>3
    <3> HIDE DEF q, T
    <3> QED BY <1>2, <2>2, <3>1, <3>2, <3>4
  <2> QED BY <1>3, <2>1, <2>2
<1>6. ASSUME NEW i \in Ids
      PROVE  /\ d[i].path = doc[i].path
             /\ d[i].tags = IF i \in Seen(q) THEN retag[i] ELSE doc[i].tags
  <2>1. Exists(i) => source[i] = {i} \cap retagged
    BY <1>2, <1>3, <1>5 DEF OnePath, Exists
  <2>2. \A tags : /\ [doc[i] EXCEPT !.tags = tags].path = doc[i].path
                  /\ [doc[i] EXCEPT !.tags = tags].tags = tags
    BY <1>2 DEF Rec
  <2>3. CASE i \in retagged
    <3>1. Exists(i) /\ i \in Seen(q)
      BY <1>5, <2>3 DEF Exists
    <3>2. source[i] = {i}
      BY <2>1, <2>3, <3>1
    <3>3. (CHOOSE j \in source[i] : TRUE) = i
      BY <3>2
    <3> HIDE DEF source, retagged, retag
    <3>4. d[i] = [doc[i] EXCEPT !.tags = retag[i]]
      BY <3>1, <3>2, <3>3
    <3> QED BY <2>2, <3>1, <3>4
  <2>4. CASE i \notin retagged
    <3>1. d[i] = doc[i]
      <4>1. Exists(i) => source[i] = {}
        BY <2>1, <2>4
      <4> HIDE DEF source
      <4> QED BY <4>1
    <3>2. i \in Seen(q) => retag[i] = doc[i].tags
      BY <1>5, <2>4
    <3> QED BY <3>1, <3>2
  <2> QED BY <2>3, <2>4
<1>7. paths \in SUBSET Paths /\ {x \in paths : At(x) = {}} = New(q)
  <2>1. CASE q.in.op = "batch update"
    BY <1>5, <2>1 DEF New
  <2>2. CASE q.in.op = "directory update"
    <3>1. \A x \in New(q) : At(x) = {}
      BY <1>5, <2>2 DEF At, New, SeenPaths
    <3>2. New(q) \subseteq Paths
      BY <1>2 DEF New
    <3> QED BY <2>2, <3>1, <3>2
  <2> QED BY <1>3, <2>1, <2>2
<1> HIDE DEF d, paths
<1>8. PICK new \in SUBSET fresh :
           /\ Cardinality(new) = Cardinality(New(q))
           /\ \A i \in new : doc'[i].tags = q.in.add /\ doc'[i].path # None
           /\ \A i \in Ids \ new : doc'[i] = d[i]
  <2> DEFINE tags == q.in.add
  <2>1. DataOK /\ paths \in SUBSET Paths /\ Upsert(d, paths, tags)
    BY <1>1, <1>2, <1>7
  <2> HIDE DEF tags, q
  <2>2. \E new \in SUBSET fresh :
           /\ Cardinality(new) = Cardinality({x \in paths : At(x) = {}})
           /\ \A i \in new : doc'[i].tags = tags /\ doc'[i].path # None
           /\ \A i \in Ids \ new : doc'[i] = d[i]
    BY <2>1, UpsertTags
  <2> QED BY <1>7, <2>2 DEF tags
<1>9. new \in SUBSET Ids /\ new \cap Seen(q) = {} /\ \A i \in new : doc[i].tags = {}
  BY <1>2, <1>8, FreshUnused DEF DataOK, NoRec
<1>10. new \subseteq T
  <2>1. CASE q.in.op = "batch update"
    <3>1. New(q) = {}
      BY <1>5, <2>1 DEF New
    <3>2. IsFiniteSet(new) /\ Cardinality(new) = 0
      BY <1>8, <1>9, <3>1, IdsFinite, FS_EmptySet
    <3> QED BY <3>2, FS_EmptySet
  <2>2. CASE q.in.op = "directory update"
    BY <1>5, <1>9, <2>2
  <2> QED BY <1>3, <2>1, <2>2
<1> HIDE DEF q, T, retag, retagged, source
<1>11. ASSUME NEW t \in Tags PROVE q.delta[t] = Shift(T, TagsOf(doc), TagsOf(doc'), t)
  <2> DEFINE b == TagsOf(doc)  e == TagsOf(doc')
  <2>1. \A i \in Ids : b[i] = doc[i].tags /\ e[i] = doc'[i].tags
    BY DEF TagsOf
  <2> HIDE DEF b, e
  <2>2. \A i \in Seen(q) : b[i] = q.seen[i].tags /\ e[i] = Retagged(q)[i]
    BY <1>2, <1>5, <1>6, <1>8, <1>9, <2>1 DEF retag
  <2>3. \A i \in new : b[i] = {} /\ e[i] = q.in.add
    BY <1>8, <1>9, <2>1
  <2>4. \A i \in T \ (Seen(q) \cup new) : e[i] = b[i]
    BY <1>2, <1>6, <1>8, <2>1
  <2>5. Counting(q).delta[t] = Shift(T, b, e, t)
    <3>1. /\ q \in Query /\ new \in SUBSET Ids /\ new \cap Seen(q) = {} /\ T \in SUBSET Ids
          /\ Cardinality(new) = Cardinality(New(q)) /\ Seen(q) \cup new \subseteq T
      BY <1>2, <1>5, <1>8, <1>9, <1>10
    <3> QED BY <2>2, <2>3, <2>4, <3>1, BulkShift
  <2> QED BY <1>5, <2>5 DEF b, e
<1>12. Untagged(doc')
  <2>1. \A i \in Ids : doc[i].path = None => doc[i].tags = {}
    BY DEF Orderly, Balanced, Untagged
  <2>2. ASSUME NEW i \in Ids, doc'[i].path = None PROVE doc'[i].tags = {}
    BY <1>5, <1>6, <1>8, <2>1, <2>2
  <2> QED BY <2>2 DEF Untagged
<1>13. doc' \in [Ids -> Rec]
  BY DEF CatalogueInv, Kept, DataOK
<1>14. \A i \in Ids \ T : doc'[i].tags = doc[i].tags /\ doc'[i].path = doc[i].path
  BY <1>5, <1>6, <1>8, <1>10
<1>15. ~Due(q) /\ q.pc # "prune" /\ q.in.op \notin Deleting
  BY <1>1, <1>3 DEF Due, Pulling, Deleting, Removing, q
<1> QED BY <1>1, <1>2, <1>5, <1>11, <1>12, <1>13, <1>14, <1>15, ToCountTallies DEF q, T

(* A listing counts nothing. *)
LEMMA InsertListedTallies ==
  ASSUME Orderly, NEW r \in Requests, InsertListed(r)
  PROVE  Balanced'
<1> DEFINE q == req[r]  T == Touches(q.in)
<1>1. q.pc = "insert" /\ Upsert(doc, Listed(q), {}) /\ Go(r, Done) /\ count' = count
  BY DEF InsertListed, Finish
<1>2. /\ DataOK /\ q \in Query /\ Active(r) /\ q.in.op \in Ops /\ q.pc \in PcsOf(q.in.op)
      /\ q.found \in SUBSET Paths
  BY <1>1, AtAny DEF Active, Orderly, Query
<1>3. q.in.op = "list"
  BY <1>1, <1>2 DEF PcsOf, Ops, Viewing, Assigning, Pulling, Counts
<1>4. Listed(q) \in SUBSET Paths
  BY <1>2 DEF Listed, New
<1>5. PICK new \in SUBSET fresh :
           /\ \A i \in new : doc'[i].tags = {} /\ doc'[i].path # None
           /\ \A i \in Ids \ new : doc'[i] = doc[i]
  <2> DEFINE paths == Listed(q)  tags == {}
  <2>1. DataOK /\ paths \in SUBSET Paths /\ Upsert(doc, paths, tags)
    BY <1>1, <1>2, <1>4
  <2> HIDE DEF paths, tags, q
  <2>2. \E new \in SUBSET fresh :
           /\ Cardinality(new) = Cardinality({x \in paths : At(x) = {}})
           /\ \A i \in new : doc'[i].tags = tags /\ doc'[i].path # None
           /\ \A i \in Ids \ new : doc'[i] = doc[i]
    BY <2>1, UpsertTags
  <2> QED BY <2>2 DEF tags
<1>6. \A i \in new : i \in Ids /\ doc[i].tags = {}
  BY <1>2, FreshUnused DEF NoRec
<1>7. T = Ids /\ ~Due(q) /\ q.pc # "prune"
  BY <1>1, <1>3 DEF Touches, ByDirectory, Due, Pulling
<1>8. \A i \in Ids : doc'[i].tags = doc[i].tags
  BY <1>5, <1>6
<1>9. Untagged(doc')
  BY <1>5, <1>8 DEF Orderly, Balanced, Untagged
<1>10. \A i \in Ids \ T : doc'[i].tags = doc[i].tags /\ doc'[i].path = doc[i].path
  BY <1>7
<1>11. ASSUME NEW c, \A i \in T : c[i] = doc[i].tags PROVE \A i \in T : c[i] = doc'[i].tags
  BY <1>7, <1>8, <1>11
<1> HIDE DEF T
<1> QED BY <1>1, <1>2, <1>7, <1>9, <1>10, <1>11, KeepTallies DEF T

-----------------------------------------------------------------------------
(* Deleting. *)

(* Records that lose all their tags. *)
LEMMA GoneShift ==
  ASSUME NEW ids \in SUBSET Ids, NEW b, NEW c, \A i \in ids : c[i] = {}, NEW t
  PROVE  Shift(ids, b, c, t) = -Cardinality({i \in ids : t \in b[i]})
<1> DEFINE B == {i \in ids : t \in b[i]}
<1>1. {i \in ids : t \in c[i] \ b[i]} = {} /\ {i \in ids : t \in b[i] \ c[i]} = B
  OBVIOUS
<1>2. Cardinality(B) \in Nat /\ Cardinality({}) = 0
  BY IdsFinite, FS_EmptySet
<1> HIDE DEF B
<1>3. Shift(ids, b, c, t) = Cardinality({}) - Cardinality(B)
  BY <1>1 DEF Shift
<1> QED BY <1>2, <1>3 DEF B

(* What is left to settle is what is left to count. *)
LEMMA DetachingDelta ==
  ASSUME NEW q \in Query, NEW ids \in SUBSET Ids
  PROVE  LET p == Detaching(q, ids)
         IN  /\ p.pc = q.pc /\ p.in = q.in /\ p.seen = q.seen /\ p.found = q.found
             /\ \A t \in Tags : p.delta[t] = -Cardinality({i \in ids : t \in q.seen[i].tags})
<1> DEFINE delta == [t \in Tags |-> -Cardinality({i \in ids : t \in q.seen[i].tags})]
           p == [q EXCEPT !.ids = ids, !.delta = delta]
<1>1. Detaching(q, ids) = p
  BY DEF Detaching
<1>2. \A t \in Tags : delta[t] = -Cardinality({i \in ids : t \in q.seen[i].tags})
  OBVIOUS
<1> HIDE DEF delta
<1>3. p.pc = q.pc /\ p.in = q.in /\ p.seen = q.seen /\ p.found = q.found /\ p.delta = delta
  BY DEF Query
<1> QED BY <1>1, <1>2, <1>3

LEMMA RemoveRecordsTallies ==
  ASSUME Orderly, CatalogueInv', NEW r \in Requests, RemoveRecords(r)
  PROVE  Balanced'
<1> DEFINE q == req[r]  T == Touches(q.in)
           gone == CASE q.in.op = "delete" -> {q.in.id}
                     [] q.in.op = "batch delete" -> Elems(q.in.ids)
                     [] OTHER -> {i \in Ids : doc[i].path \in q.found}
           det == Detaching(q, {q.in.id})
           recheck == [q EXCEPT !.pc = "recheck"]
<1>1. /\ q.pc = "remove" /\ doc' = [i \in Ids |-> IF i \in gone THEN NoRec ELSE doc[i]]
      /\ q.in.op = "delete" => Go(r, ToPull(det))
      /\ q.in.op # "delete" => Go(r, recheck)
      /\ count' = count
  BY DEF RemoveRecords
<1>2. /\ RequestsOK /\ DataOK /\ AtWork(q) /\ q \in Query /\ q.in.op \in Ops /\ q.in.id \in Ids
      /\ q.in.ids \in Seq(Ids) /\ Recalls(q, doc, alive, list) /\ Knows(q, doc, files, move)
      /\ q.pc \in PcsOf(q.in.op) /\ Active(r) /\ Seen(q) \subseteq Ids /\ T \subseteq Ids
      /\ Elems(q.in.ids) \subseteq Ids
  BY <1>1, AtAny, ActiveOne, ElemsIn DEF Active, Orderly
<1>3. q.in.op \in {"delete", "batch delete", "directory delete"}
  BY <1>1, <1>2 DEF PcsOf, Ops, Viewing, Assigning, Pulling, Counts
<1>4. /\ gone \subseteq T /\ doc' \in [Ids -> Rec] /\ Untagged(doc)
      /\ \A i \in gone : doc'[i].path = None /\ doc'[i].tags = {}
      /\ \A i \in Ids \ gone : doc'[i] = doc[i]
  <2>1. q.in.op = "delete" => gone \subseteq T
    BY DEF Touches, ByDirectory
  <2>2. q.in.op = "batch delete" => gone \subseteq T
    BY DEF Touches, ByDirectory
  <2>3. q.in.op = "directory delete" => gone \subseteq T
    BY DEF Touches, ByDirectory
  <2>4. gone \subseteq T
    BY <1>3, <2>1, <2>2, <2>3
  <2> HIDE DEF gone, T
  <2>5. NoRec.path = None /\ NoRec.tags = {}
    BY DEF NoRec
  <2>6. \A i \in Ids : doc'[i] = IF i \in gone THEN NoRec ELSE doc[i]
    BY <1>1
  <2>7. doc' \in [Ids -> Rec]
    BY DEF CatalogueInv, Kept, DataOK
  <2> QED BY <1>2, <2>4, <2>5, <2>6, <2>7 DEF Orderly, Balanced
<1>5. /\ Untagged(doc')
      /\ \A i \in Ids \ T : doc'[i].tags = doc[i].tags /\ doc'[i].path = doc[i].path
  BY <1>4 DEF Untagged
<1>6. ~Due(q) /\ q.pc # "prune"
  BY <1>1 DEF Due, Pulling
<1>7. PICK k \in Tagging : Bill(q, k, doc)
  BY <1>2 DEF Orderly, Balanced, Tallied, Active
<1>8. CASE q.in.op = "delete"
  <2> DEFINE p == ToPull(det)
  <2>1. gone = {q.in.id}
    BY <1>8
  <2>2. /\ det.in = q.in
        /\ \A t \in Tags : det.delta[t] = -Cardinality({i \in {q.in.id} : t \in q.seen[i].tags})
    BY <1>2, DetachingDelta
  <2>3. det \in Query /\ AtWork(det) /\ det.in.op \in Serial
    BY <1>1, <1>2, <1>8, <2>2, DetachingOK DEF AtWork, QueryOK, Serial
  <2>4. ASSUME NEW t \in Tags PROVE det.delta[t] = Shift(T, TagsOf(doc), TagsOf(doc'), t)
    <3> DEFINE b == TagsOf(doc)  c == TagsOf(doc')  ids == {q.in.id}
               B == {i \in ids : t \in q.seen[i].tags}
    <3>1. /\ T \subseteq Ids /\ ids \subseteq T /\ B \subseteq ids
          /\ \A i \in ids : c[i] = {}
          /\ \A i \in ids : i \in B <=> t \in b[i]
          /\ \A i \in T \ ids : c[i] = b[i]
      <4>1. q.seen[q.in.id].tags = doc[q.in.id].tags
        BY <1>1, <1>7, <1>8 DEF Bill
      <4>2. \A i \in Ids : b[i] = doc[i].tags /\ c[i] = doc'[i].tags
        BY DEF TagsOf
      <4> HIDE DEF b, c, T, gone, q
      <4> QED BY <1>2, <1>4, <2>1, <4>1, <4>2
    <3> HIDE DEF b, c, ids, B, T
    <3>2. ids \in SUBSET Ids
      BY <3>1
    <3>3. Shift(ids, b, c, t) = -Cardinality({i \in ids : t \in b[i]})
      BY <3>1, <3>2, GoneShift
    <3>4. B = {i \in ids : t \in b[i]}
      BY <3>1
    <3>5. Shift(T, b, c, t) = Shift(ids, b, c, t)
      BY <3>1, ShiftWider
    <3>6. Shift(T, b, c, t) = -Cardinality(B)
      BY <3>3, <3>4, <3>5
    <3> QED BY <2>2, <3>6 DEF b, c, ids, B
  <2> HIDE DEF det, q, gone
  <2>5. Onward(det, p)
    BY <2>3, SeriesOnward
  <2> HIDE DEF p
  <2>6. Go(r, p)
    BY <1>1, <1>8 DEF p
  <2>7. p = Done \/ (p # Done /\ p.pc # "done")
    BY <2>5, DoneIs DEF Onward, Pulling
  <2>8. \/ det.delta = NoChange /\ (p = Done \/ (p.in = q.in /\ p.pc = "unlink"))
        \/ p # Done /\ p.in = q.in /\ p.delta = det.delta /\ p.pc \in Pulling \cup {"count"}
    <3>1. det.in.op \in Deleting /\ det.in.op = "delete"
      BY <1>8, <2>2 DEF Deleting
    <3>2. Copies(det, p) => p.in = q.in /\ p.delta = det.delta
      BY <2>2 DEF Copies
    <3>3. p = Done => det.delta = NoChange
      BY <2>5, <3>1, DoneIs DEF Onward, Pulling
    <3>4. p # Done => /\ Copies(det, p)
                      /\ p.pc \in Pulling \cup {"count"} \/ (p.pc = "unlink" /\ det.delta = NoChange)
      BY <2>5, <3>1 DEF Onward
    <3> QED BY <3>2, <3>3, <3>4
  <2>9. CASE det.delta = NoChange /\ (p = Done \/ (p.in = q.in /\ p.pc = "unlink"))
    <3>1. \A t \in Tags : det.delta[t] = 0
      BY <2>9 DEF NoChange
    <3>2. p = Done \/ \A b : Bill(p, b, doc')
      BY <1>8, <2>9 DEF Bill, Due, Removing, Pulling, OneRecord, Assigning
    <3> QED BY <1>1, <1>2, <1>4, <1>5, <1>6, <2>4, <2>6, <2>7, <3>1, <3>2, DeltaTallies DEF q
  <2>10. CASE p # Done /\ p.in = q.in /\ p.delta = det.delta /\ p.pc \in Pulling \cup {"count"}
    <3>1. Due(p)
      BY <1>8, <2>10 DEF Due, Deleting
    <3>2. ASSUME NEW b, \A t \in Tags : det.delta[t] = Shift(T, b, TagsOf(doc'), t)
          PROVE  Bill(p, b, doc')
      BY <1>8, <2>10, <3>2 DEF Bill, Pulling, OneRecord, Assigning
    <3> QED BY <1>1, <1>2, <1>4, <1>5, <1>6, <2>4, <2>6, <2>7, <2>10, <3>1, <3>2, DeltaTallies DEF q
  <2> QED BY <2>8, <2>9, <2>10
<1>9. CASE q.in.op # "delete"
  <2>1. recheck.pc = "recheck" /\ recheck.in = q.in /\ recheck.seen = q.seen /\ Go(r, recheck)
    BY <1>1, <1>2, <1>9 DEF Query
  <2> HIDE DEF recheck
  <2>2. Seen(recheck) = Seen(q) /\ recheck # Done /\ Due(recheck)
    BY <1>3, <1>9, <2>1, DoneIs DEF Seen, Due, Removing
  <2>3. /\ Seen(q) \subseteq gone
        /\ \A i \in Seen(q) : q.seen[i].tags = doc[i].tags
        /\ \A i \in T \ Seen(q) : doc'[i].tags = doc[i].tags
    <3>1. CASE q.in.op = "batch delete"
      <4>1. gone = Elems(q.in.ids)
        BY <3>1
      <4>2. Seen(q) \subseteq gone /\ \A i \in gone : doc[i].path = q.seen[i].path
        BY <1>1, <1>2, <3>1, <4>1 DEF Knows
      <4>3. \A i \in gone : q.seen[i].tags = doc[i].tags
        BY <1>1, <1>7, <3>1, <4>1 DEF Bill
      <4>4. \A i \in gone \ Seen(q) : doc[i].path = None
        BY <1>2, <4>1, <4>2 DEF Seen
      <4> HIDE DEF gone, T, q
      <4>5. \A i \in gone \ Seen(q) : doc[i].tags = {}
        BY <1>2, <1>4, <4>4 DEF Untagged
      <4> QED BY <1>2, <1>4, <4>2, <4>3, <4>5
    <3>2. CASE q.in.op = "directory delete"
      <4>1. Seen(q) = gone
        BY <1>1, <1>2, <3>2 DEF Recalls
      <4>2. \A i \in Seen(q) : q.seen[i].tags = doc[i].tags
        BY <1>1, <1>7, <3>2 DEF Bill
      <4> HIDE DEF gone, T, q
      <4> QED BY <1>2, <1>4, <4>1, <4>2
    <3> QED BY <1>3, <1>9, <3>1, <3>2
  <2> HIDE DEF q, T, gone
  <2>4. ASSUME NEW c, \A i \in T : c[i] = doc[i].tags PROVE Bill(recheck, c, doc')
    <3>1. /\ Seen(q) \subseteq T
          /\ \A i \in Seen(q) : doc'[i].tags = {} /\ c[i] = q.seen[i].tags
          /\ \A i \in T \ Seen(q) : c[i] = doc'[i].tags
      BY <1>4, <2>3, <2>4
    <3> QED BY <1>3, <1>9, <2>1, <2>2, <3>1 DEF Bill, Assigning, Pulling, Counts, OneRecord, T
  <2> QED BY <1>1, <1>2, <1>5, <1>6, <2>1, <2>2, <2>4, KeepTallies DEF q, T
<1> QED BY <1>8, <1>9

(* The records of a batch that are gone are all those that it has seen. *)
LEMMA RecheckTallies ==
  ASSUME Orderly, NEW r \in Requests, Recheck(r)
  PROVE  Balanced'
<1> DEFINE q == req[r]  T == Touches(q.in)
           gone == IF q.in.op = "batch delete" THEN {i \in Seen(q) : ~Exists(i)}
                   ELSE {i \in Seen(q) : At(q.seen[i].path) = {}}
           found == {q.seen[i].path : i \in gone}
           det == Detaching(q, gone)
           p == [det EXCEPT !.pc = "unlink", !.found = found]
<1>1. /\ q.pc = "recheck" /\ UNCHANGED <<doc, count>>
      /\ gone = {} => Go(r, Done)
      /\ gone # {} => Go(r, p)
  BY DEF Recheck, dataVars
<1>2. /\ RequestsOK /\ DataOK /\ AtWork(q) /\ q \in Query /\ q.in.op \in Ops
      /\ Recalls(q, doc, alive, list) /\ Knows(q, doc, files, move) /\ Active(r)
      /\ q.pc \in PcsOf(q.in.op) /\ Seen(q) \subseteq Ids /\ T \subseteq Ids
  BY <1>1, AtAny, ActiveOne DEF Active, Orderly
<1>3. Removing(q) /\ q.pc # "prune"
  BY <1>1, <1>2 DEF PcsOf, Ops, Viewing, Assigning, Pulling, Counts, Removing
<1>4. gone = Seen(q)
  <2>1. CASE q.in.op = "batch delete"
    BY <1>1, <1>2, <2>1 DEF Recalls, Exists
  <2>2. CASE q.in.op = "directory delete"
    <3>1. \A x \in SeenPaths(q) : Holders(doc, x) = {}
      BY <1>1, <1>2, <2>2 DEF Knows, Doomed, Spared, Untroubled, Orderly
    <3> QED BY <2>2, <3>1 DEF SeenPaths, At, Holders
  <2> QED BY <1>3, <2>1, <2>2 DEF Removing
<1>5. Untagged(doc')
  BY <1>1 DEF Orderly, Balanced, Untagged
<1>6. \A i \in Ids \ T : doc'[i].tags = doc[i].tags /\ doc'[i].path = doc[i].path
  BY <1>1
<1>7. det \in Query /\ det.in = q.in
      /\ \A t \in Tags : det.delta[t] = -Cardinality({i \in gone : t \in q.seen[i].tags})
  <2>1. gone \in SUBSET Ids
    BY <1>2, <1>4
  <2> HIDE DEF q, gone
  <2>2. det \in Query
    BY <1>1, <1>2, <2>1, DetachingOK DEF AtWork, QueryOK
  <2> QED BY <1>2, <2>1, <2>2, DetachingDelta
<1> HIDE DEF det, found
<1>8. p.pc = "unlink" /\ p.in = q.in /\ p.delta = det.delta
  BY <1>7 DEF Query
<1> HIDE DEF p, q, gone
<1>9. ASSUME NEW c, Bill(q, c, doc)
      PROVE  /\ \A i \in Seen(q) : doc[i].tags = {} /\ c[i] = q.seen[i].tags
             /\ \A i \in T \ Seen(q) : c[i] = doc[i].tags
             /\ Seen(q) \subseteq T
  BY <1>1, <1>9 DEF Bill
<1>10. CASE gone = {}
  <2>1. \A c : Bill(q, c, doc) => \A i \in T : c[i] = doc'[i].tags
    BY <1>1, <1>4, <1>9, <1>10
  <2>2. Go(r, Done)
    BY <1>1, <1>10
  <2> QED BY <1>1, <1>2, <1>3, <1>5, <1>6, <2>1, <2>2, KeepTallies DEF q
<1>11. CASE gone # {}
  <2>1. Go(r, p) /\ p # Done /\ p.pc # "done" /\ Due(p)
    BY <1>1, <1>3, <1>8, <1>11, DoneIs DEF Due, Removing
  <2>2. ASSUME NEW k, Bill(q, k, doc) PROVE Bill(p, k, doc')
    <3>1. ASSUME NEW t \in Tags PROVE p.delta[t] = Shift(T, k, TagsOf(doc'), t)
      <4> DEFINE c == TagsOf(doc')  ids == Seen(q)  B == {i \in ids : t \in q.seen[i].tags}
      <4>1. /\ T \subseteq Ids /\ ids \subseteq T /\ B \subseteq ids
            /\ \A i \in ids : c[i] = {}
            /\ \A i \in ids : i \in B <=> t \in k[i]
            /\ \A i \in T \ ids : c[i] = k[i]
        <5>1. \A i \in Ids : c[i] = doc[i].tags
          BY <1>1 DEF TagsOf
        <5> HIDE DEF c, T
        <5> QED BY <1>2, <1>9, <2>2, <5>1
      <4> HIDE DEF c, ids, B, T
      <4>2. ids \in SUBSET Ids
        BY <4>1
      <4>3. Shift(ids, k, c, t) = -Cardinality({i \in ids : t \in k[i]})
        BY <4>1, <4>2, GoneShift
      <4>4. B = {i \in ids : t \in k[i]}
        BY <4>1
      <4>5. Shift(T, k, c, t) = Shift(ids, k, c, t)
        BY <4>1, ShiftWider
      <4>6. Shift(T, k, c, t) = -Cardinality(B)
        BY <4>3, <4>4, <4>5
      <4> QED BY <1>4, <1>7, <1>8, <4>6 DEF c, ids, B
    <3> QED BY <1>3, <1>8, <3>1 DEF Bill, Removing, OneRecord, Assigning, Pulling
  <2>3. p.in = req[r].in
    BY <1>8 DEF q
  <2> QED BY <1>1, <1>2, <1>3, <1>5, <1>6, <2>1, <2>2, <2>3, KeepTallies DEF q
<1> QED BY <1>10, <1>11

(* Nothing is missing, so the series are next. *)
LEMMA UnlinkTallies ==
  ASSUME Orderly, RequestsOK', NEW r \in Requests, UnlinkMany(r) \/ UnlinkOne(r)
  PROVE  Balanced'
<1> DEFINE q == req[r]
<1>1. /\ q.pc = "unlink" /\ UNCHANGED <<doc, count>>
      /\ \/ q.in.op # "delete" /\ (q.found \subseteq files => Go(r, ToPull(q)))
         \/ q.in.op = "delete" /\ Go(r, Done)
  BY DEF UnlinkMany, UnlinkOne, Finish
<1>2. /\ RequestsOK /\ AtWork(q) /\ q \in Query /\ q.in.op \in Ops /\ Active(r)
      /\ Knows(q, doc, files, move) /\ q.pc \in PcsOf(q.in.op)
  BY <1>1, AtAny DEF Active, Orderly
<1>3. CASE q.in.op = "delete"
  <2>1. ~Due(q) /\ Go(r, Done) /\ q.pc # "prune"
    BY <1>1, <1>3 DEF Due, Removing, Pulling
  <2> QED BY <1>1, <1>2, <2>1, CalmTallies
<1>4. CASE q.in.op # "delete"
  <2>1. Removing(q)
    BY <1>1, <1>2, <1>4 DEF PcsOf, Ops, Viewing, Assigning, Pulling, Counts, Removing
  <2>2. q.found \subseteq files
    BY <1>1, <1>2, <2>1 DEF Knows, Doomed, Spared, Untroubled, Removing, Orderly
  <2> HIDE DEF q
  <2>3. Onward(q, ToPull(q))
    BY <1>2, <2>1, SeriesOnward DEF Removing, Serial
  <2> QED BY <1>1, <1>2, <1>4, <2>1, <2>2, <2>3, OnwardTallies DEF q
<1> QED BY <1>3, <1>4

-----------------------------------------------------------------------------
(* The counters. *)

(* Nothing is counted down below zero. *)
LEMMA NeverNegative ==
  ASSUME Orderly, NEW r \in Requests, Active(r), Due(req[r]), req[r].pc # "recheck",
         NEW t \in Tags
  PROVE  /\ Value(count[t]) \in Nat /\ req[r].delta[t] \in Int
         /\ Value(count[t]) + req[r].delta[t] \in Nat
<1> DEFINE q == req[r]  T == Touches(q.in)
<1>1. PICK c \in Tagging : Tallied(c, doc, count, req)
  BY DEF Orderly, Balanced
<1>2. /\ doc \in [Ids -> Rec] /\ T \in SUBSET Ids /\ RequestsOK
  BY ActiveOne DEF Orderly, Untroubled, CatalogueInv, Kept, DataOK
<1> DEFINE b == [i \in Ids |-> IF i \in T THEN doc[i].tags ELSE c[i]]
<1>3. b \in Tagging
  BY <1>2 DEF Tagging, Rec
<1>4. \A i \in Ids \ T : b[i] = c[i]
  OBVIOUS
<1>5. \A i \in T : b[i] = TagsOf(doc)[i]
  BY <1>2 DEF TagsOf
<1> HIDE DEF b
<1>6. q.delta[t] = Shift(T, c, TagsOf(doc), t)
  BY <1>1 DEF Tallied, Active, Bill
<1>7. Shift(T, c, b, t) = Shift(T, c, TagsOf(doc), t)
  BY <1>5, ShiftSame
<1>8. /\ Cardinality(Bearing(b, t)) = Cardinality(Bearing(c, t)) + Shift(T, c, b, t)
      /\ Cardinality(Bearing(b, t)) \in Nat /\ Cardinality(Bearing(c, t)) \in Nat
      /\ Shift(T, c, b, t) \in Int
  BY <1>2, <1>3, <1>4, ShiftBearing
<1>9. Value(count[t]) = Cardinality(Bearing(c, t))
  BY <1>1 DEF Tallied
<1> QED BY <1>6, <1>7, <1>8, <1>9

(* What follows the counters. *)
LEMMA IdleBill ==
  ASSUME NEW q \in Query, q.in.op = "batch update" => q.found = {}, NEW p,
         p = AfterCount(q) \/ p = [q EXCEPT !.pc = "prune"]
  PROVE  p = Done \/ (p.pc \in {"prune", "unlink"} /\ \A c, d : Bill(p, c, d))
<1>1. ASSUME q.in.op = "delete", p = [q EXCEPT !.pc = "unlink"]
      PROVE  p.pc = "unlink" /\ \A c, d : Bill(p, c, d)
  <2>1. p.pc = "unlink" /\ p.in = q.in
    BY <1>1 DEF Query
  <2> QED BY <1>1, <2>1 DEF Bill, Due, Removing, Pulling, OneRecord, Assigning
<1>2. ASSUME p = [q EXCEPT !.pc = "prune"]
      PROVE  p.pc = "prune" /\ \A c, d : Bill(p, c, d)
  <2>1. p.pc = "prune" /\ p.in = q.in /\ p.found = q.found
    BY <1>2 DEF Query
  <2> QED BY <2>1 DEF Bill, Due, Removing, Pulling, Counts, Assigning
<1> QED BY <1>1, <1>2 DEF AfterCount

LEMMA CountTagsTallies ==
  ASSUME Orderly, NEW r \in Requests, CountTags(r)
  PROVE  Balanced'
<1> DEFINE q == req[r]
           p == IF \E t \in Tags : q.delta[t] < 0 THEN [q EXCEPT !.pc = "prune"] ELSE AfterCount(q)
<1>1. /\ q.pc = "count" /\ doc' = doc /\ Go(r, p)
      /\ count' = [t \in Tags |->
                     IF q.delta[t] = 0 THEN count[t] ELSE Counted(count[t], q.delta[t])]
  BY DEF CountTags
<1>2. Active(r) /\ Due(q) /\ q.pc # "recheck" /\ q \in Query /\ DataOK
  BY <1>1, AtAny DEF Active, Due, Orderly
<1>3. q.in.op = "batch update" => q.found = {}
  BY <1>2 DEF Orderly, Balanced, Tallied, Active, Bill
<1>4. p = Done \/ (p.pc \in {"prune", "unlink"} /\ \A c, d : Bill(p, c, d))
  BY <1>2, <1>3, IdleBill
<1>5. \A t \in Tags : q.delta[t] < 0 => p.pc = "prune"
  BY <1>2 DEF Query
<1> HIDE DEF q, p
<1>6. ASSUME NEW t \in Tags
      PROVE  /\ Value(count'[t]) = Value(count[t]) + q.delta[t]
             /\ count'[t] = 0 => p.pc = "prune" \/ count[t] = 0
  <2>1. /\ Value(count[t]) \in Nat /\ q.delta[t] \in Int /\ Value(count[t]) + q.delta[t] \in Nat
    BY <1>2, NeverNegative DEF q
  <2>2. count'[t] = IF q.delta[t] = 0 THEN count[t] ELSE Counted(count[t], q.delta[t])
    BY <1>1
  <2>3. count[t] = None \/ count[t] \in Int
    BY <1>2 DEF DataOK
  <2>4. None \notin Int
    BY CatalogueAssumption
  <2>5. CASE q.delta[t] = 0
    BY <2>1, <2>2, <2>5
  <2>6. CASE q.delta[t] # 0 /\ count[t] = None
    <3>1. q.delta[t] > 0
      BY <2>1, <2>6 DEF Value
    <3>2. count'[t] = q.delta[t]
      BY <2>2, <2>6, <3>1 DEF Counted
    <3>3. count'[t] # None /\ count'[t] # 0
      BY <2>1, <2>4, <2>6, <3>2
    <3> QED BY <2>1, <2>6, <3>2, <3>3 DEF Value
  <2>7. CASE q.delta[t] # 0 /\ count[t] # None
    <3>1. count'[t] = count[t] + q.delta[t] /\ count[t] \in Int
      BY <2>2, <2>3, <2>7 DEF Counted
    <3>2. count'[t] \in Int
      BY <2>1, <3>1
    <3>3. Value(count'[t]) = count'[t] /\ Value(count[t]) = count[t]
      BY <2>4, <2>7, <3>2 DEF Value
    <3>4. count'[t] = 0 => q.delta[t] < 0
      BY <2>1, <2>7, <3>1, <3>3
    <3> QED BY <1>5, <3>1, <3>3, <3>4
  <2> QED BY <2>5, <2>6, <2>7
<1>7. p = Done \/ p.pc # "done"
  BY <1>4
<1> QED BY <1>1, <1>2, <1>4, <1>6, <1>7, PaidTallies DEF q

(* The counters that are deleted are those at zero. *)
LEMMA PruneTagsTallies ==
  ASSUME Orderly, NEW r \in Requests, PruneTags(r)
  PROVE  Balanced'
<1> DEFINE q == req[r]  p == AfterCount(q)  T == Touches(q.in)
<1>1. /\ q.pc = "prune" /\ doc' = doc /\ Go(r, p)
      /\ count' = [t \in Tags |-> IF count[t] # None /\ count[t] <= 0 THEN None ELSE count[t]]
  BY DEF PruneTags
<1>2. Active(r) /\ ~Due(q) /\ q \in Query /\ DataOK
  BY <1>1, AtAny DEF Active, Due, Orderly, Pulling
<1>3. q.in.op = "batch update" => q.found = {}
  BY <1>2 DEF Orderly, Balanced, Tallied, Active, Bill
<1>4. p = Done \/ (p.pc \in {"prune", "unlink"} /\ \A c, d : Bill(p, c, d))
  BY <1>2, <1>3, IdleBill
<1>5. PICK c \in Tagging : Tallied(c, doc, count, req)
  BY DEF Orderly, Balanced
<1>6. \A i \in T : c[i] = doc'[i].tags
  BY <1>1, <1>2, <1>5, NothingDue
<1>7. ASSUME NEW t \in Tags
      PROVE  Value(count'[t]) = Cardinality(Bearing(c, t)) /\ count'[t] # 0
  <2>1. Value(count[t]) = Cardinality(Bearing(c, t)) /\ Cardinality(Bearing(c, t)) \in Nat
    <3>1. Bearing(c, t) \in SUBSET Ids
      BY DEF Bearing
    <3> QED BY <1>5, <3>1, IdsFinite DEF Tallied
  <2>2. count'[t] = IF count[t] # None /\ count[t] <= 0 THEN None ELSE count[t]
    BY <1>1
  <2>3. /\ None \notin Int /\ (count[t] = None \/ count[t] \in Int)
    BY <1>2, CatalogueAssumption DEF DataOK
  <2> QED BY <2>1, <2>2, <2>3 DEF Value
<1>8. Untagged(doc')
  BY <1>1 DEF Orderly, Balanced, Untagged
<1>9. p = Done \/ (p.pc # "done" /\ Bill(p, c, doc'))
  BY <1>4
<1> HIDE DEF p, T
<1>10. \A i \in Ids \ T : c[i] = c[i] /\ doc'[i].tags = doc[i].tags /\ doc'[i].path = doc[i].path
  BY <1>1
<1>11. \A i \in T : c[i] # doc'[i].tags => p # Done /\ Due(p) /\ p.in = q.in
  BY <1>6
<1> QED BY <1>1, <1>2, <1>5, <1>7, <1>8, <1>9, <1>10, <1>11, OneTallies DEF q, T

-----------------------------------------------------------------------------
(* The first call of a request. *)

LEMMA ShiftNone ==
  ASSUME NEW ids, NEW b, NEW c, \A i \in ids : b[i] = c[i], NEW t
  PROVE  Shift(ids, b, c, t) = 0
<1>1. {i \in ids : t \in c[i] \ b[i]} = {} /\ {i \in ids : t \in b[i] \ c[i]} = {}
  OBVIOUS
<1>2. Cardinality({}) = 0
  BY FS_EmptySet
<1>3. Shift(ids, b, c, t) = Cardinality({}) - Cardinality({})
  BY <1>1 DEF Shift
<1> QED BY <1>2, <1>3

LEMMA AskTallies ==
  ASSUME CatalogueInv, CountInv, ~contended', NEW r \in Requests, NEW op, NEW p,
         Asks(r, op, p), p.pc # "done", \A c : Bill(p, c, doc)
  PROVE  Balanced'
<1>1. /\ doc' = doc /\ count' = count /\ Go(r, p) /\ ~Active(r) /\ ~contended /\ req[r].pc = "new"
  BY DEF Asks, dataVars, Active
<1>2. RequestsOK /\ Balanced
  BY <1>1 DEF CatalogueInv, Kept, CountInv
<1>3. PICK c \in Tagging : Tallied(c, doc, count, req)
  BY <1>2 DEF Balanced
<1>4. OutOfTheWay(r, {})
  BY <1>1 DEF OutOfTheWay
<1>5. CountedBy(p, c, {})
  BY <1>1 DEF CountedBy
<1>6. \A t \in Tags : count'[t] = 0 =>
        p.pc = "prune" \/ \E u \in Requests \ {r} : req[u].pc = "prune"
  BY <1>1, <1>3 DEF Tallied
<1>7. \A t \in Tags : Value(count'[t]) = Cardinality(Bearing(c, t))
  BY <1>1, <1>3 DEF Tallied
<1> DEFINE ids == {}
<1>8. /\ ids \in SUBSET Ids /\ OutOfTheWay(r, ids) /\ CountedBy(p, c, ids)
      /\ \A i \in Ids \ ids : c[i] = c[i] /\ doc'[i].tags = doc[i].tags
  BY <1>1, <1>4, <1>5
<1> HIDE DEF ids
<1>9. Tallied(c, doc', count', req')
  BY <1>1, <1>2, <1>3, <1>6, <1>7, <1>8, TallyStep
<1>10. Untagged(doc')
  BY <1>1, <1>2 DEF Balanced, Untagged
<1> QED BY <1>3, <1>9, <1>10 DEF Balanced

LEMMA AskOneTallies ==
  ASSUME CatalogueInv, CountInv, ~contended', NEW r \in Requests,
         NEW op \in OneRecord \cup {"delete"}, NEW in \in Inputs, NEW k,
         k = IF op \in Viewing THEN "save" ELSE "lock", Exists(in.id),
         Asks(r, op, [Fresh EXCEPT !.pc = k, !.in = in, !.seen = ReadIds({in.id})])
  PROVE  Balanced'
<1> DEFINE e == ReadIds({in.id})  p == [Fresh EXCEPT !.pc = k, !.in = in, !.seen = e]
<1>1. /\ in.id \in Ids /\ e[in.id] = doc[in.id] /\ \A i \in Ids \ {in.id} : e[i].path = None
  BY CatalogueAssumption DEF Input, Question, ReadIds, NoRec
<1>2. Asks(r, op, p)
  OBVIOUS
<1> HIDE DEF e
<1>3. p.pc = k /\ p.in = in /\ p.seen = e /\ p.delta = NoChange
  BY DEF Fresh
<1> HIDE DEF p
<1>4. in.op = op
  BY <1>2, <1>3 DEF Asks
<1>5. Seen(p) = {in.id}
  BY <1>1, <1>3 DEF Seen, Exists
<1>6. ASSUME NEW t \in Tags PROVE p.delta[t] = Shift({in.id}, TagsOf(doc), TagsOf(p.seen), t)
  <2>1. \A i \in {in.id} : TagsOf(doc)[i] = TagsOf(p.seen)[i]
    BY <1>1, <1>3 DEF TagsOf
  <2>2. Shift({in.id}, TagsOf(doc), TagsOf(p.seen), t) = 0
    BY <2>1, ShiftNone
  <2> QED BY <1>3, <2>2 DEF NoChange
<1>7. ASSUME NEW c PROVE Bill(p, c, doc)
  <2>1. p.pc \in {"save", "lock"} /\ (op = "edit" => p.pc = "lock") /\ ~Due(p)
    BY <1>3 DEF Viewing, Due, Pulling
  <2> QED BY <1>1, <1>3, <1>4, <1>5, <1>6, <2>1 DEF Bill, OneRecord, Assigning, Pulling
<1>8. p.pc # "done"
  BY <1>3
<1> QED BY <1>2, <1>7, <1>8, AskTallies

LEMMA AskingTallies ==
  ASSUME CatalogueInv, CountInv, ~contended', NEW r \in Requests, Asking(r)
  PROVE  Balanced'
<1>1. ASSUME NEW in \in Inputs, NEW op \in Viewing, ReadToSave(r, in, op) PROVE Balanced'
  BY <1>1, AskOneTallies DEF ReadToSave, Viewing, OneRecord
<1>2. CASE RecordView(r) \/ GetThumbnail(r) \/ EnsureDuration(r)
  BY <1>1, <1>2 DEF RecordView, GetThumbnail, EnsureDuration, Viewing
<1>3. CASE EditVideo(r)
  BY <1>3, AskOneTallies DEF EditVideo, Viewing, OneRecord
<1>4. CASE DeleteVideo(r)
  BY <1>4, AskOneTallies DEF DeleteVideo, Viewing
<1>5. CASE AskBatch(r)
  <2>1. PICK in \in Inputs, op \in {"batch update", "batch delete"} :
          Asks(r, op, [Fresh EXCEPT !.pc = "lock", !.in = in, !.seen = ReadIds(Elems(in.ids))])
    BY <1>5 DEF AskBatch
  <2> DEFINE e == ReadIds(Elems(in.ids))
             p == [Fresh EXCEPT !.pc = "lock", !.in = in, !.seen = e]
  <2>2. Asks(r, op, p)
    BY <2>1
  <2> HIDE DEF e
  <2>3. p.pc = "lock" /\ p.found = {}
    BY DEF Fresh
  <2> HIDE DEF p
  <2>4. p.in.op = op
    BY <2>2 DEF Asks
  <2>5. \A c : Bill(p, c, doc)
    BY <2>3, <2>4 DEF Bill, Due, Pulling, Assigning, OneRecord
  <2> QED BY <2>2, <2>3, <2>5, AskTallies
<1>6. CASE WalkDirectory(r)
  <2>1. PICK in \in Inputs, op \in {"directory update", "directory delete", "list"} :
          Asks(r, op, [Fresh EXCEPT !.pc = IF op = "list" THEN "locks" ELSE "find",
                         !.in = in, !.found = files \cap Dir])
    BY <1>6 DEF WalkDirectory
  <2> DEFINE k == IF op = "list" THEN "locks" ELSE "find"  paths == files \cap Dir
             p == [Fresh EXCEPT !.pc = k, !.in = in, !.found = paths]
  <2>2. Asks(r, op, p) /\ k \in {"locks", "find"}
    BY <2>1
  <2> HIDE DEF k, paths
  <2>3. p.pc = k
    BY DEF Fresh
  <2> HIDE DEF p
  <2>4. p.in.op = op
    BY <2>2 DEF Asks
  <2>5. \A c : Bill(p, c, doc)
    BY <2>2, <2>3, <2>4 DEF Bill, Due, Pulling, Assigning, OneRecord
  <2> QED BY <2>2, <2>3, <2>5, AskTallies
<1> QED BY <1>2, <1>3, <1>4, <1>5, <1>6 DEF Asking

-----------------------------------------------------------------------------
(* The migration, where it replaces nobody. *)

LEMMA StillTallied ==
  ASSUME RequestsOK, Balanced, req' = req, count' = count,
         \A i \in Ids : doc'[i].tags = doc[i].tags /\ (doc'[i].path = None <=> doc[i].path = None),
         \A r \in Requests : Active(r) /\ WholeDir(req[r].in) =>
           \A i \in Ids : doc'[i].path = doc[i].path
  PROVE  Balanced'
<1>1. PICK c \in Tagging : Tallied(c, doc, count, req)
  BY DEF Balanced
<1>2. Untagged(doc')
  BY DEF Balanced, Untagged
<1>3. ASSUME NEW r \in Requests, req'[r].pc \notin {"new", "done"} PROVE Bill(req'[r], c, doc')
  <2> DEFINE q == req[r]
  <2>1. AtWork(q) /\ Touches(q.in) \subseteq Ids /\ Active(r) /\ Bill(q, c, doc)
    BY <1>1, <1>3, ActiveOne DEF Active, Tallied
  <2>2. \A i \in Touches(q.in) :
           c[i] = c[i] /\ doc'[i].tags = doc[i].tags /\ (doc'[i].path = None <=> doc[i].path = None)
    BY <2>1
  <2>3. WholeDir(q.in) => \A i \in Ids : doc'[i].path = doc[i].path
    BY <2>1
  <2> HIDE DEF q
  <2>4. Bill(q, c, doc')
    BY <2>1, <2>2, <2>3, BillSame
  <2> QED BY <2>4 DEF q
<1>4. Tallied(c, doc', count', req')
  BY <1>1, <1>3 DEF Tallied
<1> QED BY <1>2, <1>4 DEF Balanced

LEMMA MoveTallies ==
  ASSUME CatalogueInv, RowsInv, CountInv, ~move.overwrite, ~contended', MoveStep
  PROVE  Balanced'
<1>1. Interrupts /\ req' = req /\ count' = count
  BY DEF MoveStep, BeginMove, CopyMove, FailMove, RepointMove, FinishMove, dataVars
<1>2. ~contended /\ RequestsOK /\ DataOK /\ InOrder /\ Balanced /\ MoveOK
  BY <1>1, Undisturbed DEF CatalogueInv, Kept, RowsInv, CountInv
<1>3. CASE doc' = doc
  BY <1>1, <1>2, <1>3, StillTallied
<1>4. CASE RepointMove
  <2> DEFINE moved == [i \in Ids |-> CASE i \in At(move.src) -> [doc[i] EXCEPT !.path = move.tgt]
                                       [] i \in {} -> NoRec
                                       [] OTHER -> doc[i]]
  <2>1. move.phase = "copied" /\ (doc' = doc \/ doc' = moved)
    BY <1>4 DEF RepointMove
  <2>2. move.tgt # None /\ move.src # None /\ UnderWay(move)
    BY <2>1, CatalogueAssumption DEF CatalogueInv, MoveSet, UnderWay
  <2>3. \A i \in Ids : /\ moved[i].tags = doc[i].tags
                       /\ moved[i].path = None <=> doc[i].path = None
    <3> TAKE i \in Ids
    <3>1. doc[i] \in Rec
      BY <1>2 DEF DataOK
    <3>2. /\ [doc[i] EXCEPT !.path = move.tgt].path = move.tgt
          /\ [doc[i] EXCEPT !.path = move.tgt].tags = doc[i].tags
      BY <3>1 DEF Rec
    <3>3. moved[i] = IF doc[i].path = move.src THEN [doc[i] EXCEPT !.path = move.tgt] ELSE doc[i]
      BY DEF At
    <3> HIDE DEF moved
    <3> QED BY <2>2, <3>2, <3>3
  <2>4. \A r \in Requests : Active(r) => ~WholeDir(req[r].in)
    BY <1>2, <2>2 DEF InOrder, Knows
  <2> HIDE DEF moved
  <2>5. CASE doc' = moved
    BY <1>1, <1>2, <2>3, <2>4, <2>5, StillTallied
  <2> QED BY <1>3, <2>1, <2>5
<1> QED BY <1>3, <1>4 DEF MoveStep, BeginMove, CopyMove, FailMove, FinishMove, dataVars

-----------------------------------------------------------------------------
(* The counters, always. *)

LEMMA CountsInitially == CatalogueInit => CountInv
<1> SUFFICES ASSUME CatalogueInit PROVE Balanced
  BY DEF CountInv
<1> DEFINE back(i) == IF \E s \in Series : i \in Elems(list[s])
                      THEN CHOOSE s \in Series : i \in Elems(list[s]) ELSE None
           c == TagsOf(doc)
<1>1. \A r \in Requests : req[r].pc = "new"
  BY DEF CatalogueInit, Fresh
<1>2. ASSUME NEW i \in Ids
      PROVE  /\ doc[i].path = None => doc[i].tags = {}
             /\ doc[i].tags \in SUBSET Tags /\ c[i] = doc[i].tags
  <2>1. doc[i] = IF Home[i] = None THEN NoRec
                 ELSE [path |-> Home[i], tags |-> Tagged[i], series |-> back(i)]
    BY DEF CatalogueInit
  <2> HIDE DEF back
  <2>2. Tagged[i] \in SUBSET Tags
    BY CatalogueAssumption
  <2>3. c[i] = doc[i].tags
    BY DEF TagsOf
  <2>4. CASE Home[i] = None
    BY <2>1, <2>3, <2>4 DEF NoRec
  <2>5. CASE Home[i] # None
    BY <2>1, <2>2, <2>3, <2>5
  <2> QED BY <2>4, <2>5
<1>3. c \in Tagging
  BY <1>2 DEF Tagging, TagsOf
<1>4. ASSUME NEW t \in Tags PROVE Value(count[t]) = Cardinality(Bearing(c, t)) /\ count[t] # 0
  <2>1. Bearing(c, t) = {i \in Ids : t \in doc[i].tags}
    BY <1>2 DEF Bearing
  <2>2. Refs(t) = Cardinality(Bearing(c, t)) /\ Bearing(c, t) \in SUBSET Ids
    BY <2>1 DEF Refs
  <2>3. count[t] = IF Refs(t) = 0 THEN None ELSE Refs(t)
    BY DEF CatalogueInit
  <2>4. Refs(t) \in Nat /\ None \notin Int
    BY <2>2, IdsFinite, CatalogueAssumption
  <2> HIDE DEF c
  <2> QED BY <2>2, <2>3, <2>4 DEF Value
<1> HIDE DEF c
<1>5. Tallied(c, doc, count, req)
  BY <1>1, <1>2, <1>4 DEF Tallied
<1>6. Untagged(doc)
  BY <1>2 DEF Untagged
<1> QED BY <1>3, <1>5, <1>6 DEF Balanced

LEMMA CountSteps ==
  CatalogueInv /\ RowsInv /\ SeriesInv /\ CountInv /\ ~move.overwrite /\ [CatalogueNext]_vars
    => CountInv'
<1> SUFFICES ASSUME CatalogueInv, RowsInv, SeriesInv, CountInv, ~move.overwrite,
                    [CatalogueNext]_vars, ~contended'
             PROVE  Balanced'
  BY DEF CountInv
<1>1. CatalogueInv' /\ RequestsOK'
  BY CatalogueSteps DEF CatalogueInv, Kept
<1>2. ASSUME NEW r \in Requests, SeriesStep(r) \/ RecordStep(r) \/ TagStep(r) PROVE Balanced'
  <2>1. contended' = contended
    BY <1>2 DEF SeriesStep, Resolve, FindTarget, InsertSeries, SetMembers, FindAffected, PullIds,
       SweepSeries, Refer, RecordStep, Save, CheckLocks, CheckOthers, CheckForeign, CheckListing,
       ReadSelection, BulkWrite, InsertListed, RemoveRecords, Recheck, UnlinkMany, UnlinkOne,
       TagStep, CountTags, PruneTags, Zenon
  <2>2. Orderly
    BY <2>1 DEF Orderly, Untroubled, RowsInv, SeriesInv, CountInv
  <2>3. CASE SeriesStep(r)
    BY <1>1, <2>2, <2>3, SeriesTallies
  <2>4. CASE RecordStep(r)
    BY <1>1, <2>2, <2>4, SaveTallies, CheckLocksTallies, CheckOthersTallies, ReadSelectionTallies,
       BulkWriteTallies, InsertListedTallies, RemoveRecordsTallies, RecheckTallies, UnlinkTallies
       DEF RecordStep
  <2>5. CASE TagStep(r)
    BY <2>2, <2>5, CountTagsTallies, PruneTagsTallies DEF TagStep
  <2> QED BY <1>2, <2>3, <2>4, <2>5
<1>3. CASE \E r \in Requests : Asking(r)
  BY <1>3, AskingTallies
<1>4. CASE MoveStep
  BY <1>4, MoveTallies
<1>5. CASE UNCHANGED vars
  <2>1. UNCHANGED <<doc, count, req, contended>>
    BY <1>5 DEF vars, dataVars
  <2> QED BY <2>1, StillTallied DEF CatalogueInv, Kept, CountInv
<1> QED BY <1>2, <1>3, <1>4, <1>5 DEF CatalogueNext

LEMMA RestCounted ==
  ASSUME Quiet, Balanced, NEW t \in Tags
  PROVE  Exact(t)
<1>1. PICK c \in Tagging : Tallied(c, doc, count, req)
  BY DEF Balanced
<1>2. \A r \in Requests : req[r].pc \in {"new", "done"}
  BY DEF Quiet, Active
<1>3. \A i \in Ids : c[i] = doc[i].tags
  BY <1>1, <1>2 DEF Tallied, Due, Pulling
<1>4. count[t] # 0 /\ Value(count[t]) = Cardinality(Bearing(c, t))
  BY <1>1, <1>2 DEF Tallied
<1>5. Bearing(c, t) = {i \in Ids : t \in doc[i].tags}
  BY <1>3 DEF Bearing
<1>6. Refs(t) = Value(count[t])
  BY <1>4, <1>5 DEF Refs
<1> QED BY <1>4, <1>6 DEF Exact, Value

(* Every tag's counter says, at rest, how many records bear the tag, and a *)
(* tag nobody bears has none: an edit, a batch and a delete write their    *)
(* records first and send the difference to what they had read afterwards  *)
(* (update_metadata, batch_update, _remove_videos_and_update_tags), side   *)
(* by side with others' counting and with the deletion of counters at zero *)
(* (update_tag_counts in tag_operation_service.py).  As above, nothing is  *)
(* overwritten: no one counts the tags of a replaced record down, and a    *)
(* batch delete that misses a file ends before it counts.                  *)
THEOREM CountersAgree == ASSUME NothingIsReplaced PROVE CatalogueSpec => []CountsAgree
<1>1. CatalogueSpec => [](CatalogueInv /\ RowsInv /\ SeriesInv /\ CountInv)
  <2>1. CatalogueInit => SeriesInv /\ CountInv
    BY SeriesInitially, CountsInitially
  <2>2. CatalogueInv /\ RowsInv /\ SeriesInv /\ ~move.overwrite /\ [CatalogueNext]_vars => SeriesInv'
    BY SeriesSteps
  <2>3. CatalogueInv /\ RowsInv /\ SeriesInv /\ CountInv /\ ~move.overwrite /\ [CatalogueNext]_vars
          => CountInv'
    BY CountSteps
  <2> QED BY <2>1, <2>2, <2>3, RowsAlways, NeverReplacing, PTL DEF CatalogueSpec
<1>2. CountInv => CountsAgree
  BY RestCounted DEF CountInv, CountsAgree
<1> QED BY <1>1, <1>2, PTL
=============================================================================
