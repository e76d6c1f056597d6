-------------------------- MODULE Catalogue_proofs --------------------------
(***************************************************************************)
(* What the requests on the catalogue keep, for any numbers of records,    *)
(* series, tags, requests and inputs.  Placing a selection in a series     *)
(* (SeriesService._place, _resolve) comes first: for lists of any length   *)
(* it neither loses nor repeats a video and keeps everyone in line.  Then  *)
(* what holds whatever they interleave with, contended or not: the types,  *)
(* that no series lists a video twice, that an assign stores the order     *)
(* asked for, and that an empty series is always about to be deleted.      *)
(* Then the rows and their files, as long as no two actors were at one     *)
(* video at once: what each request knows at each of its calls, and that a *)
(* migration keeps its ground meanwhile.  Last the series and the          *)
(* back-references of their videos: what each request has left to settle.  *)
(***************************************************************************)
EXTENDS Catalogue, FiniteSetTheorems, TLAPS

(* All the places of a list. *)
LEMMA PlacesWhole ==
  ASSUME NEW n \in Nat
  PROVE  IsFiniteSet(1..n) /\ Cardinality(1..n) = n
BY FS_Interval

(* Only an empty list has no members. *)
LEMMA EmptyElems ==
  ASSUME NEW X, NEW s \in Seq(X)
  PROVE  Elems(s) = {} <=> s = <<>>
<1>1. s # <<>> => 1 \in 1..Len(s)
  OBVIOUS
<1>2. s = <<>> => 1..Len(s) = {}
  OBVIOUS
<1> QED BY <1>1, <1>2 DEF Elems

(* Sets of places of a list. *)
LEMMA PlacesFinite ==
  ASSUME NEW n \in Nat, NEW S \in SUBSET (1..n)
  PROVE  /\ IsFiniteSet(S) /\ Cardinality(S) \in 0..n
         /\ \A T \in SUBSET S : IsFiniteSet(T) /\ Cardinality(T) \in 0..Cardinality(S)
<1>1. IsFiniteSet(1..n) /\ Cardinality(1..n) = n
  BY FS_Interval
<1>2. IsFiniteSet(S) /\ Cardinality(S) <= n
  BY <1>1, FS_Subset
<1>3. Cardinality(S) \in Nat
  BY <1>2, FS_CardinalityType
<1>4. ASSUME NEW T \in SUBSET S
      PROVE  IsFiniteSet(T) /\ Cardinality(T) \in 0..Cardinality(S)
  <2>1. IsFiniteSet(T) /\ Cardinality(T) <= Cardinality(S)
    BY <1>2, FS_Subset
  <2>2. Cardinality(T) \in Nat
    BY <2>1, FS_CardinalityType
  <2> QED BY <1>3, <2>1, <2>2
<1> QED BY <1>2, <1>3, <1>4

(* Ranks number the members of a set from 1 on, in order. *)
LEMMA RankRange ==
  ASSUME NEW n \in Nat, NEW S \in SUBSET (1..n), NEW i \in S
  PROVE  Rank(S, i) \in 1..Cardinality(S)
<1> DEFINE T == {j \in S : j <= i}
<1>1. /\ T \in SUBSET S /\ IsFiniteSet(T) /\ Cardinality(S) \in Nat
      /\ Cardinality(T) \in 0..Cardinality(S)
  BY PlacesFinite
<1>2. i \in T
  OBVIOUS
<1>3. Cardinality(T) # 0
  BY <1>1, <1>2, FS_EmptySet
<1> QED BY <1>1, <1>3 DEF Rank

LEMMA RankGrows ==
  ASSUME NEW n \in Nat, NEW S \in SUBSET (1..n), NEW i \in S, NEW j \in S, i < j
  PROVE  Rank(S, i) < Rank(S, j)
<1> DEFINE T == {k \in S : k <= i}  U == {k \in S : k <= j}
<1>1. /\ T \in SUBSET U /\ j \in U /\ j \notin T
  <2>1. \A k \in S : k \in Nat
    OBVIOUS
  <2>2. i \in Nat /\ j \in Nat
    BY <2>1
  <2>3. ASSUME NEW k \in S, k <= i PROVE k <= j
    <3>1. k \in Nat
      BY <2>1
    <3> QED BY <2>2, <2>3, <3>1
  <2>4. j <= j /\ ~(j <= i)
    BY <2>2
  <2> QED BY <2>3, <2>4
<1>2. U \in SUBSET S
  OBVIOUS
<1>3. IsFiniteSet(U) /\ Cardinality(U) \in Nat
  BY <1>2, PlacesFinite, FS_CardinalityType
<1> HIDE DEF T, U
<1>4. /\ Cardinality(T) <= Cardinality(U) /\ IsFiniteSet(T)
      /\ Cardinality(U) = Cardinality(T) => U = T
  BY <1>1, <1>3, FS_Subset
<1>5. Cardinality(T) \in Nat
  BY <1>4, FS_CardinalityType
<1>6. Cardinality(T) < Cardinality(U)
  BY <1>1, <1>3, <1>4, <1>5
<1> QED BY <1>6 DEF Rank, T, U

LEMMA RankInjective ==
  ASSUME NEW n \in Nat, NEW S \in SUBSET (1..n), NEW i \in S, NEW j \in S,
         Rank(S, i) = Rank(S, j)
  PROVE  i = j
<1>1. i \in Nat /\ j \in Nat
  OBVIOUS
<1>2. Rank(S, i) \in Nat /\ Rank(S, j) \in Nat
  <2>1. Rank(S, i) \in 1..Cardinality(S) /\ Rank(S, j) \in 1..Cardinality(S)
    BY RankRange
  <2>2. Cardinality(S) \in Nat
    BY PlacesFinite
  <2> QED BY <2>1, <2>2
<1>3. ~(i < j)
  <2>1. i < j => Rank(S, i) < Rank(S, j)
    BY RankGrows
  <2> QED BY <1>2, <2>1
<1>4. ~(j < i)
  <2>1. j < i => Rank(S, j) < Rank(S, i)
    BY RankGrows
  <2> QED BY <1>2, <2>1
<1> QED BY <1>1, <1>3, <1>4

(* Every number up to the size of the set is the rank of a member. *)
LEMMA NthThere ==
  ASSUME NEW n \in Nat, NEW S \in SUBSET (1..n), NEW k \in 1..Cardinality(S)
  PROVE  Nth(S, k) \in S /\ Rank(S, Nth(S, k)) = k
<1> DEFINE m == Cardinality(S)  f == [i \in S |-> Rank(S, i)]
<1>1. IsFiniteSet(S) /\ m \in Nat
  BY PlacesFinite
<1>2. IsFiniteSet(1..m) /\ Cardinality(1..m) = m
  BY <1>1, FS_Interval
<1>3. f \in [S -> 1..m]
  BY RankRange
<1>4. \A i, j \in S : f[i] = f[j] => i = j
  BY RankInjective
<1> HIDE DEF f, m
<1>5. f \in Injection(S, 1..m)
  BY <1>3, <1>4 DEF Injection, IsInjective
<1>6. Cardinality(S) = Cardinality(1..m)
  BY <1>2 DEF m
<1>7. f \in Surjection(S, 1..m)
  BY <1>2, <1>5, <1>6, FS_Injection
<1>8. PICK i \in S : f[i] = k
  BY <1>7 DEF Surjection, m
<1>9. \E j \in S : Rank(S, j) = k
  BY <1>8 DEF f
<1> QED BY <1>9 DEF Nth

(* What stands at some places of a list is a list of its own, as long as   *)
(* there are places, and repeats nothing the places do not.                *)
LEMMA AtPlacesLists ==
  ASSUME NEW X, NEW s \in Seq(X), NEW P \in SUBSET (1..Len(s))
  PROVE  /\ AtPlaces(s, P) \in Seq(X) /\ Len(AtPlaces(s, P)) = Cardinality(P)
         /\ (\A i, j \in P : s[i] = s[j] => i = j) => IsInjectiveSeq(AtPlaces(s, P))
         /\ Elems(AtPlaces(s, P)) = {s[i] : i \in P}
<1> DEFINE m == Cardinality(P)  a == AtPlaces(s, P)
<1>1. Len(s) \in Nat /\ m \in Nat
  BY PlacesFinite
<1>2. \A k \in 1..m : Nth(P, k) \in P /\ Rank(P, Nth(P, k)) = k
  BY <1>1, NthThere
<1>3. \A i \in P : Rank(P, i) \in 1..m
  BY <1>1, RankRange
<1>4. \A i \in P : Nth(P, Rank(P, i)) = i
  BY <1>1, <1>2, <1>3, RankInjective
<1>5. \A i \in P : s[i] \in X
  OBVIOUS
<1>6. a = [k \in 1..m |-> s[Nth(P, k)]]
  BY DEF AtPlaces
<1> HIDE DEF a, m
<1>7. a \in Seq(X) /\ Len(a) = m
  <2>1. \A k \in 1..m : s[Nth(P, k)] \in X
    BY <1>2, <1>5
  <2>2. a \in [1..m -> X]
    BY <1>6, <2>1
  <2> QED BY <1>1, <2>2
<1>8. ASSUME \A i, j \in P : s[i] = s[j] => i = j PROVE IsInjectiveSeq(a)
  <2>1. ASSUME NEW k \in 1..m, NEW l \in 1..m, a[k] = a[l] PROVE k = l
    <3>1. s[Nth(P, k)] = s[Nth(P, l)]
      BY <1>6, <2>1
    <3>2. Nth(P, k) = Nth(P, l)
      BY <1>2, <1>8, <3>1
    <3> QED BY <1>2, <3>2
  <2> QED BY <1>7, <2>1 DEF IsInjectiveSeq
<1>9. Elems(a) = {s[i] : i \in P}
  <2>1. \A k \in 1..m : a[k] = s[Nth(P, k)]
    BY <1>6
  <2>2. ASSUME NEW x \in Elems(a) PROVE x \in {s[i] : i \in P}
    BY <1>2, <1>7, <2>1, <2>2 DEF Elems
  <2>3. ASSUME NEW i \in P PROVE s[i] \in Elems(a)
    <3>1. Rank(P, i) \in 1..m /\ a[Rank(P, i)] = s[i]
      BY <1>3, <1>4, <2>1
    <3> QED BY <1>7, <3>1 DEF Elems
  <2> QED BY <2>2, <2>3
<1> QED BY <1>7, <1>8, <1>9 DEF a, m

(* Taking videos out of a list keeps the others, once each. *)
LEMMA OnlyLists ==
  ASSUME NEW X, NEW s \in Seq(X), NEW C
  PROVE  /\ Only(s, C) \in Seq(X)
         /\ IsInjectiveSeq(s) => IsInjectiveSeq(Only(s, C))
         /\ Elems(Only(s, C)) = Elems(s) \cap C
<1> DEFINE P == Occupied(s, C)
<1>1. P \in SUBSET (1..Len(s))
  BY DEF Occupied
<1>2. {s[i] : i \in P} = Elems(s) \cap C
  BY DEF Occupied, Elems
<1>3. IsInjectiveSeq(s) => \A i, j \in P : s[i] = s[j] => i = j
  BY <1>1 DEF IsInjectiveSeq
<1> HIDE DEF P
<1> QED BY <1>1, <1>2, <1>3, AtPlacesLists DEF Only, P

(* Taking nobody out of a list leaves it as it is. *)
LEMMA OnlyWhole ==
  ASSUME NEW X, NEW s \in Seq(X), NEW C, Elems(s) \subseteq C
  PROVE  Only(s, C) = s
<1> DEFINE n == Len(s)
<1>1. n \in Nat /\ Cardinality(1..n) = n /\ Occupied(s, C) = 1..n
  BY PlacesWhole DEF Occupied, Elems
<1>2. ASSUME NEW k \in 1..n PROVE Rank(1..n, k) = k
  <2>1. {j \in 1..n : j <= k} = 1..k /\ k \in Nat
    BY <1>1
  <2> QED BY <2>1, PlacesWhole DEF Rank
<1>3. ASSUME NEW k \in 1..n PROVE Nth(1..n, k) = k
  BY <1>1, <1>2, NthThere
<1>4. Only(s, C) = [k \in 1..n |-> s[k]]
  BY <1>1, <1>3 DEF Only, AtPlaces
<1> QED BY <1>4

(* _resolve names every video once, whatever it was asked for. *)
LEMMA ResolvedLists ==
  ASSUME NEW X, NEW s \in Seq(X), NEW C
  PROVE  Resolved(s, C) \in Seq(X) /\ IsInjectiveSeq(Resolved(s, C))
<1> DEFINE P == {i \in Occupied(s, C) : \A j \in 1..(i - 1) : s[j] # s[i]}
<1>1. P \in SUBSET (1..Len(s)) /\ Len(s) \in Nat
  BY DEF Occupied
<1>2. ASSUME NEW i \in P, NEW j \in P, s[i] = s[j] PROVE i = j
  <2>1. i \in Nat \ {0} /\ j \in Nat \ {0}
    BY <1>1
  <2>2. ~(i < j)
    <3>1. i < j => i \in 1..(j - 1)
      BY <2>1
    <3> QED BY <1>2, <3>1
  <2>3. ~(j < i)
    <3>1. j < i => j \in 1..(i - 1)
      BY <2>1
    <3> QED BY <1>2, <3>1
  <2> QED BY <2>1, <2>2, <2>3
<1> HIDE DEF P
<1>3. AtPlaces(s, P) \in Seq(X) /\ IsInjectiveSeq(AtPlaces(s, P))
  BY <1>1, <1>2, AtPlacesLists
<1> QED BY <1>3 DEF Resolved, P

(* _resolve drops repeats, and nobody who is there. *)
LEMMA ResolvedNames ==
  ASSUME NEW X, NEW s \in Seq(X), NEW C
  PROVE  Elems(Resolved(s, C)) = Elems(s) \cap C
<1> DEFINE P == {i \in Occupied(s, C) : \A j \in 1..(i - 1) : s[j] # s[i]}
<1>1. P \in SUBSET (1..Len(s)) /\ Len(s) \in Nat
  BY DEF Occupied
<1>2. {s[i] : i \in P} \subseteq Elems(s) \cap C
  BY DEF Occupied, Elems
<1>3. ASSUME NEW x \in Elems(s) \cap C PROVE x \in {s[i] : i \in P}
  <2> DEFINE S == {i \in 1..Len(s) : s[i] = x}  k == Nth(S, 1)
  <2>1. S \in SUBSET (1..Len(s)) /\ S # {}
    BY DEF Elems
  <2>2. IsFiniteSet(S) /\ Cardinality(S) \in Nat
    BY <1>1, <2>1, PlacesFinite
  <2>3. Cardinality(S) # 0
    BY <2>1, <2>2, FS_EmptySet
  <2>4. 1 \in 1..Cardinality(S)
    BY <2>2, <2>3
  <2>5. k \in S /\ Rank(S, k) = 1
    BY <1>1, <2>1, <2>4, NthThere
  <2>6. ASSUME NEW j \in S PROVE ~(j < k)
    <3>1. Rank(S, j) \in 1..Cardinality(S)
      BY <1>1, <2>1, RankRange
    <3>2. j < k => Rank(S, j) < 1
      BY <1>1, <2>1, <2>5, RankGrows
    <3> QED BY <2>2, <3>1, <3>2
  <2>7. k \in 1..Len(s) /\ s[k] = x
    BY <2>5
  <2>8. \A j \in 1..(k - 1) : j \in 1..Len(s) /\ j < k
    BY <1>1, <2>7
  <2>9. \A j \in 1..(k - 1) : s[j] # s[k]
    BY <2>6, <2>7, <2>8
  <2> HIDE DEF S, k
  <2> QED BY <2>7, <2>9 DEF Occupied
<1> HIDE DEF P
<1>4. Elems(AtPlaces(s, P)) = {s[i] : i \in P}
  BY <1>1, AtPlacesLists
<1> QED BY <1>2, <1>3, <1>4 DEF Resolved, P

(* The members of a list free of repeats, counted. *)
LEMMA ElemsCounted ==
  ASSUME NEW X, NEW s \in Seq(X), IsInjectiveSeq(s)
  PROVE  IsFiniteSet(Elems(s)) /\ Cardinality(Elems(s)) = Len(s)
<1> DEFINE n == Len(s)  f == [i \in 1..n |-> s[i]]
<1>1. n \in Nat /\ IsFiniteSet(1..n) /\ Cardinality(1..n) = n
  <2>1. n \in Nat
    OBVIOUS
  <2> QED BY <2>1, PlacesWhole
<1>2. f \in Surjection(1..n, Elems(s)) /\ f \in Injection(1..n, Elems(s))
  BY DEF Surjection, Injection, IsInjective, Elems, IsInjectiveSeq
<1> QED BY <1>1, <1>2, FS_Surjection

(* The places divide up: as many slots as videos selected, as many other   *)
(* places as members left over.                                            *)
LEMMA PlacesDivide ==
  ASSUME NEW X, NEW members \in Seq(X), NEW selection \in Seq(X),
         IsInjectiveSeq(members), IsInjectiveSeq(selection)
  PROVE  LET n == PlacedLen(members, selection)
             slots == Slots(members, selection)
             left == Leftover(members, Elems(selection))
             free == (1..n) \ slots
         IN  /\ n \in Nat /\ Len(members) <= n /\ left \in SUBSET (1..Len(members))
             /\ slots \in SUBSET (1..n) /\ Cardinality(slots) = Len(selection)
             /\ free \in SUBSET (1..n) /\ Cardinality(free) = Cardinality(left)
<1> DEFINE M == Len(members)  L == Len(selection)
           occ == Occupied(members, Elems(selection))
           left == Leftover(members, Elems(selection))
           n == PlacedLen(members, selection)
           joined == (M + 1)..n
           slots == Slots(members, selection)
           free == (1..n) \ slots
<1>1. M \in Nat /\ L \in Nat /\ IsFiniteSet(1..M) /\ Cardinality(1..M) = M
  <2>1. M \in Nat /\ L \in Nat
    OBVIOUS
  <2> QED BY <2>1, PlacesWhole
<1>2. occ \in SUBSET (1..M) /\ left \in SUBSET (1..M) /\ left = (1..M) \ occ
  BY DEF Occupied, Leftover
<1>3. slots = occ \cup joined /\ n = Cardinality(left) + L
  BY DEF Slots, PlacedLen
<1>4. occ \cap joined = {}
  <2>1. \A i \in occ : i \in Nat /\ i <= M
    BY <1>1, <1>2
  <2>2. \A i \in joined : ~(i <= M)
    BY <1>1
  <2> QED BY <2>1, <2>2
<1>5. Cardinality(occ) <= L
  <2>1. IsFiniteSet(Elems(selection)) /\ Cardinality(Elems(selection)) = L
    BY ElemsCounted
  <2> DEFINE f == [i \in occ |-> members[i]]
  <2>2. \A i \in occ : members[i] \in Elems(selection)
    BY DEF Occupied
  <2>3. \A i, j \in occ : members[i] = members[j] => i = j
    BY <1>2 DEF IsInjectiveSeq
  <2>4. f \in Injection(occ, Elems(selection))
    BY <2>2, <2>3 DEF Injection, IsInjective
  <2> QED BY <2>1, <2>4, FS_Injection
<1> HIDE DEF occ, left, slots, n, M, L
<1>6. IsFiniteSet(occ) /\ Cardinality(occ) \in Nat
  BY <1>1, <1>2, PlacesFinite
<1>7. IsFiniteSet(left) /\ Cardinality(left) \in Nat
  BY <1>1, <1>2, PlacesFinite
<1>8. Cardinality(left) = M - Cardinality(occ)
  <2>1. (1..M) \cap occ = occ
    BY <1>2
  <2>2. Cardinality((1..M) \ occ) = Cardinality(1..M) - Cardinality((1..M) \cap occ)
    BY <1>1, FS_Difference
  <2> QED BY <1>1, <1>2, <2>1, <2>2
<1>9. n \in Nat /\ M <= n
  BY <1>1, <1>3, <1>5, <1>6, <1>7, <1>8
<1>10. IsFiniteSet(joined) /\ Cardinality(joined) = n - M
  <2>1. IsFiniteSet(joined) /\ Cardinality(joined) = IF M + 1 > n THEN 0 ELSE n - (M + 1) + 1
    BY <1>1, <1>9, FS_Interval
  <2> QED BY <1>1, <1>9, <2>1
<1>11. Cardinality(slots) = L
  <2>1. Cardinality(slots) = Cardinality(occ) + Cardinality(joined) - Cardinality(occ \cap joined)
    BY <1>3, <1>6, <1>10, FS_Union
  <2>2. Cardinality(occ \cap joined) = 0
    BY <1>4, FS_EmptySet
  <2> QED BY <1>1, <1>3, <1>6, <1>7, <1>8, <1>10, <2>1, <2>2
<1>12. slots \in SUBSET (1..n)
  <2>1. \A i \in occ : i \in 1..n
    BY <1>1, <1>2, <1>9
  <2>2. \A i \in joined : i \in 1..n
    BY <1>1, <1>9
  <2> QED BY <1>3, <2>1, <2>2
<1>13. Cardinality(free) = Cardinality(left)
  <2>1. IsFiniteSet(1..n) /\ Cardinality(1..n) = n
    BY <1>9, FS_Interval
  <2>2. (1..n) \cap slots = slots
    BY <1>12
  <2>3. Cardinality((1..n) \ slots) = Cardinality(1..n) - Cardinality((1..n) \cap slots)
    BY <2>1, FS_Difference
  <2>4. Cardinality(free) = n - L
    BY <1>11, <2>1, <2>2, <2>3
  <2> QED BY <1>1, <1>3, <1>7, <2>4
<1> QED BY <1>2, <1>9, <1>11, <1>12, <1>13 DEF n, slots, left, M, L

(* What stands in each place: a slot takes the one selected of its rank,    *)
(* any other place the member left over of its rank.                       *)
SlotsTake(members, selection) ==
  LET slots == Slots(members, selection)
  IN  \A i \in slots : /\ Rank(slots, i) \in 1..Len(selection)
                       /\ Place(members, selection)[i] = selection[Rank(slots, i)]

OthersTake(members, selection) ==
  LET left == Leftover(members, Elems(selection))
      free == (1..PlacedLen(members, selection)) \ Slots(members, selection)
  IN  \A i \in free :
        /\ Rank(free, i) \in 1..Cardinality(left)
        /\ Nth(left, Rank(free, i)) \in left
        /\ Rank(left, Nth(left, Rank(free, i))) = Rank(free, i)
        /\ Place(members, selection)[i] = members[Nth(left, Rank(free, i))]

LEMMA PlaceTakes ==
  ASSUME NEW X, NEW members \in Seq(X), NEW selection \in Seq(X),
         IsInjectiveSeq(members), IsInjectiveSeq(selection)
  PROVE  SlotsTake(members, selection) /\ OthersTake(members, selection)
<1> DEFINE n == PlacedLen(members, selection)
           slots == Slots(members, selection)
           left == Leftover(members, Elems(selection))
           free == (1..n) \ slots
           placed == Place(members, selection)
<1>0. Len(members) \in Nat
  OBVIOUS
<1>1. /\ n \in Nat /\ left \in SUBSET (1..Len(members))
      /\ slots \in SUBSET (1..n) /\ Cardinality(slots) = Len(selection)
      /\ free \in SUBSET (1..n) /\ Cardinality(free) = Cardinality(left)
  BY PlacesDivide
<1>2. placed = [i \in 1..n |-> IF i \in slots THEN selection[Rank(slots, i)]
                               ELSE members[Nth(left, Rank(free, i))]]
  BY DEF Place
<1> HIDE DEF n, slots, left, placed
<1>3. \A i \in slots : Rank(slots, i) \in 1..Len(selection) /\ placed[i] = selection[Rank(slots, i)]
  BY <1>1, <1>2, RankRange
<1>4. \A i \in free : /\ Rank(free, i) \in 1..Cardinality(left)
                      /\ Nth(left, Rank(free, i)) \in left
                      /\ Rank(left, Nth(left, Rank(free, i))) = Rank(free, i)
                      /\ placed[i] = members[Nth(left, Rank(free, i))]
  <2> TAKE i \in free
  <2>1. i \in 1..n /\ Rank(free, i) \in 1..Cardinality(left)
    BY <1>1, RankRange
  <2>2. Nth(left, Rank(free, i)) \in left /\ Rank(left, Nth(left, Rank(free, i))) = Rank(free, i)
    BY <1>0, <1>1, <2>1, NthThere
  <2> QED BY <1>2, <2>1, <2>2
<1> QED BY <1>3, <1>4 DEF SlotsTake, OthersTake, n, slots, left, placed

(* What _place returns: every member and everything selected, once each. *)
LEMMA PlaceLists ==
  ASSUME NEW X, NEW members \in Seq(X), NEW selection \in Seq(X),
         IsInjectiveSeq(members), IsInjectiveSeq(selection)
  PROVE  LET placed == Place(members, selection)
         IN  /\ placed \in Seq(X) /\ IsInjectiveSeq(placed)
             /\ Elems(placed) = Elems(members) \cup Elems(selection)
             /\ selection # <<>> => placed # <<>>
<1> DEFINE n == PlacedLen(members, selection)
           slots == Slots(members, selection)
           left == Leftover(members, Elems(selection))
           free == (1..n) \ slots
           placed == Place(members, selection)
           L == Len(selection)
           c == Cardinality(left)
<1>0. /\ \A i \in slots : /\ Rank(slots, i) \in 1..L
                          /\ placed[i] = selection[Rank(slots, i)]
      /\ \A i \in free : /\ Rank(free, i) \in 1..c
                         /\ Nth(left, Rank(free, i)) \in left
                         /\ Rank(left, Nth(left, Rank(free, i))) = Rank(free, i)
                         /\ placed[i] = members[Nth(left, Rank(free, i))]
  <2>1. SlotsTake(members, selection) /\ OthersTake(members, selection)
    BY PlaceTakes
  <2> QED BY <2>1 DEF SlotsTake, OthersTake
<1>1. /\ n \in Nat /\ left \in SUBSET (1..Len(members))
      /\ slots \in SUBSET (1..n) /\ Cardinality(slots) = L
      /\ free \in SUBSET (1..n) /\ Cardinality(free) = c
  BY PlacesDivide
<1>2. placed = [i \in 1..n |-> IF i \in slots THEN selection[Rank(slots, i)]
                               ELSE members[Nth(left, Rank(free, i))]]
  BY DEF Place
<1>3. L \in Nat /\ Len(members) \in Nat /\ selection \in [1..L -> X]
  OBVIOUS
<1>4. \A i \in left : members[i] \in X /\ members[i] \notin Elems(selection)
  BY <1>3 DEF Leftover, Occupied
<1>5. \A i \in 1..Len(members) : i \notin left => members[i] \in Elems(selection)
  BY DEF Leftover, Occupied
<1>6. \A k \in 1..L : selection[k] \in Elems(selection)
  BY DEF Elems
<1>7. n = c + L
  BY DEF PlacedLen
<1>8. c \in Nat
  BY <1>1, <1>3, PlacesFinite
<1> HIDE DEF n, slots, left, placed, L, c
<1>9. \A i \in slots : i \in 1..n /\ Rank(slots, i) \in 1..L /\ placed[i] = selection[Rank(slots, i)]
  BY <1>0, <1>1
<1>10. \A i \in free : /\ i \in 1..n /\ Rank(free, i) \in 1..c
                       /\ Nth(left, Rank(free, i)) \in left
                       /\ Rank(left, Nth(left, Rank(free, i))) = Rank(free, i)
                       /\ placed[i] = members[Nth(left, Rank(free, i))]
  BY <1>0, <1>1
<1>11. \A i \in 1..n : placed[i] \in X
  <2>1. \A i \in slots : placed[i] \in X
    BY <1>3, <1>9
  <2>2. \A i \in free : placed[i] \in X
    BY <1>4, <1>10
  <2> QED BY <2>1, <2>2
<1>12. placed \in Seq(X) /\ Len(placed) = n
  <2>1. placed \in [1..n -> X]
    BY <1>2, <1>11
  <2> QED BY <1>1, <2>1
<1>13. ASSUME NEW i \in 1..n, NEW j \in 1..n, placed[i] = placed[j] PROVE i = j
  <2>1. CASE i \in slots /\ j \in slots
    <3>1. selection[Rank(slots, i)] = selection[Rank(slots, j)]
      BY <1>9, <1>13, <2>1
    <3>2. Rank(slots, i) = Rank(slots, j)
      BY <1>9, <2>1, <3>1 DEF IsInjectiveSeq, L
    <3> QED BY <1>1, <2>1, <3>2, RankInjective
  <2>2. CASE i \in free /\ j \in free
    <3> DEFINE a == Nth(left, Rank(free, i))  b == Nth(left, Rank(free, j))
    <3>1. /\ members[a] = members[b] /\ a \in 1..Len(members) /\ b \in 1..Len(members)
          /\ Rank(left, a) = Rank(free, i) /\ Rank(left, b) = Rank(free, j)
      BY <1>1, <1>10, <1>13, <2>2
    <3> HIDE DEF a, b
    <3>2. a = b
      BY <3>1 DEF IsInjectiveSeq
    <3>3. Rank(free, i) = Rank(free, j)
      BY <3>1, <3>2
    <3> QED BY <1>1, <2>2, <3>3, RankInjective
  <2>3. CASE i \in slots /\ j \in free
    BY <1>4, <1>6, <1>9, <1>10, <1>13, <2>3
  <2>4. CASE i \in free /\ j \in slots
    BY <1>4, <1>6, <1>9, <1>10, <1>13, <2>4
  <2> QED BY <2>1, <2>2, <2>3, <2>4
<1>14. \A x \in Elems(placed) : x \in Elems(members) \cup Elems(selection)
  <2> TAKE x \in Elems(placed)
  <2>1. PICK i \in 1..n : x = placed[i]
    BY <1>12 DEF Elems
  <2>2. CASE i \in slots
    BY <1>6, <1>9, <2>1, <2>2
  <2>3. CASE i \in free
    <3>1. Nth(left, Rank(free, i)) \in 1..Len(members)
      BY <1>1, <1>10, <2>3
    <3> QED BY <1>10, <2>1, <2>3, <3>1 DEF Elems
  <2> QED BY <2>2, <2>3
<1>15. \A x \in Elems(selection) : x \in Elems(placed)
  <2> TAKE x \in Elems(selection)
  <2>1. PICK k \in 1..L : x = selection[k]
    BY DEF Elems, L
  <2>2. Nth(slots, k) \in slots /\ Rank(slots, Nth(slots, k)) = k
    BY <1>1, <2>1, NthThere
  <2>3. Nth(slots, k) \in 1..n /\ placed[Nth(slots, k)] = x
    BY <1>9, <2>1, <2>2
  <2> QED BY <1>12, <2>3 DEF Elems
<1>16. \A x \in Elems(members) : x \in Elems(placed)
  <2> TAKE x \in Elems(members)
  <2>1. PICK a \in 1..Len(members) : x = members[a]
    BY DEF Elems
  <2>2. CASE a \notin left
    BY <1>5, <1>15, <2>1, <2>2
  <2>3. CASE a \in left
    <3>1. Rank(left, a) \in 1..c
      BY <1>1, <1>3, <2>3, RankRange DEF c
    <3> DEFINE i == Nth(free, Rank(left, a))
    <3>2. i \in free /\ Rank(free, i) = Rank(left, a)
      BY <1>1, <3>1, NthThere
    <3> HIDE DEF i
    <3>3. Nth(left, Rank(free, i)) = a
      <4>1. Nth(left, Rank(free, i)) \in left /\ Rank(left, Nth(left, Rank(free, i))) = Rank(left, a)
        BY <1>10, <3>2
      <4> QED BY <1>1, <1>3, <2>3, <4>1, RankInjective
    <3>4. i \in 1..n /\ placed[i] = x
      BY <1>10, <2>1, <3>2, <3>3
    <3> QED BY <1>12, <3>4 DEF Elems
  <2> QED BY <2>2, <2>3
<1>17. selection # <<>> => placed # <<>>
  <2>1. selection # <<>> => L # 0
    BY DEF L
  <2> QED BY <1>3, <1>7, <1>8, <1>12, <2>1
<1> QED BY <1>12, <1>13, <1>14, <1>15, <1>16, <1>17 DEF IsInjectiveSeq, placed

(* A place comes before another exactly if its rank does. *)
LEMMA RankOrders ==
  ASSUME NEW n \in Nat, NEW S \in SUBSET (1..n), NEW i \in S, NEW j \in S
  PROVE  i < j <=> Rank(S, i) < Rank(S, j)
<1>1. /\ i \in Nat /\ j \in Nat /\ Cardinality(S) \in Nat
      /\ Rank(S, i) \in 1..Cardinality(S) /\ Rank(S, j) \in 1..Cardinality(S)
  <2>1. i \in Nat /\ j \in Nat
    OBVIOUS
  <2>2. Cardinality(S) \in Nat
    BY PlacesFinite
  <2> QED BY <2>1, <2>2, RankRange
<1>2. i < j => Rank(S, i) < Rank(S, j)
  BY RankGrows
<1>3. j < i => Rank(S, j) < Rank(S, i)
  BY RankGrows
<1> QED BY <1>1, <1>2, <1>3

(* _place keeps everyone in line: the selection stands as it was asked     *)
(* for, the others as they stood, and who was selected is where the        *)
(* selected were.                                                          *)
LEMMA PlaceInLine ==
  ASSUME NEW X, NEW members \in Seq(X), NEW selection \in Seq(X),
         IsInjectiveSeq(members), IsInjectiveSeq(selection)
  PROVE  LET placed == Place(members, selection)
             chosen == Elems(selection)
             kept == Elems(members) \ chosen
         IN  /\ \A x, y \in chosen : Before(placed, x, y) <=> Before(selection, x, y)
             /\ \A x, y \in kept : Before(placed, x, y) <=> Before(members, x, y)
             /\ \A k \in 1..Len(members) : members[k] \in chosen <=> placed[k] \in chosen
<1> DEFINE n == PlacedLen(members, selection)
           slots == Slots(members, selection)
           left == Leftover(members, Elems(selection))
           free == (1..n) \ slots
           placed == Place(members, selection)
           chosen == Elems(selection)
           kept == Elems(members) \ chosen
           L == Len(selection)
           M == Len(members)
           c == Cardinality(left)
           origin == [i \in free |-> Nth(left, Rank(free, i))]
<1>0. M \in Nat /\ L \in Nat
  OBVIOUS
<1>1. /\ n \in Nat /\ M <= n /\ left \in SUBSET (1..M)
      /\ slots \in SUBSET (1..n) /\ Cardinality(slots) = L
      /\ free \in SUBSET (1..n) /\ Cardinality(free) = c
  BY PlacesDivide
<1>2. placed = [i \in 1..n |-> IF i \in slots THEN selection[Rank(slots, i)]
                               ELSE members[Nth(left, Rank(free, i))]]
  BY DEF Place
<1>3. Len(placed) = n
  BY <1>1, <1>2
<1>4. /\ \A k \in 1..L : selection[k] \in chosen
      /\ \A i \in left : members[i] \notin chosen
      /\ \A i \in (1..M) \ left : members[i] \in chosen
  BY DEF Elems, Leftover, Occupied
<1>11. /\ \A i \in slots : /\ Rank(slots, i) \in 1..L
                          /\ placed[i] = selection[Rank(slots, i)]
      /\ \A i \in free : /\ Rank(free, i) \in 1..c
                         /\ Nth(left, Rank(free, i)) \in left
                         /\ Rank(left, Nth(left, Rank(free, i))) = Rank(free, i)
                         /\ placed[i] = members[Nth(left, Rank(free, i))]
  <2>1. SlotsTake(members, selection) /\ OthersTake(members, selection)
    BY PlaceTakes
  <2> QED BY <2>1 DEF SlotsTake, OthersTake
<1>5. \A i \in 1..M : i \in slots <=> i \notin left
  <2> TAKE i \in 1..M
  <2>1. i \notin (M + 1)..n
    BY <1>0, <1>1
  <2> QED BY <2>1 DEF Slots, Leftover
<1>6. \A i \in slots : /\ Rank(slots, i) \in 1..L /\ placed[i] = selection[Rank(slots, i)]
                       /\ placed[i] \in chosen
  BY <1>4, <1>11
<1>7. \A i \in free : /\ Rank(free, i) \in 1..c /\ origin[i] \in left
                      /\ Rank(left, origin[i]) = Rank(free, i)
                      /\ placed[i] = members[origin[i]] /\ placed[i] \notin chosen
  BY <1>4, <1>11
<1> HIDE DEF n, slots, left, placed, L, M, c, origin, chosen
<1>8. ASSUME NEW x \in chosen, NEW y \in chosen
      PROVE  Before(placed, x, y) <=> Before(selection, x, y)
  <2>1. ASSUME Before(placed, x, y) PROVE Before(selection, x, y)
    <3>1. PICK i \in 1..n, j \in 1..n : i < j /\ placed[i] = x /\ placed[j] = y
      BY <1>3, <2>1 DEF Before
    <3>2. i \in slots /\ j \in slots
      BY <1>7, <3>1
    <3>3. Rank(slots, i) < Rank(slots, j)
      BY <1>1, <3>1, <3>2, RankOrders
    <3> QED BY <1>6, <3>1, <3>2, <3>3 DEF Before, L
  <2>2. ASSUME Before(selection, x, y) PROVE Before(placed, x, y)
    <3>1. PICK a \in 1..L, b \in 1..L : a < b /\ selection[a] = x /\ selection[b] = y
      BY <2>2 DEF Before, L
    <3> DEFINE i == Nth(slots, a)  j == Nth(slots, b)
    <3>2. i \in slots /\ j \in slots /\ Rank(slots, i) = a /\ Rank(slots, j) = b
      BY <1>1, NthThere
    <3> HIDE DEF i, j
    <3>3. i < j
      BY <1>1, <3>1, <3>2, RankOrders
    <3>4. i \in 1..n /\ j \in 1..n /\ placed[i] = x /\ placed[j] = y
      BY <1>1, <1>6, <3>1, <3>2
    <3> QED BY <1>3, <3>3, <3>4 DEF Before
  <2> QED BY <2>1, <2>2
<1>9. ASSUME NEW x \in kept, NEW y \in kept
      PROVE  Before(placed, x, y) <=> Before(members, x, y)
  <2>1. ASSUME Before(placed, x, y) PROVE Before(members, x, y)
    <3>1. PICK i \in 1..n, j \in 1..n : i < j /\ placed[i] = x /\ placed[j] = y
      BY <1>3, <2>1 DEF Before
    <3>2. i \in free /\ j \in free
      BY <1>6, <3>1
    <3>3. Rank(free, i) < Rank(free, j)
      BY <1>1, <3>1, <3>2, RankOrders
    <3>4. Rank(left, origin[i]) < Rank(left, origin[j])
      BY <1>7, <3>2, <3>3
    <3>5. origin[i] < origin[j] /\ origin[i] \in 1..M /\ origin[j] \in 1..M
      BY <1>0, <1>1, <1>7, <3>2, <3>4, RankOrders
    <3>6. members[origin[i]] = x /\ members[origin[j]] = y
      BY <1>7, <3>1, <3>2
    <3> QED BY <3>5, <3>6 DEF Before, M
  <2>2. ASSUME Before(members, x, y) PROVE Before(placed, x, y)
    <3>1. PICK a \in 1..M, b \in 1..M : a < b /\ members[a] = x /\ members[b] = y
      BY <2>2 DEF Before, M
    <3>2. a \in left /\ b \in left
      BY <1>4, <3>1
    <3>3. Rank(left, a) \in 1..c /\ Rank(left, b) \in 1..c /\ Rank(left, a) < Rank(left, b)
      BY <1>0, <1>1, <3>1, <3>2, RankRange, RankOrders DEF c
    <3> DEFINE i == Nth(free, Rank(left, a))  j == Nth(free, Rank(left, b))
    <3>4. i \in free /\ j \in free /\ Rank(free, i) = Rank(left, a) /\ Rank(free, j) = Rank(left, b)
      BY <1>1, <3>3, NthThere
    <3> HIDE DEF i, j
    <3>5. i < j
      BY <1>1, <3>3, <3>4, RankOrders
    <3>6. origin[i] = a /\ origin[j] = b
      <4>1. /\ origin[i] \in left /\ Rank(left, origin[i]) = Rank(left, a)
            /\ origin[j] \in left /\ Rank(left, origin[j]) = Rank(left, b)
        BY <1>7, <3>4
      <4> QED BY <1>0, <1>1, <3>2, <4>1, RankInjective
    <3>7. i \in 1..n /\ j \in 1..n /\ placed[i] = x /\ placed[j] = y
      BY <1>1, <1>7, <3>1, <3>4, <3>6
    <3> QED BY <1>3, <3>5, <3>7 DEF Before
  <2> QED BY <2>1, <2>2
<1>10. ASSUME NEW k \in 1..M
       PROVE  members[k] \in chosen <=> placed[k] \in chosen
  <2>1. k \in 1..n
    BY <1>0, <1>1
  <2>2. members[k] \in chosen <=> k \in slots
    BY <1>4, <1>5
  <2> QED BY <1>6, <1>7, <2>1, <2>2
<1> QED BY <1>8, <1>9, <1>10 DEF placed, chosen, M

-----------------------------------------------------------------------------
(* The requests on the catalogue. *)

Calls == {"new", "done", "save", "count", "prune", "unlink", "bulk", "resolve", "target",
          "place", "affected", "pull", "sweep", "refer", "lock", "others", "foreign",
          "locks", "find", "read", "remove", "recheck", "insert"}
Query == [pc : Calls, in : Input \cup {None}, seen : [Ids -> Rec], delta : [Tags -> Int],
          order : Seq(Ids), back : [Ids -> Series \cup {None}], target : Series \cup {None},
          members : Seq(Ids), placed : Seq(Ids), ids : SUBSET Ids, refs : SUBSET Ids,
          affected : SUBSET Series, found : SUBSET Paths, held : SUBSET Paths]

(* The requests that end by saving the one record they have read. *)
OneRecord == {"view", "thumbnail", "duration", "edit"}

(* What an assign stores is the selection put into the members it read.    *)
Planned(q) ==
  /\ q.placed # <<>>
  /\ IsInjectiveSeq(q.members) /\ q.placed = Place(q.members, q.order)

(* A request's copies: lists free of repeats, something to store, and the  *)
(* record to save.                                                         *)
QueryOK(q) ==
  /\ q \in Query
  /\ IsInjectiveSeq(q.order) /\ IsInjectiveSeq(q.placed)
  /\ q.pc = "place" => Planned(q)
  /\ q.pc \notin {"new", "done"} =>
       q.in \in Input /\ (q.in.op \in OneRecord => q.in.id \in Seen(q))
  /\ q.pc = "save" => q.in.op \in OneRecord

(* At work. *)
AtWork(q) == QueryOK(q) /\ q.in \in Input /\ q.pc \notin {"new", "done"}

(* A request goes on, and has read no more records than before. *)
GoesOn(q, p) == QueryOK(p) /\ Seen(p) \subseteq Seen(q)

RequestsOK ==
  /\ req \in [Requests -> Query]
  /\ \A r \in Requests : QueryOK(req[r]) /\ Seen(req[r]) \cap fresh = {}

MoveOK == move \in [phase : {"none", "copying", "copied", "moved", "finished", "failed"},
                    id : Ids \cup {None}, src : Paths \cup {None}, tgt : Paths \cup {None},
                    overwrite : BOOLEAN]
MoveSet == move.phase # "none" => move.src \in Paths /\ move.tgt \in Paths

(* What a step on the data keeps. *)
DataOK ==
  /\ doc \in [Ids -> Rec]
  /\ fresh \subseteq Ids /\ \A i \in fresh : doc[i] = NoRec
  /\ alive \subseteq Series /\ unborn \subseteq Series \ alive
  /\ list \in [Series -> Seq(Ids)] /\ ListsVideosOnce
  /\ count \in [Tags -> Int \cup {None}]
  /\ files \subseteq Paths

-----------------------------------------------------------------------------
(* The copies of a request. *)

LEMMA NoRecTyped == NoRec \in Rec /\ \A i \in Ids : Unread[i] = NoRec
BY DEF NoRec, Rec, Unread

LEMMA EmptyListOK == <<>> \in Seq(Ids) /\ IsInjectiveSeq(<<>>)
BY DEF IsInjectiveSeq

LEMMA FreshOK == QueryOK(Fresh) /\ Seen(Fresh) = {} /\ QueryOK(Done) /\ Seen(Done) = {}
<1>1. /\ Unread \in [Ids -> Rec] /\ NoChange \in [Tags -> Int]
      /\ [i \in Ids |-> None] \in [Ids -> Series \cup {None}]
  BY DEF Unread, NoRec, Rec, NoChange
<1>2. Fresh \in Query
  <2> DEFINE back == [i \in Ids |-> None]
  <2> HIDE DEF back
  <2>1. Fresh = [pc |-> "new", in |-> None, seen |-> Unread, delta |-> NoChange,
                 order |-> <<>>, back |-> back, target |-> None, members |-> <<>>,
                 placed |-> <<>>, ids |-> {}, refs |-> {}, affected |-> {}, found |-> {},
                 held |-> {}]
    BY DEF Fresh, back
  <2>2. back \in [Ids -> Series \cup {None}]
    BY <1>1 DEF back
  <2> QED BY <1>1, <2>1, <2>2, EmptyListOK DEF Query, Calls
<1>3. Fresh.pc = "new" /\ Fresh.order = <<>> /\ Fresh.placed = <<>> /\ Fresh.seen = Unread
  BY DEF Fresh
<1>4. Done \in Query
  BY <1>2 DEF Done, Query, Calls
<1>5. Done.pc = "done" /\ Done.order = <<>> /\ Done.placed = <<>> /\ Done.seen = Unread
  BY DEF Fresh, Done
<1>6. Seen(Fresh) = {} /\ Seen(Done) = {}
  BY <1>3, <1>5 DEF Seen, Unread, NoRec
<1> QED BY <1>2, <1>3, <1>4, <1>5, <1>6, EmptyListOK DEF QueryOK

(* Only pc moves. *)
LEMMA PcMoves ==
  ASSUME NEW q, AtWork(q), NEW c \in Calls \ {"new", "done"}, c # "place",
         c = "save" => q.in.op = "edit"
  PROVE  LET p == [q EXCEPT !.pc = c]
         IN  GoesOn(q, p) /\ AtWork(p) /\ p.seen = q.seen /\ p.in = q.in
<1> DEFINE p == [q EXCEPT !.pc = c]
<1>1. p \in Query
  BY DEF AtWork, QueryOK, Query
<1>2. p.pc = c /\ p.in = q.in /\ p.order = q.order /\ p.placed = q.placed /\ p.seen = q.seen
  BY DEF AtWork, QueryOK, Query
<1> HIDE DEF p
<1>3. Seen(p) = Seen(q)
  BY <1>2 DEF Seen
<1> QED BY <1>1, <1>2, <1>3 DEF QueryOK, GoesOn, AtWork, OneRecord, p

LEMMA GoesOnTrans ==
  ASSUME NEW q, NEW p, NEW o, GoesOn(q, p), GoesOn(p, o)
  PROVE  GoesOn(q, o)
BY DEF GoesOn

LEMMA Ends == ASSUME NEW q PROVE GoesOn(q, Done)
BY FreshOK DEF GoesOn

LEMMA AfterCountOK ==
  ASSUME NEW q, AtWork(q)
  PROVE  GoesOn(q, AfterCount(q)) /\ GoesOn(q, ToCount(q)) /\ GoesOn(q, ToBulk(q))
<1>0. GoesOn(q, Done)
  BY Ends
<1>1. GoesOn(q, AfterCount(q))
  <2>1. GoesOn(q, [q EXCEPT !.pc = "unlink"])
    BY PcMoves DEF Calls
  <2> QED BY <1>0, <2>1 DEF AfterCount
<1>2. GoesOn(q, ToCount(q))
  <2>1. GoesOn(q, [q EXCEPT !.pc = "count"])
    BY PcMoves DEF Calls
  <2> QED BY <1>1, <2>1 DEF ToCount
<1>3. GoesOn(q, ToBulk(q))
  <2>1. GoesOn(q, [q EXCEPT !.pc = "bulk"])
    BY PcMoves DEF Calls
  <2> QED BY <1>0, <2>1 DEF ToBulk
<1> QED BY <1>1, <1>2, <1>3

LEMMA AfterSeriesOK ==
  ASSUME NEW q, AtWork(q)
  PROVE  GoesOn(q, AfterSeries(q))
<1>1. ASSUME q.in.op = "edit" PROVE GoesOn(q, AfterSeries(q))
  <2> DEFINE d == [q.seen EXCEPT ![q.in.id].series = q.target]
             p == [q EXCEPT !.pc = "save", !.seen[q.in.id].series = q.target]
  <2>1. AfterSeries(q) = p
    BY <1>1 DEF AfterSeries
  <2>2. q.in.id \in Ids /\ q.target \in Series \cup {None} /\ q.seen \in [Ids -> Rec]
    BY DEF AtWork, Input, Question, QueryOK, Query
  <2>3. d \in [Ids -> Rec] /\ \A i \in Ids : d[i].path = q.seen[i].path
    BY <2>2 DEF Rec
  <2>4. p = [[q EXCEPT !.pc = "save"] EXCEPT !.seen = d]
    BY DEF AtWork, QueryOK, Query
  <2>5. p \in Query
    BY <2>3, <2>4 DEF AtWork, QueryOK, Query, Calls
  <2>6. /\ p.pc = "save" /\ p.in = q.in /\ p.order = q.order /\ p.placed = q.placed
        /\ p.seen = d
    BY <2>4 DEF AtWork, QueryOK, Query
  <2> HIDE DEF p, d
  <2>7. Seen(p) = Seen(q)
    BY <2>3, <2>6 DEF Seen
  <2> QED BY <1>1, <2>1, <2>5, <2>6, <2>7 DEF AtWork, QueryOK, GoesOn, OneRecord
<1>2. ASSUME q.in.op # "edit" PROVE GoesOn(q, AfterSeries(q))
  BY <1>2, AfterCountOK DEF AfterSeries
<1> QED BY <1>1, <1>2

LEMMA ToPullOK ==
  ASSUME NEW q, AtWork(q)
  PROVE  GoesOn(q, AfterPull(q)) /\ GoesOn(q, ToPull(q))
<1>1. GoesOn(q, AfterPull(q))
  <2>1. GoesOn(q, [q EXCEPT !.pc = "refer"])
    BY PcMoves DEF Calls
  <2>2. GoesOn(q, AfterSeries(q))
    BY AfterSeriesOK
  <2> QED BY <2>1, <2>2 DEF AfterPull
<1>2. GoesOn(q, ToPull(q))
  <2>1. GoesOn(q, [q EXCEPT !.pc = "affected"])
    BY PcMoves DEF Calls
  <2> QED BY <1>1, <2>1 DEF ToPull
<1> QED BY <1>1, <1>2

(* A request on the series with its copies of one kind changed. *)
LEMMA ToJoinOK ==
  ASSUME NEW q, AtWork(q), NEW s \in Series \cup {None}
  PROVE  GoesOn(q, ToJoin(q, s))
<1> DEFINE J == Joining(q, s)  p == [q EXCEPT !.target = s, !.ids = J, !.refs = J]
<1>1. J \subseteq Ids
  BY DEF Joining, Elems, AtWork, QueryOK, Query
<1>2. p \in Query
  BY <1>1 DEF AtWork, QueryOK, Query
<1>3. /\ p.pc = q.pc /\ p.in = q.in /\ p.seen = q.seen
      /\ p.order = q.order /\ p.members = q.members /\ p.placed = q.placed
  BY DEF AtWork, QueryOK, Query
<1>4. ToJoin(q, s) = ToPull(p)
  BY DEF ToJoin
<1> HIDE DEF p
<1>5. GoesOn(q, p) /\ AtWork(p)
  BY <1>2, <1>3 DEF AtWork, QueryOK, Planned, GoesOn, Seen
<1>6. GoesOn(p, ToPull(p))
  BY <1>5, ToPullOK
<1> QED BY <1>4, <1>5, <1>6, GoesOnTrans

LEMMA ToSeriesOK ==
  ASSUME NEW q, AtWork(q)
  PROVE  GoesOn(q, ToSeries(q))
<1>1. GoesOn(q, [q EXCEPT !.pc = "others"])
  BY PcMoves DEF Calls
<1>2. GoesOn(q, [q EXCEPT !.pc = "resolve"])
  BY PcMoves DEF Calls
<1>3. ASSUME q.in.op = "edit" PROVE GoesOn(q, [q EXCEPT !.pc = "save"])
  BY <1>3, PcMoves DEF Calls
<1>4. GoesOn(q, ToBulk(q))
  BY AfterCountOK
<1>5. \/ ToSeries(q) = [q EXCEPT !.pc = "others"] \/ ToSeries(q) = [q EXCEPT !.pc = "resolve"]
      \/ q.in.op = "edit" /\ ToSeries(q) = [q EXCEPT !.pc = "save"]
      \/ ToSeries(q) = ToBulk(q)
  BY DEF ToSeries
<1> QED BY <1>1, <1>2, <1>3, <1>4, <1>5

-----------------------------------------------------------------------------
(* Steps of a request. *)

Kept == DataOK /\ RequestsOK /\ EmptySeriesIsSwept

LEMMA FreshUnused ==
  ASSUME DataOK, NEW i \in fresh
  PROVE  i \in Ids /\ doc[i] = NoRec /\ doc[i].path = None /\ ~Exists(i)
<1>1. i \in Ids /\ doc[i] = NoRec
  BY DEF DataOK
<1>2. NoRec.path = None
  BY DEF NoRec
<1> QED BY <1>1, <1>2 DEF Exists

LEMMA GoKeeps ==
  ASSUME RequestsOK, NEW r \in Requests, NEW p, Go(r, p), QueryOK(p),
         Seen(p) \cap fresh = {}, fresh' \subseteq fresh
  PROVE  RequestsOK'
<1>1. req' \in [Requests -> Query] /\ req' = [req EXCEPT ![r] = p]
  BY DEF RequestsOK, Go, QueryOK
<1>2. ASSUME NEW u \in Requests PROVE QueryOK(req'[u]) /\ Seen(req'[u]) \cap fresh' = {}
  <2>1. CASE u = r
    BY <1>1, <2>1 DEF RequestsOK
  <2>2. CASE u # r
    <3>1. req'[u] = req[u]
      BY <1>1, <2>2 DEF RequestsOK
    <3> QED BY <3>1 DEF RequestsOK
  <2> QED BY <2>1, <2>2
<1> QED BY <1>1, <1>2 DEF RequestsOK, QueryOK, Seen

(* A step that leaves the lists alone, and is not the sweep. *)
LEMMA SweptKeeps ==
  ASSUME RequestsOK, EmptySeriesIsSwept, NEW r \in Requests, NEW p, Go(r, p),
         req[r].pc # "sweep", list' = list, alive' \subseteq alive
  PROVE  EmptySeriesIsSwept'
<1> SUFFICES ASSUME NEW s \in alive', list'[s] = <<>>
             PROVE  \E u \in Requests : req'[u].pc = "sweep" /\ s \in req'[u].affected
  BY DEF EmptySeriesIsSwept
<1>1. PICK u \in Requests : req[u].pc = "sweep" /\ s \in req[u].affected
  BY DEF EmptySeriesIsSwept
<1>2. req'[u] = req[u]
  BY <1>1 DEF Go, RequestsOK
<1> QED BY <1>1, <1>2

LEMMA DataSame == ASSUME DataOK, UNCHANGED dataVars PROVE DataOK'
BY DEF DataOK, dataVars, seriesVars, ListsVideosOnce

LEMMA ReadKeeps ==
  ASSUME Kept, NEW r \in Requests, NEW p, Go(r, p), UNCHANGED dataVars,
         req[r].pc # "sweep", QueryOK(p), Seen(p) \cap fresh = {}
  PROVE  Kept'
<1>1. fresh' = fresh /\ alive' = alive /\ list' = list
  BY DEF dataVars, seriesVars
<1>2. RequestsOK'
  BY <1>1, GoKeeps DEF Kept
<1>3. EmptySeriesIsSwept'
  BY <1>1, SweptKeeps DEF Kept
<1> QED BY <1>2, <1>3, DataSame DEF Kept

(* A request that goes on reads on. *)
LEMMA ReadOnKeeps ==
  ASSUME Kept, NEW r \in Requests, NEW p, Go(r, p), UNCHANGED dataVars,
         req[r].pc # "sweep", GoesOn(req[r], p)
  PROVE  Kept'
<1>1. QueryOK(p) /\ Seen(p) \cap fresh = {}
  BY DEF Kept, RequestsOK, GoesOn
<1> QED BY <1>1, ReadKeeps

LEMMA Working ==
  ASSUME RequestsOK, NEW r \in Requests, req[r].pc \notin {"new", "done"}
  PROVE  AtWork(req[r]) /\ Seen(req[r]) \cap fresh = {}
BY DEF RequestsOK, QueryOK, AtWork

(* What a request reads are copies of records that are there. *)
LEMMA ReadOK ==
  ASSUME DataOK
  PROVE  /\ \A ids : ReadIds(ids) \in [Ids -> Rec] /\ \A i \in fresh : ReadIds(ids)[i].path = None
         /\ \A paths : /\ ReadPaths(paths) \in [Ids -> Rec]
                       /\ \A i \in fresh : ReadPaths(paths)[i].path = None
<1>1. doc \in [Ids -> Rec] /\ fresh \subseteq Ids /\ \A i \in fresh : doc[i].path = None
  BY DEF DataOK, NoRec
<1>2. NoRec \in Rec /\ NoRec.path = None
  BY DEF NoRec, Rec
<1>3. ASSUME NEW ids
      PROVE  ReadIds(ids) \in [Ids -> Rec] /\ \A i \in fresh : ReadIds(ids)[i].path = None
  BY <1>1, <1>2 DEF ReadIds
<1>4. ASSUME NEW paths
      PROVE  ReadPaths(paths) \in [Ids -> Rec] /\ \A i \in fresh : ReadPaths(paths)[i].path = None
  BY <1>1, <1>2 DEF ReadPaths
<1> QED BY <1>3, <1>4

(* The first call of a request. *)
LEMMA AskKeeps ==
  ASSUME Kept, NEW r \in Requests, NEW op, NEW p \in Query, Asks(r, op, p),
         p.order = <<>>, p.placed = <<>>, p.pc # "place",
         \A i \in fresh : p.seen[i].path = None,
         op \in OneRecord => p.seen[p.in.id].path # None,
         p.pc = "save" => op \in OneRecord
  PROVE  Kept'
<1>1. p.in \in Input /\ p.in.id \in Ids
  BY CatalogueAssumption DEF Asks, Input, Question
<1>2. p.in.op = op /\ Go(r, p) /\ UNCHANGED dataVars /\ req[r].pc = "new"
  BY DEF Asks
<1>3. Seen(p) \cap fresh = {} /\ (op \in OneRecord => p.in.id \in Seen(p))
  BY <1>1 DEF Seen
<1>4. QueryOK(p)
  BY <1>1, <1>2, <1>3, EmptyListOK DEF QueryOK
<1> QED BY <1>2, <1>3, <1>4, ReadKeeps

LEMMA FreshFields ==
  Fresh \in Query /\ Fresh.order = <<>> /\ Fresh.placed = <<>> /\ Fresh.seen = Unread
BY FreshOK DEF QueryOK, Fresh

(* A record is read to be saved, edited or deleted: by the _id asked for. *)
LEMMA AskOneKeeps ==
  ASSUME Kept, NEW r \in Requests, NEW op, NEW in \in Inputs, NEW c \in Calls, c # "place",
         c = "save" => op \in OneRecord, Exists(in.id),
         Asks(r, op, [Fresh EXCEPT !.pc = c, !.in = in, !.seen = ReadIds({in.id})])
  PROVE  Kept'
<1> DEFINE d == ReadIds({in.id})  p == [Fresh EXCEPT !.pc = c, !.in = in, !.seen = d]
<1>1. d \in [Ids -> Rec] /\ \A i \in fresh : d[i].path = None
  BY ReadOK DEF Kept
<1>2. in.id \in Ids /\ d[in.id].path # None
  BY CatalogueAssumption DEF Input, Question, ReadIds, Exists
<1> HIDE DEF d
<1>3. p \in Query /\ p.pc = c /\ p.in = in /\ p.order = <<>> /\ p.placed = <<>> /\ p.seen = d
  BY <1>1, FreshFields, CatalogueAssumption DEF Query
<1>4. Asks(r, op, p)
  BY DEF d
<1> HIDE DEF p
<1> QED BY <1>1, <1>2, <1>3, <1>4, AskKeeps

LEMMA AskingKeeps ==
  ASSUME Kept, NEW r \in Requests, Asking(r)
  PROVE  Kept'
<1>1. ASSUME NEW in \in Inputs, NEW op \in {"view", "thumbnail", "duration"}, ReadToSave(r, in, op)
      PROVE  Kept'
  BY <1>1, AskOneKeeps DEF ReadToSave, Calls, OneRecord
<1>2. CASE EditVideo(r)
  BY <1>2, AskOneKeeps DEF EditVideo, Calls, OneRecord
<1>3. CASE DeleteVideo(r)
  BY <1>3, AskOneKeeps DEF DeleteVideo, Calls
<1>4. CASE AskBatch(r)
  <2>1. PICK in \in Inputs, op \in {"batch update", "batch delete"} :
          Asks(r, op, [Fresh EXCEPT !.pc = "lock", !.in = in, !.seen = ReadIds(Elems(in.ids))])
    BY <1>4 DEF AskBatch
  <2> DEFINE d == ReadIds(Elems(in.ids))
             p == [Fresh EXCEPT !.pc = "lock", !.in = in, !.seen = d]
  <2>2. d \in [Ids -> Rec] /\ \A i \in fresh : d[i].path = None
    BY ReadOK DEF Kept
  <2>3. Asks(r, op, p)
    BY <2>1
  <2> HIDE DEF d
  <2>4. p \in Query /\ p.pc = "lock" /\ p.order = <<>> /\ p.placed = <<>> /\ p.seen = d
    BY <2>2, FreshFields, CatalogueAssumption DEF Query, Calls
  <2> HIDE DEF p
  <2> QED BY <2>2, <2>3, <2>4, AskKeeps DEF OneRecord
<1>5. CASE WalkDirectory(r)
  <2>1. PICK in \in Inputs, op \in {"directory update", "directory delete", "list"} :
          Asks(r, op, [Fresh EXCEPT !.pc = IF op = "list" THEN "locks" ELSE "find",
                         !.in = in, !.found = files \cap Dir])
    BY <1>5 DEF WalkDirectory
  <2> DEFINE c == IF op = "list" THEN "locks" ELSE "find"  paths == files \cap Dir
             p == [Fresh EXCEPT !.pc = c, !.in = in, !.found = paths]
  <2>2. Asks(r, op, p) /\ c \in Calls /\ c # "place" /\ c # "save"
    BY <2>1 DEF Calls
  <2>3. paths \in SUBSET Paths
    BY DEF Kept, DataOK
  <2> HIDE DEF c, paths
  <2>4. p \in Query /\ p.pc = c /\ p.order = <<>> /\ p.placed = <<>> /\ p.seen = Unread
    BY <2>2, <2>3, FreshFields, CatalogueAssumption DEF Query
  <2>5. \A i \in fresh : Unread[i].path = None
    BY DEF Unread, NoRec, Kept, DataOK
  <2> HIDE DEF p
  <2> QED BY <2>2, <2>4, <2>5, AskKeeps DEF OneRecord
<1>6. RecordView(r) \/ GetThumbnail(r) \/ EnsureDuration(r) => 
        \E in \in Inputs, op \in {"view", "thumbnail", "duration"} : ReadToSave(r, in, op)
  BY DEF RecordView, GetThumbnail, EnsureDuration
<1> QED BY <1>1, <1>2, <1>3, <1>4, <1>5, <1>6 DEF Asking

-----------------------------------------------------------------------------
(* The series. *)

LEMMA Changed ==
  ASSUME NEW q, NEW p \in Query, AtWork(q), p.in = q.in, p.seen = q.seen,
         p.pc \notin {"new", "done"}, p.pc = "save" => q.in.op \in OneRecord,
         IsInjectiveSeq(p.order), IsInjectiveSeq(p.placed),
         p.pc = "place" => Planned(p)
  PROVE  GoesOn(q, p) /\ AtWork(p)
BY DEF AtWork, QueryOK, GoesOn, Seen

LEMMA ResolveKeeps ==
  ASSUME Kept, NEW r \in Requests, Resolve(r)
  PROVE  Kept'
<1> DEFINE q == req[r]
           named == IF q.in.op = "edit" /\ q.in.series = "clear" THEN {q.in.id}
                    ELSE Elems(q.in.ids)
           there == {i \in named : Exists(i)}
           back == [i \in Ids |-> doc[i].series]
           refs == {i \in there : doc[i].series # None}
           known == [q EXCEPT !.back = back]
           order == Resolved(q.in.ids, there)
           asked == [known EXCEPT !.pc = "target", !.order = order]
           pulls == [known EXCEPT !.ids = there, !.refs = refs]
<1>1. /\ q.pc = "resolve" /\ UNCHANGED dataVars
      /\ Go(r, IF q.in.series = "assign" THEN asked ELSE ToPull(pulls))
  BY DEF Resolve
<1>2. AtWork(q) /\ q \in Query /\ IsInjectiveSeq(q.order) /\ IsInjectiveSeq(q.placed)
  BY <1>1, Working DEF Kept, AtWork, QueryOK
<1>3. q.in.id \in Ids /\ q.in.ids \in Seq(Ids)
  BY <1>2 DEF AtWork, Input, Question
<1>4. there \in SUBSET Ids /\ refs \in SUBSET Ids
  BY <1>3 DEF Elems
<1>5. back \in [Ids -> Series \cup {None}]
  BY DEF Kept, DataOK, Rec
<1>6. order \in Seq(Ids) /\ IsInjectiveSeq(order)
  BY <1>3, ResolvedLists
<1> HIDE DEF q, there, back, refs, order
<1>7. known \in Query /\ known.pc = q.pc /\ known.in = q.in /\ known.seen = q.seen
      /\ known.order = q.order /\ known.placed = q.placed
  BY <1>2, <1>5 DEF Query
<1> HIDE DEF known
<1>8. asked \in Query /\ asked.pc = "target" /\ asked.in = q.in /\ asked.seen = q.seen
      /\ asked.order = order /\ asked.placed = q.placed
  BY <1>6, <1>7 DEF Query, Calls
<1>9. pulls \in Query /\ pulls.pc = q.pc /\ pulls.in = q.in /\ pulls.seen = q.seen
      /\ pulls.order = q.order /\ pulls.placed = q.placed
  BY <1>4, <1>7 DEF Query
<1> HIDE DEF asked, pulls
<1>10. GoesOn(q, asked)
  BY <1>2, <1>6, <1>8, Changed
<1>11. GoesOn(q, ToPull(pulls))
  <2>1. GoesOn(q, pulls) /\ AtWork(pulls)
    BY <1>1, <1>2, <1>9, Changed
  <2> QED BY <2>1, ToPullOK, GoesOnTrans
<1> QED BY <1>1, <1>10, <1>11, ReadOnKeeps DEF q

LEMMA FindTargetKeeps ==
  ASSUME Kept, NEW r \in Requests, FindTarget(r)
  PROVE  Kept'
<1> DEFINE q == req[r]
           target == IF Named(q.in.name) = {} THEN None
                     ELSE CHOOSE s \in Named(q.in.name) : TRUE
           members == IF target = None THEN <<>> ELSE list[target]
           placed == Place(members, q.order)
           settled == [q EXCEPT !.target = target]
           stored == [q EXCEPT !.pc = "place", !.target = target, !.members = members,
                               !.placed = placed]
<1>1. /\ q.pc = "target" /\ UNCHANGED dataVars
      /\ \/ Go(r, AfterSeries(settled))
         \/ q.order # <<>> /\ Go(r, stored)
         \/ Go(r, ToJoin(q, target))
  BY DEF FindTarget
<1>2. AtWork(q) /\ q \in Query /\ IsInjectiveSeq(q.order) /\ IsInjectiveSeq(q.placed)
      /\ q.order \in Seq(Ids)
  BY <1>1, Working DEF Kept, AtWork, QueryOK, Query
<1>3. target \in Series \cup {None}
  BY DEF Named, Kept, DataOK
<1>4. members \in Seq(Ids) /\ IsInjectiveSeq(members)
  BY <1>3, EmptyListOK DEF Kept, DataOK, ListsVideosOnce
<1> HIDE DEF q, target, members
<1>5. placed \in Seq(Ids) /\ IsInjectiveSeq(placed) /\ (q.order # <<>> => placed # <<>>)
  BY <1>2, <1>4, PlaceLists
<1>6. placed = Place(members, q.order)
  OBVIOUS
<1> HIDE DEF placed
<1>7. settled \in Query /\ settled.pc = q.pc /\ settled.in = q.in /\ settled.seen = q.seen
      /\ settled.order = q.order /\ settled.placed = q.placed
  BY <1>2, <1>3 DEF Query
<1>8. stored \in Query /\ stored.pc = "place" /\ stored.in = q.in /\ stored.seen = q.seen
      /\ stored.order = q.order /\ stored.members = members /\ stored.placed = placed
  BY <1>2, <1>3, <1>4, <1>5 DEF Query, Calls
<1> HIDE DEF settled, stored
<1>9. GoesOn(q, AfterSeries(settled))
  <2>1. GoesOn(q, settled) /\ AtWork(settled)
    BY <1>1, <1>2, <1>7, Changed
  <2> QED BY <2>1, AfterSeriesOK, GoesOnTrans
<1>10. ASSUME q.order # <<>> PROVE GoesOn(q, stored)
  <2>1. Planned(stored)
    BY <1>4, <1>5, <1>6, <1>8, <1>10 DEF Planned
  <2> QED BY <1>2, <1>5, <1>8, <2>1, Changed
<1>11. GoesOn(q, ToJoin(q, target))
  BY <1>2, <1>3, ToJoinOK
<1>12. PICK p : Go(r, p) /\ GoesOn(q, p)
  BY <1>1, <1>9, <1>10, <1>11
<1> QED BY <1>1, <1>12, ReadOnKeeps DEF q

LEMMA InsertSeriesKeeps ==
  ASSUME Kept, NEW r \in Requests, InsertSeries(r)
  PROVE  Kept'
<1> DEFINE q == req[r]
<1>1. /\ q.pc = "place" /\ UNCHANGED <<doc, fresh, count, files>>
      /\ \/ Finish(r) /\ UNCHANGED seriesVars
         \/ \E s \in unborn : /\ alive' = alive \cup {s} /\ unborn' = unborn \ {s}
                              /\ list' = [list EXCEPT ![s] = q.placed]
                              /\ Go(r, ToJoin(q, s))
  BY DEF InsertSeries
<1>2. AtWork(q) /\ q \in Query /\ q.placed \in Seq(Ids) /\ IsInjectiveSeq(q.placed)
      /\ q.placed # <<>>
  BY <1>1, Working DEF Kept, AtWork, QueryOK, Query, Planned
<1>3. ASSUME Finish(r), UNCHANGED seriesVars PROVE Kept'
  BY <1>1, <1>3, Ends, ReadOnKeeps DEF Finish, dataVars, seriesVars
<1>4. ASSUME NEW s \in unborn, alive' = alive \cup {s}, unborn' = unborn \ {s},
             list' = [list EXCEPT ![s] = q.placed], Go(r, ToJoin(q, s))
      PROVE  Kept'
  <2>1. s \in Series /\ s \notin alive /\ list \in [Series -> Seq(Ids)]
    BY DEF Kept, DataOK
  <2>2. GoesOn(q, ToJoin(q, s))
    BY <1>2, <2>1, ToJoinOK
  <2> HIDE DEF q
  <2>3. /\ list' \in [Series -> Seq(Ids)] /\ list'[s] = q.placed
        /\ \A u \in Series \ {s} : list'[u] = list[u]
    BY <1>2, <1>4, <2>1
  <2>4. \A u \in Series : IsInjectiveSeq(list'[u])
    BY <1>2, <2>1, <2>3 DEF Kept, DataOK, ListsVideosOnce
  <2>5. DataOK'
    BY <1>1, <1>4, <2>1, <2>3, <2>4 DEF Kept, DataOK, ListsVideosOnce
  <2>6. RequestsOK'
    BY <1>1, <1>4, <2>2, GoKeeps DEF GoesOn, Kept, RequestsOK, q
  <2>7. EmptySeriesIsSwept'
    <3> SUFFICES ASSUME NEW u \in alive', list'[u] = <<>>
                 PROVE  \E v \in Requests : req'[v].pc = "sweep" /\ u \in req'[v].affected
      BY DEF EmptySeriesIsSwept
    <3>1. u # s /\ u \in alive /\ list[u] = <<>>
      BY <1>2, <1>4, <2>1, <2>3 DEF Kept, DataOK
    <3>2. PICK v \in Requests : req[v].pc = "sweep" /\ u \in req[v].affected
      BY <3>1 DEF Kept, EmptySeriesIsSwept
    <3>3. req'[v] = req[v]
      BY <1>1, <1>4, <3>2 DEF Go, Kept, RequestsOK, q
    <3> QED BY <3>2, <3>3
  <2> QED BY <2>5, <2>6, <2>7 DEF Kept
<1> QED BY <1>1, <1>3, <1>4

LEMMA SetMembersKeeps ==
  ASSUME Kept, NEW r \in Requests, SetMembers(r)
  PROVE  Kept'
<1> DEFINE q == req[r]
<1>1. /\ q.pc = "place" /\ UNCHANGED <<doc, fresh, alive, unborn, count, files>>
      /\ Go(r, ToJoin(q, q.target))
      /\ list' = IF q.target \in alive THEN [list EXCEPT ![q.target] = q.placed] ELSE list
  BY DEF SetMembers
<1>2. /\ AtWork(q) /\ q \in Query /\ q.placed \in Seq(Ids) /\ IsInjectiveSeq(q.placed)
      /\ q.placed # <<>> /\ q.target \in Series \cup {None}
  BY <1>1, Working DEF Kept, AtWork, QueryOK, Query, Planned
<1>3. list \in [Series -> Seq(Ids)] /\ alive \subseteq Series
  BY DEF Kept, DataOK
<1>4. GoesOn(q, ToJoin(q, q.target))
  BY <1>2, ToJoinOK
<1> HIDE DEF q
<1>5. /\ list' \in [Series -> Seq(Ids)]
      /\ \A u \in Series : list'[u] = list[u] \/ list'[u] = q.placed
  BY <1>1, <1>2, <1>3
<1>6. \A u \in Series : IsInjectiveSeq(list'[u])
  BY <1>2, <1>5 DEF Kept, DataOK, ListsVideosOnce
<1>7. DataOK'
  BY <1>1, <1>5, <1>6 DEF Kept, DataOK, ListsVideosOnce
<1>8. RequestsOK'
  BY <1>1, <1>4, GoKeeps DEF GoesOn, Kept, RequestsOK, q
<1>9. EmptySeriesIsSwept'
  <2> SUFFICES ASSUME NEW u \in alive', list'[u] = <<>>
               PROVE  \E v \in Requests : req'[v].pc = "sweep" /\ u \in req'[v].affected
    BY DEF EmptySeriesIsSwept
  <2>1. u \in alive /\ list[u] = <<>>
    BY <1>1, <1>2, <1>3, <1>5
  <2>2. PICK v \in Requests : req[v].pc = "sweep" /\ u \in req[v].affected
    BY <2>1 DEF Kept, EmptySeriesIsSwept
  <2>3. req'[v] = req[v]
    BY <1>1, <2>2 DEF Go, Kept, RequestsOK, q
  <2> QED BY <2>2, <2>3
<1> QED BY <1>7, <1>8, <1>9 DEF Kept

LEMMA FindAffectedKeeps ==
  ASSUME Kept, NEW r \in Requests, FindAffected(r)
  PROVE  Kept'
<1> DEFINE q == req[r]
           affected == {s \in alive \ {q.target} : Elems(list[s]) \cap q.ids # {}}
           p == [q EXCEPT !.pc = "pull", !.affected = affected]
<1>1. /\ q.pc = "affected" /\ UNCHANGED dataVars
      /\ Go(r, IF affected = {} THEN AfterPull(q) ELSE p)
  BY DEF FindAffected
<1>2. AtWork(q) /\ q \in Query /\ IsInjectiveSeq(q.order) /\ IsInjectiveSeq(q.placed)
  BY <1>1, Working DEF Kept, AtWork, QueryOK
<1>3. affected \in SUBSET Series
  BY DEF Kept, DataOK
<1> HIDE DEF q, affected
<1>4. p \in Query /\ p.pc = "pull" /\ p.in = q.in /\ p.seen = q.seen
      /\ p.order = q.order /\ p.placed = q.placed
  BY <1>2, <1>3 DEF Query, Calls
<1> HIDE DEF p
<1>5. GoesOn(q, p)
  BY <1>2, <1>4, Changed
<1>6. GoesOn(q, AfterPull(q))
  BY <1>2, ToPullOK
<1> QED BY <1>1, <1>5, <1>6, ReadOnKeeps DEF q

LEMMA PullIdsKeeps ==
  ASSUME Kept, NEW r \in Requests, PullIds(r)
  PROVE  Kept'
<1> DEFINE q == req[r]  p == [q EXCEPT !.pc = "sweep"]
<1>1. /\ q.pc = "pull" /\ Go(r, p) /\ UNCHANGED <<doc, fresh, alive, unborn, count, files>>
      /\ list' = [s \in Series |-> IF s \in q.affected THEN Only(list[s], Ids \ q.ids)
                                   ELSE list[s]]
  BY DEF PullIds
<1>2. AtWork(q) /\ q \in Query
  BY <1>1, Working DEF Kept, AtWork, QueryOK
<1>3. list \in [Series -> Seq(Ids)] /\ \A s \in Series : IsInjectiveSeq(list[s])
  BY DEF Kept, DataOK, ListsVideosOnce
<1>4. GoesOn(q, p)
  BY <1>2, PcMoves DEF Calls
<1>5. p.pc = "sweep" /\ p.affected = q.affected
  BY <1>2 DEF Query
<1> HIDE DEF q, p
<1>6. \A s \in Series : Only(list[s], Ids \ q.ids) \in Seq(Ids) /\ IsInjectiveSeq(Only(list[s], Ids \ q.ids))
  BY <1>3, OnlyLists
<1>7. list' \in [Series -> Seq(Ids)] /\ \A s \in Series : IsInjectiveSeq(list'[s])
  BY <1>1, <1>3, <1>6
<1>8. DataOK'
  BY <1>1, <1>7 DEF Kept, DataOK, ListsVideosOnce
<1>9. RequestsOK'
  BY <1>1, <1>4, GoKeeps DEF GoesOn, Kept, RequestsOK, q
<1>10. EmptySeriesIsSwept'
  <2> SUFFICES ASSUME NEW s \in alive', list'[s] = <<>>
               PROVE  \E v \in Requests : req'[v].pc = "sweep" /\ s \in req'[v].affected
    BY DEF EmptySeriesIsSwept
  <2>1. req'[r] = p
    BY <1>1 DEF Go, Kept, RequestsOK
  <2>2. CASE s \in q.affected
    BY <1>5, <2>1, <2>2
  <2>3. CASE s \notin q.affected
    <3>1. s \in alive /\ list[s] = <<>>
      BY <1>1, <2>3 DEF Kept, DataOK
    <3>2. PICK v \in Requests : req[v].pc = "sweep" /\ s \in req[v].affected
      BY <3>1 DEF Kept, EmptySeriesIsSwept
    <3>3. req'[v] = req[v]
      BY <1>1, <3>2 DEF Go, Kept, RequestsOK, q
    <3> QED BY <3>2, <3>3
  <2> QED BY <2>2, <2>3
<1> QED BY <1>8, <1>9, <1>10 DEF Kept

(* Whoever sweeps deletes what it may have emptied itself; what is empty   *)
(* still waits for another.                                                *)
LEMMA SweepSeriesKeeps ==
  ASSUME Kept, NEW r \in Requests, SweepSeries(r)
  PROVE  Kept'
<1> DEFINE q == req[r]
<1>1. /\ q.pc = "sweep" /\ UNCHANGED <<doc, fresh, unborn, list, count, files>>
      /\ alive' = alive \ {s \in q.affected : list[s] = <<>>}
      /\ Go(r, AfterPull(q))
  BY DEF SweepSeries
<1>2. AtWork(q)
  BY <1>1, Working DEF Kept
<1>3. GoesOn(q, AfterPull(q))
  BY <1>2, ToPullOK
<1> HIDE DEF q
<1>4. DataOK'
  BY <1>1 DEF Kept, DataOK, ListsVideosOnce
<1>5. RequestsOK'
  BY <1>1, <1>3, GoKeeps DEF GoesOn, Kept, RequestsOK, q
<1>6. EmptySeriesIsSwept'
  <2> SUFFICES ASSUME NEW s \in alive', list'[s] = <<>>
               PROVE  \E v \in Requests : req'[v].pc = "sweep" /\ s \in req'[v].affected
    BY DEF EmptySeriesIsSwept
  <2>1. s \in alive /\ list[s] = <<>> /\ s \notin q.affected
    BY <1>1
  <2>2. PICK v \in Requests : req[v].pc = "sweep" /\ s \in req[v].affected
    BY <2>1 DEF Kept, EmptySeriesIsSwept
  <2>3. req'[v] = req[v]
    BY <1>1, <2>1, <2>2 DEF Go, Kept, RequestsOK, q
  <2> QED BY <2>2, <2>3
<1> QED BY <1>4, <1>5, <1>6 DEF Kept

LEMMA ReferKeeps ==
  ASSUME Kept, NEW r \in Requests, Refer(r)
  PROVE  Kept'
<1> DEFINE q == req[r]
<1>1. /\ q.pc = "refer" /\ UNCHANGED <<fresh, seriesVars, count, files>>
      /\ Go(r, AfterSeries(q))
      /\ doc' = [i \in Ids |-> IF i \in q.refs /\ Exists(i)
                               THEN [doc[i] EXCEPT !.series = q.target] ELSE doc[i]]
  BY DEF Refer
<1>2. AtWork(q) /\ q.target \in Series \cup {None}
  BY <1>1, Working DEF Kept, AtWork, QueryOK, Query
<1>3. GoesOn(q, AfterSeries(q))
  BY <1>2, AfterSeriesOK
<1> HIDE DEF q
<1>4. \A i \in Ids : doc[i] \in Rec /\ [doc[i] EXCEPT !.series = q.target] \in Rec
  BY <1>2 DEF Kept, DataOK, Rec
<1>5. doc' \in [Ids -> Rec] /\ \A i \in fresh : doc'[i] = NoRec
  <2>1. doc' \in [Ids -> Rec]
    BY <1>1, <1>4
  <2>2. \A i \in fresh : i \in Ids /\ doc[i] = NoRec /\ ~Exists(i)
    BY FreshUnused DEF Kept
  <2> QED BY <1>1, <2>1, <2>2
<1>6. DataOK'
  BY <1>1, <1>5 DEF Kept, DataOK, ListsVideosOnce, seriesVars
<1>7. RequestsOK'
  BY <1>1, <1>3, GoKeeps DEF GoesOn, Kept, RequestsOK, q
<1>8. EmptySeriesIsSwept'
  BY <1>1, SweptKeeps DEF Kept, seriesVars, q
<1> QED BY <1>6, <1>7, <1>8 DEF Kept

-----------------------------------------------------------------------------
(* The records, the counters and the files. *)

LEMMA SideKeeps ==
  ASSUME Kept, NEW r \in Requests, NEW p, Go(r, p), GoesOn(req[r], p),
         req[r].pc # "sweep", UNCHANGED seriesVars, DataOK', fresh' \subseteq fresh
  PROVE  Kept'
<1>1. RequestsOK'
  BY GoKeeps DEF GoesOn, Kept, RequestsOK
<1>2. EmptySeriesIsSwept'
  BY SweptKeeps DEF Kept, seriesVars
<1> QED BY <1>1, <1>2 DEF Kept

LEMMA CountTagsKeeps ==
  ASSUME Kept, NEW r \in Requests, CountTags(r)
  PROVE  Kept'
<1> DEFINE q == req[r]  p == IF \E t \in Tags : q.delta[t] < 0 THEN [q EXCEPT !.pc = "prune"]
                             ELSE AfterCount(q)
<1>1. /\ q.pc = "count" /\ Go(r, p) /\ UNCHANGED <<doc, fresh, seriesVars, files>>
      /\ count' = [t \in Tags |->
                     IF q.delta[t] = 0 THEN count[t] ELSE Counted(count[t], q.delta[t])]
  BY DEF CountTags
<1>2. AtWork(q) /\ q.delta \in [Tags -> Int]
  BY <1>1, Working DEF Kept, AtWork, QueryOK, Query
<1>3. GoesOn(q, p)
  <2>1. GoesOn(q, [q EXCEPT !.pc = "prune"])
    BY <1>2, PcMoves DEF Calls
  <2> QED BY <1>2, <2>1, AfterCountOK
<1> HIDE DEF q, p
<1>4. \A c \in Int \cup {None}, n \in Int : Counted(c, n) \in Int \cup {None}
  BY DEF Counted
<1>5. count' \in [Tags -> Int \cup {None}]
  BY <1>1, <1>2, <1>4 DEF Kept, DataOK
<1>6. DataOK' /\ fresh' = fresh /\ UNCHANGED seriesVars
  BY <1>1, <1>5 DEF Kept, DataOK, ListsVideosOnce, seriesVars
<1> QED BY <1>1, <1>3, <1>6, SideKeeps DEF q

LEMMA PruneTagsKeeps ==
  ASSUME Kept, NEW r \in Requests, PruneTags(r)
  PROVE  Kept'
<1> DEFINE q == req[r]
<1>1. /\ q.pc = "prune" /\ Go(r, AfterCount(q)) /\ UNCHANGED <<doc, fresh, seriesVars, files>>
      /\ count' = [t \in Tags |-> IF count[t] # None /\ count[t] <= 0 THEN None ELSE count[t]]
  BY DEF PruneTags
<1>2. GoesOn(q, AfterCount(q))
  BY <1>1, Working, AfterCountOK DEF Kept
<1> HIDE DEF q
<1>3. count' \in [Tags -> Int \cup {None}]
  BY <1>1 DEF Kept, DataOK
<1>4. DataOK' /\ fresh' = fresh /\ UNCHANGED seriesVars
  BY <1>1, <1>3 DEF Kept, DataOK, ListsVideosOnce, seriesVars
<1> QED BY <1>1, <1>2, <1>4, SideKeeps DEF q

(* The record a request saves was read, so its _id has been given out. *)
LEMMA SaveKeeps ==
  ASSUME Kept, NEW r \in Requests, Save(r)
  PROVE  Kept'
<1> DEFINE q == req[r]  i == q.in.id
           p == IF q.delta = NoChange THEN Done ELSE [q EXCEPT !.pc = "count"]
<1>1. /\ q.pc = "save" /\ UNCHANGED <<fresh, seriesVars, count, files>>
      /\ \/ doc' = [doc EXCEPT ![i] = q.seen[i]] /\ Go(r, p)
         \/ doc' = doc /\ Go(r, Done)
  BY DEF Save, Finish
<1>2. AtWork(q) /\ Seen(q) \cap fresh = {} /\ i \in Seen(q) /\ q.seen \in [Ids -> Rec]
  BY <1>1, Working DEF Kept, RequestsOK, AtWork, QueryOK, Query
<1>3. GoesOn(q, Done) /\ GoesOn(q, p)
  <2>1. GoesOn(q, [q EXCEPT !.pc = "count"])
    BY <1>2, PcMoves DEF Calls
  <2> QED BY <2>1, Ends
<1>4. i \in Ids /\ i \notin fresh
  BY <1>2 DEF Seen
<1> HIDE DEF q, i, p
<1>5. doc' \in [Ids -> Rec] /\ \A j \in fresh : doc'[j] = NoRec
  BY <1>1, <1>2, <1>4 DEF Kept, DataOK
<1>6. DataOK' /\ fresh' = fresh /\ UNCHANGED seriesVars
  BY <1>1, <1>5 DEF Kept, DataOK, ListsVideosOnce, seriesVars
<1>7. PICK o : Go(r, o) /\ GoesOn(q, o)
  BY <1>1, <1>3
<1> QED BY <1>1, <1>6, <1>7, SideKeeps DEF q

LEMMA DeltaTyped ==
  /\ \A q, new : TagDelta(q, new) \in [Tags -> Int]
  /\ \A ids \in SUBSET Ids : IsFiniteSet(ids) /\ Cardinality(ids) \in Nat
<1>1. \A ids \in SUBSET Ids : IsFiniteSet(ids) /\ Cardinality(ids) \in Nat
  BY CatalogueAssumption, FS_Subset, FS_CardinalityType
<1>2. ASSUME NEW q, NEW new PROVE TagDelta(q, new) \in [Tags -> Int]
  <2>1. ASSUME NEW t \in Tags
        PROVE  /\ {i \in Seen(q) : t \in new[i] \ q.seen[i].tags} \in SUBSET Ids
               /\ {i \in Seen(q) : t \in q.seen[i].tags \ new[i]} \in SUBSET Ids
    BY DEF Seen
  <2>2. ASSUME NEW t \in Tags
        PROVE  Cardinality({i \in Seen(q) : t \in new[i] \ q.seen[i].tags})
                 - Cardinality({i \in Seen(q) : t \in q.seen[i].tags \ new[i]}) \in Int
    <3>1. /\ Cardinality({i \in Seen(q) : t \in new[i] \ q.seen[i].tags}) \in Nat
          /\ Cardinality({i \in Seen(q) : t \in q.seen[i].tags \ new[i]}) \in Nat
      BY <1>1, <2>1
    <3> QED BY <3>1
  <2> QED BY <2>2 DEF TagDelta
<1> QED BY <1>1, <1>2

LEMMA EditedOK ==
  ASSUME NEW q, AtWork(q), q.pc # "place"
  PROVE  GoesOn(q, Edited(q)) /\ AtWork(Edited(q))
<1> DEFINE i == q.in.id  delta == TagDelta(q, [j \in Ids |-> q.in.add])
           d == [q.seen EXCEPT ![i].tags = q.in.add]
           p == [q EXCEPT !.seen = d, !.delta = delta]
<1>1. i \in Ids /\ q.in.add \in SUBSET Tags /\ q.seen \in [Ids -> Rec] /\ q \in Query
  BY DEF AtWork, QueryOK, Query, Input, Question
<1>2. delta \in [Tags -> Int]
  BY DeltaTyped
<1>3. d \in [Ids -> Rec] /\ \A j \in Ids : d[j].path = q.seen[j].path
  BY <1>1 DEF Rec
<1>4. Edited(q) = p
  BY <1>1 DEF Edited, Query
<1> HIDE DEF i, delta, d
<1>5. p \in Query /\ p.pc = q.pc /\ p.in = q.in /\ p.seen = d
      /\ p.order = q.order /\ p.placed = q.placed
  BY <1>1, <1>2, <1>3 DEF Query
<1> HIDE DEF p
<1>6. Seen(p) = Seen(q)
  BY <1>3, <1>5 DEF Seen
<1> QED BY <1>4, <1>5, <1>6 DEF AtWork, QueryOK, GoesOn

LEMMA CheckLocksKeeps ==
  ASSUME Kept, NEW r \in Requests, CheckLocks(r)
  PROVE  Kept'
<1> DEFINE q == req[r]
<1>1. /\ q.pc = "lock" /\ UNCHANGED dataVars
      /\ \/ Go(r, Done) \/ Go(r, ToSeries(Edited(q))) \/ Go(r, [q EXCEPT !.pc = "remove"])
         \/ Go(r, [q EXCEPT !.pc = "read"])
  BY DEF CheckLocks
<1>2. AtWork(q)
  BY <1>1, Working DEF Kept
<1>3. GoesOn(q, ToSeries(Edited(q)))
  <2>1. GoesOn(q, Edited(q)) /\ AtWork(Edited(q))
    BY <1>1, <1>2, EditedOK
  <2>2. GoesOn(Edited(q), ToSeries(Edited(q)))
    BY <2>1, ToSeriesOK
  <2> QED BY <2>1, <2>2, GoesOnTrans
<1>4. GoesOn(q, [q EXCEPT !.pc = "remove"])
  BY <1>2, PcMoves DEF Calls
<1>5. GoesOn(q, [q EXCEPT !.pc = "read"])
  BY <1>2, PcMoves DEF Calls
<1>6. GoesOn(q, Done)
  BY Ends
<1>7. PICK p : Go(r, p) /\ GoesOn(q, p)
  BY <1>1, <1>3, <1>4, <1>5, <1>6
<1> QED BY <1>1, <1>7, ReadOnKeeps

LEMMA CheckOthersKeeps ==
  ASSUME Kept, NEW r \in Requests, CheckOthers(r) \/ CheckForeign(r) \/ CheckListing(r)
  PROVE  Kept'
<1> DEFINE q == req[r]
           back == [i \in Ids |-> doc[i].series]  known == [q EXCEPT !.pc = "foreign", !.back = back]
           held == {p \in q.found : Locked(p)}  listing == [q EXCEPT !.pc = "find", !.held = held]
<1>1. /\ q.pc \in {"others", "foreign", "locks"} /\ UNCHANGED dataVars
      /\ \/ Go(r, Done) \/ Go(r, known) \/ Go(r, [q EXCEPT !.pc = "resolve"]) \/ Go(r, listing)
  BY DEF CheckOthers, CheckForeign, CheckListing
<1>2. AtWork(q) /\ q \in Query /\ IsInjectiveSeq(q.order) /\ IsInjectiveSeq(q.placed)
  BY <1>1, Working DEF Kept, AtWork, QueryOK
<1>3. back \in [Ids -> Series \cup {None}] /\ held \in SUBSET Paths
  BY <1>2 DEF Kept, DataOK, Rec, Query
<1>4. GoesOn(q, [q EXCEPT !.pc = "resolve"])
  BY <1>2, PcMoves DEF Calls
<1> HIDE DEF q, back, held
<1>5. known \in Query /\ known.pc = "foreign" /\ known.in = q.in /\ known.seen = q.seen
      /\ known.order = q.order /\ known.placed = q.placed
  BY <1>2, <1>3 DEF Query, Calls
<1>6. listing \in Query /\ listing.pc = "find" /\ listing.in = q.in /\ listing.seen = q.seen
      /\ listing.order = q.order /\ listing.placed = q.placed
  BY <1>2, <1>3 DEF Query, Calls
<1> HIDE DEF known, listing
<1>7. GoesOn(q, known) /\ GoesOn(q, listing) /\ GoesOn(q, Done)
  BY <1>2, <1>5, <1>6, Changed, Ends
<1>8. PICK p : Go(r, p) /\ GoesOn(q, p)
  BY <1>1, <1>4, <1>7
<1> QED BY <1>1, <1>8, ReadOnKeeps DEF q

(* A selection is read again, for good. *)
LEMMA RereadOK ==
  ASSUME DataOK, NEW q, AtWork(q), q.pc # "place", q.in.op \notin OneRecord,
         NEW d \in [Ids -> Rec], \A i \in fresh : d[i].path = None
  PROVE  LET p == [q EXCEPT !.seen = d]
         IN  AtWork(p) /\ Seen(p) \cap fresh = {} /\ p.in = q.in /\ p.pc = q.pc
<1> DEFINE p == [q EXCEPT !.seen = d]
<1>1. q \in Query
  BY DEF AtWork, QueryOK
<1>2. p \in Query /\ p.pc = q.pc /\ p.in = q.in /\ p.seen = d
      /\ p.order = q.order /\ p.placed = q.placed
  BY <1>1 DEF Query
<1> HIDE DEF p
<1>3. Seen(p) \cap fresh = {}
  BY <1>2 DEF Seen
<1> QED BY <1>2, <1>3 DEF AtWork, QueryOK, OneRecord, p

LEMMA CountingOK ==
  ASSUME NEW q, AtWork(q), q.pc # "place"
  PROVE  GoesOn(q, Counting(q)) /\ AtWork(Counting(q)) /\ Counting(q).in = q.in
<1> DEFINE n == Cardinality(New(q))  e == TagDelta(q, Retagged(q))
           delta == [t \in Tags |-> e[t] + IF t \in q.in.add THEN n ELSE 0]
           p == [q EXCEPT !.delta = delta]
<1>1. q \in Query /\ IsInjectiveSeq(q.order) /\ IsInjectiveSeq(q.placed) /\ q.found \in SUBSET Paths
  BY DEF AtWork, QueryOK, Query
<1>2. n \in Nat
  <2>1. New(q) \in SUBSET Paths
    BY <1>1 DEF New
  <2> QED BY <2>1, CatalogueAssumption, FS_Subset, FS_CardinalityType
<1>3. e \in [Tags -> Int]
  BY DeltaTyped
<1>4. Counting(q) = p
  BY DEF Counting
<1> HIDE DEF n, e
<1>5. delta \in [Tags -> Int]
  BY <1>2, <1>3
<1> HIDE DEF delta
<1>6. p \in Query /\ p.pc = q.pc /\ p.in = q.in /\ p.seen = q.seen
      /\ p.order = q.order /\ p.placed = q.placed
  BY <1>1, <1>5 DEF Query
<1> HIDE DEF p
<1> QED BY <1>1, <1>4, <1>6, Changed DEF AtWork, QueryOK

LEMMA ReadSelectionKeeps ==
  ASSUME Kept, NEW r \in Requests, ReadSelection(r)
  PROVE  Kept'
<1> DEFINE q == req[r]
           byId == [q EXCEPT !.seen = ReadIds(Elems(q.in.ids))]
           byPath == [q EXCEPT !.seen = ReadPaths(q.found)]
<1>1. /\ q.pc \in {"read", "find"} /\ UNCHANGED dataVars /\ q.in.op \notin OneRecord
      /\ \/ Go(r, ToSeries(Counting(byId))) \/ Go(r, [byId EXCEPT !.pc = "remove"])
         \/ Go(r, Done) \/ Go(r, [Counting(byPath) EXCEPT !.pc = "bulk"])
         \/ Go(r, [byPath EXCEPT !.pc = "remove"]) \/ Go(r, [byPath EXCEPT !.pc = "insert"])
  BY DEF ReadSelection, OneRecord
<1>2. AtWork(q) /\ DataOK
  BY <1>1, Working DEF Kept
<1>3. AtWork(byId) /\ Seen(byId) \cap fresh = {} /\ byId.pc = q.pc
  <2> DEFINE d == ReadIds(Elems(q.in.ids))
  <2>1. d \in [Ids -> Rec] /\ \A i \in fresh : d[i].path = None
    BY <1>2, ReadOK
  <2> HIDE DEF d, q
  <2>2. AtWork([q EXCEPT !.seen = d]) /\ Seen([q EXCEPT !.seen = d]) \cap fresh = {}
        /\ [q EXCEPT !.seen = d].pc = q.pc
    BY <1>1, <1>2, <2>1, RereadOK
  <2> QED BY <2>2 DEF d
<1>4. AtWork(byPath) /\ Seen(byPath) \cap fresh = {} /\ byPath.pc = q.pc
  <2> DEFINE d == ReadPaths(q.found)
  <2>1. d \in [Ids -> Rec] /\ \A i \in fresh : d[i].path = None
    BY <1>2, ReadOK
  <2> HIDE DEF d, q
  <2>2. AtWork([q EXCEPT !.seen = d]) /\ Seen([q EXCEPT !.seen = d]) \cap fresh = {}
        /\ [q EXCEPT !.seen = d].pc = q.pc
    BY <1>1, <1>2, <2>1, RereadOK
  <2> QED BY <2>2 DEF d
<1> HIDE DEF q, byId, byPath
<1>5. GoesOn(byId, ToSeries(Counting(byId)))
  <2>1. GoesOn(byId, Counting(byId)) /\ AtWork(Counting(byId))
    BY <1>1, <1>3, CountingOK
  <2>2. GoesOn(Counting(byId), ToSeries(Counting(byId)))
    BY <2>1, ToSeriesOK
  <2> QED BY <2>1, <2>2, GoesOnTrans
<1>6. GoesOn(byPath, [Counting(byPath) EXCEPT !.pc = "bulk"])
  <2> DEFINE p == Counting(byPath)
  <2>1. GoesOn(byPath, p) /\ AtWork(p)
    BY <1>1, <1>4, CountingOK
  <2> HIDE DEF p
  <2>2. GoesOn(p, [p EXCEPT !.pc = "bulk"])
    BY <2>1, PcMoves DEF Calls
  <2>3. GoesOn(byPath, [p EXCEPT !.pc = "bulk"])
    BY <2>1, <2>2, GoesOnTrans
  <2> QED BY <2>3 DEF p
<1>7. GoesOn(byId, [byId EXCEPT !.pc = "remove"])
  BY <1>3, PcMoves DEF Calls
<1>8. GoesOn(byPath, [byPath EXCEPT !.pc = "remove"])
  BY <1>4, PcMoves DEF Calls
<1>9. GoesOn(byPath, [byPath EXCEPT !.pc = "insert"])
  BY <1>4, PcMoves DEF Calls
<1>10. GoesOn(byId, Done)
  BY Ends
<1>11. PICK p : Go(r, p) /\ (GoesOn(byId, p) \/ GoesOn(byPath, p))
  BY <1>1, <1>5, <1>6, <1>7, <1>8, <1>9, <1>10
<1>12. QueryOK(p) /\ Seen(p) \cap fresh = {}
  BY <1>3, <1>4, <1>11 DEF GoesOn
<1> QED BY <1>1, <1>11, <1>12, ReadKeeps DEF q

(* New records get _ids nobody else has, and no request remembers. *)
LEMMA UpsertKeeps ==
  ASSUME DataOK, NEW d \in [Ids -> Rec], \A i \in fresh : d[i] = NoRec,
         NEW paths \in SUBSET Paths, NEW tags \in SUBSET Tags, Upsert(d, paths, tags),
         UNCHANGED <<seriesVars, count, files>>
  PROVE  DataOK' /\ fresh' \subseteq fresh
<1>1. PICK ids \in [{p \in paths : At(p) = {}} -> fresh] :
        /\ fresh' = fresh \ {ids[p] : p \in DOMAIN ids}
        /\ doc' = [i \in Ids |->
                     IF \E p \in DOMAIN ids : ids[p] = i
                     THEN [path |-> CHOOSE p \in DOMAIN ids : ids[p] = i,
                           tags |-> tags, series |-> None]
                     ELSE d[i]]
  BY DEF Upsert
<1>2. fresh' \subseteq fresh /\ fresh \subseteq Ids
  BY <1>1 DEF DataOK
<1>3. doc' \in [Ids -> Rec]
  <2>1. ASSUME NEW i \in Ids, \E p \in DOMAIN ids : ids[p] = i
        PROVE  [path |-> CHOOSE p \in DOMAIN ids : ids[p] = i, tags |-> tags, series |-> None] \in Rec
    <3> DEFINE o == CHOOSE p \in DOMAIN ids : ids[p] = i
    <3>1. o \in Paths
      BY <1>1, <2>1
    <3> HIDE DEF o
    <3>2. [path |-> o, tags |-> tags, series |-> None] \in Rec
      BY <3>1 DEF Rec
    <3> QED BY <3>2 DEF o
  <2> QED BY <1>1, <2>1
<1>4. \A i \in fresh' : doc'[i] = NoRec
  <2> TAKE i \in fresh'
  <2>1. i \in fresh /\ i \in Ids /\ ~\E p \in DOMAIN ids : ids[p] = i
    BY <1>1, <1>2
  <2> QED BY <1>1, <2>1
<1> QED BY <1>2, <1>3, <1>4 DEF DataOK, ListsVideosOnce, seriesVars

LEMMA BulkWriteKeeps ==
  ASSUME Kept, NEW r \in Requests, BulkWrite(r)
  PROVE  Kept'
<1> DEFINE q == req[r]
           new == Retagged(q)
           retagged == {i \in Seen(q) : new[i] # q.seen[i].tags}
           source == [i \in Ids |-> IF q.in.op = "batch update" THEN {i} \cap retagged
                                    ELSE {j \in retagged : q.seen[j].path = doc[i].path}]
           d == [i \in Ids |-> IF Exists(i) /\ source[i] # {}
                               THEN [doc[i] EXCEPT !.tags = new[CHOOSE j \in source[i] : TRUE]]
                               ELSE doc[i]]
           paths == IF q.in.op = "batch update" THEN {} ELSE New(q)
<1>1. /\ q.pc = "bulk" /\ Upsert(d, paths, q.in.add) /\ Go(r, ToCount(q))
      /\ UNCHANGED <<seriesVars, count, files>>
  BY DEF BulkWrite
<1>2. AtWork(q) /\ DataOK
  BY <1>1, Working DEF Kept
<1>3. /\ q.in.add \in SUBSET Tags /\ q.seen \in [Ids -> Rec] /\ q.found \in SUBSET Paths
  BY <1>2 DEF AtWork, QueryOK, Query, Input, Question
<1>4. new \in [Ids -> SUBSET Tags]
  BY <1>3 DEF Retagged, Rec
<1>5. \A i \in Ids : source[i] \subseteq Ids
  BY DEF Seen
<1>6. paths \in SUBSET Paths
  BY <1>3 DEF New
<1> HIDE DEF new, source, paths
<1>7. \A i \in Ids : source[i] # {} => new[CHOOSE j \in source[i] : TRUE] \in SUBSET Tags
  BY <1>4, <1>5
<1>8. \A i \in Ids, tags \in SUBSET Tags : [doc[i] EXCEPT !.tags = tags] \in Rec
  BY <1>2 DEF DataOK, Rec
<1>9. d \in [Ids -> Rec]
  BY <1>2, <1>7, <1>8 DEF DataOK
<1>10. \A i \in fresh : d[i] = NoRec
  BY <1>2, FreshUnused
<1>11. GoesOn(q, ToCount(q))
  BY <1>2, AfterCountOK
<1> HIDE DEF d, q
<1>12. DataOK' /\ fresh' \subseteq fresh /\ UNCHANGED seriesVars
  BY <1>1, <1>2, <1>3, <1>6, <1>9, <1>10, UpsertKeeps
<1> QED BY <1>1, <1>11, <1>12, SideKeeps, Zenon DEF q

LEMMA InsertListedKeeps ==
  ASSUME Kept, NEW r \in Requests, InsertListed(r)
  PROVE  Kept'
<1> DEFINE q == req[r]
<1>1. /\ q.pc = "insert" /\ Upsert(doc, Listed(q), {}) /\ Go(r, Done)
      /\ UNCHANGED <<seriesVars, count, files>>
  BY DEF InsertListed, Finish
<1>2. Listed(q) \in SUBSET Paths
  BY <1>1, Working DEF Kept, AtWork, QueryOK, Query, Listed, New
<1>3. DataOK /\ doc \in [Ids -> Rec] /\ \A i \in fresh : doc[i] = NoRec
  BY DEF Kept, DataOK
<1> HIDE DEF q
<1>4. DataOK' /\ fresh' \subseteq fresh /\ UNCHANGED seriesVars
  BY <1>1, <1>2, <1>3, UpsertKeeps
<1>5. GoesOn(req[r], Done)
  BY Ends
<1> QED BY <1>1, <1>4, <1>5, SideKeeps DEF q

LEMMA DetachingOK ==
  ASSUME NEW q, AtWork(q), q.pc # "place", NEW ids \in SUBSET Ids
  PROVE  GoesOn(q, Detaching(q, ids)) /\ AtWork(Detaching(q, ids))
<1> DEFINE delta == [t \in Tags |-> -Cardinality({i \in ids : t \in q.seen[i].tags})]
           p == [q EXCEPT !.ids = ids, !.delta = delta]
<1>1. q \in Query /\ IsInjectiveSeq(q.order) /\ IsInjectiveSeq(q.placed)
  BY DEF AtWork, QueryOK
<1>2. delta \in [Tags -> Int]
  <2>1. ASSUME NEW t \in Tags PROVE -Cardinality({i \in ids : t \in q.seen[i].tags}) \in Int
    <3>1. {i \in ids : t \in q.seen[i].tags} \in SUBSET Ids
      OBVIOUS
    <3>2. Cardinality({i \in ids : t \in q.seen[i].tags}) \in Nat
      BY <3>1, DeltaTyped
    <3> QED BY <3>2
  <2> QED BY <2>1
<1>3. Detaching(q, ids) = p
  BY DEF Detaching
<1> HIDE DEF delta
<1>4. p \in Query /\ p.pc = q.pc /\ p.in = q.in /\ p.seen = q.seen
      /\ p.order = q.order /\ p.placed = q.placed
  BY <1>1, <1>2 DEF Query
<1> HIDE DEF p
<1> QED BY <1>1, <1>3, <1>4, Changed DEF AtWork, QueryOK

LEMMA RemoveRecordsKeeps ==
  ASSUME Kept, NEW r \in Requests, RemoveRecords(r)
  PROVE  Kept'
<1> DEFINE q == req[r]  p == Detaching(q, {q.in.id})
<1>1. /\ q.pc = "remove" /\ UNCHANGED <<fresh, seriesVars, count, files>>
      /\ Go(r, IF q.in.op = "delete" THEN ToPull(p) ELSE [q EXCEPT !.pc = "recheck"])
      /\ \E gone : doc' = [i \in Ids |-> IF i \in gone THEN NoRec ELSE doc[i]]
  BY DEF RemoveRecords
<1>2. AtWork(q) /\ q.in.id \in Ids
  BY <1>1, Working DEF Kept, AtWork, Input, Question
<1>3. GoesOn(q, ToPull(p))
  <2>1. GoesOn(q, p) /\ AtWork(p)
    BY <1>1, <1>2, DetachingOK
  <2> HIDE DEF p
  <2>2. GoesOn(p, ToPull(p))
    BY <2>1, ToPullOK
  <2> QED BY <2>1, <2>2, GoesOnTrans
<1>4. GoesOn(q, [q EXCEPT !.pc = "recheck"])
  BY <1>2, PcMoves DEF Calls
<1> HIDE DEF q, p
<1>5. doc' \in [Ids -> Rec] /\ \A i \in fresh : doc'[i] = NoRec
  BY <1>1, NoRecTyped DEF Kept, DataOK
<1>6. DataOK' /\ fresh' = fresh /\ UNCHANGED seriesVars
  BY <1>1, <1>5 DEF Kept, DataOK, ListsVideosOnce, seriesVars
<1> QED BY <1>1, <1>3, <1>4, <1>6, SideKeeps DEF q

LEMMA RecheckKeeps ==
  ASSUME Kept, NEW r \in Requests, Recheck(r)
  PROVE  Kept'
<1> DEFINE q == req[r]
           gone == IF q.in.op = "batch delete" THEN {i \in Seen(q) : ~Exists(i)}
                   ELSE {i \in Seen(q) : At(q.seen[i].path) = {}}
           found == {q.seen[i].path : i \in gone}
           d == Detaching(q, gone)
           p == [d EXCEPT !.pc = "unlink", !.found = found]
<1>1. /\ q.pc = "recheck" /\ UNCHANGED dataVars /\ Go(r, IF gone = {} THEN Done ELSE p)
  BY DEF Recheck
<1>2. AtWork(q) /\ q.seen \in [Ids -> Rec]
  BY <1>1, Working DEF Kept, AtWork, QueryOK, Query
<1>3. gone \in SUBSET Ids /\ gone \subseteq Seen(q)
  BY DEF Seen
<1>4. found \in SUBSET Paths
  BY <1>2, <1>3 DEF Seen, Rec
<1> HIDE DEF q, gone, found
<1>5. GoesOn(q, d) /\ AtWork(d)
  BY <1>1, <1>2, <1>3, DetachingOK
<1> HIDE DEF d
<1>6. d \in Query /\ IsInjectiveSeq(d.order) /\ IsInjectiveSeq(d.placed)
  BY <1>5 DEF AtWork, QueryOK
<1>7. p \in Query /\ p.pc = "unlink" /\ p.in = d.in /\ p.seen = d.seen
      /\ p.order = d.order /\ p.placed = d.placed
  BY <1>4, <1>6 DEF Query, Calls
<1> HIDE DEF p
<1>8. GoesOn(q, p) /\ GoesOn(q, Done)
  BY <1>5, <1>6, <1>7, Changed, GoesOnTrans, Ends
<1> QED BY <1>1, <1>8, ReadOnKeeps DEF q

LEMMA UnlinkKeeps ==
  ASSUME Kept, NEW r \in Requests, UnlinkMany(r) \/ UnlinkOne(r)
  PROVE  Kept'
<1> DEFINE q == req[r]
<1>1. /\ q.pc = "unlink" /\ files' \subseteq files /\ UNCHANGED <<doc, fresh, seriesVars, count>>
      /\ Go(r, ToPull(q)) \/ Go(r, Done)
  BY DEF UnlinkMany, UnlinkOne, Finish
<1>2. AtWork(q)
  BY <1>1, Working DEF Kept
<1>3. GoesOn(q, ToPull(q)) /\ GoesOn(q, Done)
  BY <1>2, ToPullOK, Ends
<1> HIDE DEF q
<1>4. DataOK' /\ fresh' = fresh /\ UNCHANGED seriesVars
  BY <1>1 DEF Kept, DataOK, ListsVideosOnce, seriesVars
<1>5. PICK p : Go(r, p) /\ GoesOn(q, p)
  BY <1>1, <1>3
<1> QED BY <1>1, <1>4, <1>5, SideKeeps DEF q

-----------------------------------------------------------------------------
(* The migration. *)

LEMMA StillSwept ==
  ASSUME RequestsOK, EmptySeriesIsSwept, req' = req, fresh' = fresh,
         \A s \in alive' : s \in alive /\ (list'[s] = <<>> => list[s] = <<>>)
  PROVE  RequestsOK' /\ EmptySeriesIsSwept'
<1>1. RequestsOK'
  BY DEF RequestsOK, QueryOK, Seen
<1>2. EmptySeriesIsSwept'
  <2> SUFFICES ASSUME NEW s \in alive', list'[s] = <<>>
               PROVE  \E v \in Requests : req'[v].pc = "sweep" /\ s \in req'[v].affected
    BY DEF EmptySeriesIsSwept
  <2>1. PICK v \in Requests : req[v].pc = "sweep" /\ s \in req[v].affected
    BY DEF EmptySeriesIsSwept
  <2> QED BY <2>1
<1> QED BY <1>1, <1>2

LEMMA MovePhases ==
  ASSUME MoveOK, MoveSet, move.phase # "none",
         NEW c \in {"copied", "failed", "moved", "finished"}, MoveTo(c)
  PROVE  MoveOK' /\ MoveSet'
<1>1. move' = [move EXCEPT !.phase = c]
  BY DEF MoveTo
<1>2. /\ move' \in [phase : {"none", "copying", "copied", "moved", "finished", "failed"},
                    id : Ids \cup {None}, src : Paths \cup {None}, tgt : Paths \cup {None},
                    overwrite : BOOLEAN]
      /\ move'.src = move.src /\ move'.tgt = move.tgt
  BY <1>1 DEF MoveOK
<1> QED BY <1>2 DEF MoveOK, MoveSet

LEMMA RepointKeeps ==
  ASSUME Kept, MoveOK, MoveSet, RepointMove
  PROVE  Kept' /\ MoveOK' /\ MoveSet'
<1> DEFINE conflicting == IF move.overwrite THEN At(move.tgt) ELSE {}
           left == [s \in Series |-> Only(list[s], Ids \ conflicting)]
           moved == [i \in Ids |-> CASE i \in At(move.src) -> [doc[i] EXCEPT !.path = move.tgt]
                                     [] i \in conflicting -> NoRec
                                     [] OTHER -> doc[i]]
<1>1. /\ move.phase = "copied" /\ UNCHANGED <<fresh, unborn, count, files, req>>
      /\ \/ /\ doc' = moved /\ list' = left
            /\ alive' = alive \ {s \in alive : left[s] = <<>> /\ list[s] # <<>>}
         \/ UNCHANGED <<doc, list, alive>>
      /\ MoveTo("moved") \/ MoveTo("failed")
  BY DEF RepointMove
<1>2. MoveOK' /\ MoveSet'
  <2>1. MoveTo("moved") => MoveOK' /\ MoveSet'
    BY <1>1, MovePhases
  <2>2. MoveTo("failed") => MoveOK' /\ MoveSet'
    BY <1>1, MovePhases
  <2> QED BY <1>1, <2>1, <2>2
<1>3. move.src \in Paths /\ move.tgt \in Paths
  BY <1>1 DEF MoveSet
<1>4. list \in [Series -> Seq(Ids)] /\ \A s \in Series : IsInjectiveSeq(list[s])
  BY DEF Kept, DataOK, ListsVideosOnce
<1>5. left \in [Series -> Seq(Ids)] /\ \A s \in Series : IsInjectiveSeq(left[s])
  <2>1. \A s \in Series : /\ Only(list[s], Ids \ conflicting) \in Seq(Ids)
                          /\ IsInjectiveSeq(Only(list[s], Ids \ conflicting))
    BY <1>4, OnlyLists
  <2> HIDE DEF conflicting
  <2> QED BY <2>1
<1>6. moved \in [Ids -> Rec]
  <2>1. \A i \in Ids : doc[i] \in Rec /\ [doc[i] EXCEPT !.path = move.tgt] \in Rec
    BY <1>3 DEF Kept, DataOK, Rec
  <2> HIDE DEF conflicting
  <2> QED BY <2>1, NoRecTyped
<1>7. \A i \in fresh : moved[i] = NoRec
  <2> TAKE i \in fresh
  <2>1. i \in Ids /\ doc[i] = NoRec /\ doc[i].path = None
    BY FreshUnused DEF Kept
  <2>2. i \notin At(move.src)
    BY <1>3, <2>1, CatalogueAssumption DEF At
  <2> HIDE DEF conflicting
  <2> QED BY <2>1, <2>2
<1> HIDE DEF moved, left
<1>8. DataOK'
  BY <1>1, <1>5, <1>6, <1>7 DEF Kept, DataOK, ListsVideosOnce
<1>9. \A s \in alive' : s \in alive /\ (list'[s] = <<>> => list[s] = <<>>)
  BY <1>1
<1> QED BY <1>1, <1>2, <1>8, <1>9, StillSwept DEF Kept

LEMMA MoveKeeps ==
  ASSUME Kept, MoveOK, MoveSet, MoveStep
  PROVE  Kept' /\ MoveOK' /\ MoveSet'
<1>1. CASE BeginMove
  <2>1. PICK m \in Moves :
          /\ doc[m.id].path \in files \ {m.tgt} /\ UNCHANGED dataVars /\ req' = req
          /\ move' = [phase |-> "copying", id |-> m.id, src |-> doc[m.id].path,
                      tgt |-> m.tgt, overwrite |-> m.overwrite]
    BY <1>1 DEF BeginMove
  <2>2. /\ m.id \in Ids /\ m.tgt \in Paths /\ m.overwrite \in BOOLEAN
        /\ doc[m.id].path \in Paths
    BY <2>1, CatalogueAssumption DEF Kept, DataOK
  <2>3. MoveOK' /\ MoveSet'
    BY <2>1, <2>2 DEF MoveOK, MoveSet
  <2>4. fresh' = fresh /\ alive' = alive /\ list' = list
    BY <2>1 DEF dataVars, seriesVars
  <2> QED BY <2>1, <2>3, <2>4, DataSame, StillSwept DEF Kept
<1>2. CASE CopyMove \/ FailMove \/ FinishMove
  <2>1. /\ move.phase # "none" /\ UNCHANGED <<doc, fresh, seriesVars, count, req>>
        /\ files' \subseteq files \cup {move.tgt}
        /\ MoveTo("copied") \/ MoveTo("failed") \/ MoveTo("finished")
    BY <1>2 DEF CopyMove, FailMove, FinishMove
  <2>2. MoveTo("copied") => MoveOK' /\ MoveSet'
    BY <2>1, MovePhases
  <2>3. MoveTo("failed") => MoveOK' /\ MoveSet'
    BY <2>1, MovePhases
  <2>4. MoveTo("finished") => MoveOK' /\ MoveSet'
    BY <2>1, MovePhases
  <2>5. files' \subseteq Paths
    BY <2>1 DEF Kept, DataOK, MoveSet
  <2>6. DataOK'
    BY <2>1, <2>5 DEF Kept, DataOK, ListsVideosOnce, seriesVars
  <2>7. alive' = alive /\ list' = list
    BY <2>1 DEF seriesVars
  <2> QED BY <2>1, <2>2, <2>3, <2>4, <2>6, <2>7, StillSwept DEF Kept
<1>3. CASE RepointMove
  BY <1>3, RepointKeeps
<1> QED BY <1>1, <1>2, <1>3 DEF MoveStep

-----------------------------------------------------------------------------
(* The invariant, and what it gives. *)

CatalogueInv == Kept /\ MoveOK /\ MoveSet /\ contended \in BOOLEAN

LEMMA CatalogueInitially == CatalogueInit => CatalogueInv
<1> SUFFICES ASSUME CatalogueInit PROVE CatalogueInv
  OBVIOUS
<1> USE CatalogueAssumption
<1>1. /\ list \in [Series -> Seq({i \in Ids : Home[i] # None})]
      /\ \A s \in Series : IsInjectiveSeq(list[s])
  BY DEF CatalogueInit
<1>2. list \in [Series -> Seq(Ids)]
  <2>1. \A l \in Seq({i \in Ids : Home[i] # None}) : l \in Seq(Ids)
    OBVIOUS
  <2> QED BY <1>1, <2>1
<1>3. doc \in [Ids -> Rec]
  <2> DEFINE Holds(i) == \E s \in Series : i \in Elems(list[s])
             back(i) == IF Holds(i) THEN CHOOSE s \in Series : i \in Elems(list[s]) ELSE None
             rec(i) == IF Home[i] = None THEN NoRec
                       ELSE [path |-> Home[i], tags |-> Tagged[i], series |-> back(i)]
  <2>1. doc = [i \in Ids |-> rec(i)]
    BY DEF CatalogueInit
  <2>2. ASSUME NEW i \in Ids PROVE rec(i) \in Rec
    <3>1. back(i) \in Series \cup {None}
      OBVIOUS
    <3>2. Home[i] \in Paths \cup {None} /\ Tagged[i] \in SUBSET Tags
      OBVIOUS
    <3> HIDE DEF back
    <3> QED BY <3>1, <3>2, NoRecTyped DEF Rec
  <2> HIDE DEF rec
  <2> QED BY <2>1, <2>2
<1>4. fresh \subseteq Ids /\ \A i \in fresh : doc[i] = NoRec
  BY DEF CatalogueInit
<1>5. alive \subseteq Series /\ unborn \subseteq Series \ alive /\ files \subseteq Paths
  BY DEF CatalogueInit
<1>6. count \in [Tags -> Int \cup {None}]
  <2>1. \A t \in Tags : Refs(t) \in Int
    <3>1. \A t \in Tags : {i \in Ids : t \in doc[i].tags} \in SUBSET Ids
      OBVIOUS
    <3> QED BY <3>1, DeltaTyped DEF Refs
  <2> QED BY <2>1 DEF CatalogueInit
<1>7. DataOK
  BY <1>1, <1>2, <1>3, <1>4, <1>5, <1>6 DEF DataOK, ListsVideosOnce
<1>8. RequestsOK
  BY FreshOK DEF CatalogueInit, RequestsOK, QueryOK
<1>9. EmptySeriesIsSwept
  BY DEF CatalogueInit, EmptySeriesIsSwept
<1>10. MoveOK /\ MoveSet
  BY DEF CatalogueInit, MoveOK, MoveSet, NoMove
<1> QED BY <1>7, <1>8, <1>9, <1>10 DEF CatalogueInit, CatalogueInv, Kept

LEMMA RequestKeeps ==
  ASSUME Kept, NEW r \in Requests,
         Asking(r) \/ SeriesStep(r) \/ RecordStep(r) \/ TagStep(r)
  PROVE  Kept'
<1>1. CASE Asking(r)
  BY <1>1, AskingKeeps
<1>2. CASE SeriesStep(r)
  BY <1>2, ResolveKeeps, FindTargetKeeps, InsertSeriesKeeps, SetMembersKeeps,
     FindAffectedKeeps, PullIdsKeeps, SweepSeriesKeeps, ReferKeeps DEF SeriesStep
<1>3. CASE RecordStep(r)
  BY <1>3, SaveKeeps, CheckLocksKeeps, CheckOthersKeeps, ReadSelectionKeeps, BulkWriteKeeps,
     InsertListedKeeps, RemoveRecordsKeeps, RecheckKeeps, UnlinkKeeps DEF RecordStep
<1>4. CASE TagStep(r)
  BY <1>4, CountTagsKeeps, PruneTagsKeeps DEF TagStep
<1> QED BY <1>1, <1>2, <1>3, <1>4

(* Only the history and the migration are left: a request never moves the  *)
(* one, and says of the other only that there was contention.              *)
LEMMA Beside ==
  ASSUME NEW r \in Requests, contended \in BOOLEAN, MoveOK, MoveSet,
         Asking(r) \/ SeriesStep(r) \/ RecordStep(r) \/ TagStep(r)
  PROVE  contended' \in BOOLEAN /\ MoveOK' /\ MoveSet'
<1>1. move' = move /\ contended' \in BOOLEAN
  <2>1. CASE Asking(r)
    BY <2>1 DEF Asking, RecordView, GetThumbnail, EnsureDuration, ReadToSave, EditVideo,
       DeleteVideo, AskBatch, WalkDirectory, Asks
  <2>2. CASE SeriesStep(r)
    BY <2>2 DEF SeriesStep, Resolve, FindTarget, InsertSeries, SetMembers, FindAffected,
       PullIds, SweepSeries, Refer
  <2>3. CASE RecordStep(r)
    BY <2>3 DEF RecordStep, Save, CheckLocks, CheckOthers, CheckForeign, CheckListing,
       ReadSelection, BulkWrite, InsertListed, RemoveRecords, Recheck, UnlinkMany, UnlinkOne
  <2>4. CASE TagStep(r)
    BY <2>4 DEF TagStep, CountTags, PruneTags
  <2> QED BY <2>1, <2>2, <2>3, <2>4, Zenon
<1> QED BY <1>1 DEF MoveOK, MoveSet

LEMMA CatalogueSteps == CatalogueInv /\ [CatalogueNext]_vars => CatalogueInv'
<1> SUFFICES ASSUME CatalogueInv, [CatalogueNext]_vars PROVE CatalogueInv'
  OBVIOUS
<1>1. ASSUME NEW r \in Requests, Asking(r) \/ SeriesStep(r) \/ RecordStep(r) \/ TagStep(r)
      PROVE  CatalogueInv'
  BY <1>1, RequestKeeps, Beside DEF CatalogueInv
<1>2. CASE MoveStep
  <2>1. contended' \in BOOLEAN
    BY <1>2 DEF MoveStep, BeginMove, CopyMove, FailMove, RepointMove, FinishMove, Interrupts
  <2> QED BY <1>2, <2>1, MoveKeeps DEF CatalogueInv
<1>3. CASE UNCHANGED vars
  <2>1. UNCHANGED dataVars /\ move' = move /\ req' = req /\ contended' = contended
    BY <1>3 DEF vars
  <2>2. fresh' = fresh /\ alive' = alive /\ list' = list
    BY <2>1 DEF dataVars, seriesVars
  <2>3. MoveOK' /\ MoveSet' /\ contended' \in BOOLEAN
    BY <2>1 DEF CatalogueInv, MoveOK, MoveSet
  <2> QED BY <2>1, <2>2, <2>3, DataSame, StillSwept DEF CatalogueInv, Kept
<1> QED BY <1>1, <1>2, <1>3 DEF CatalogueNext

LEMMA CatalogueAlways == CatalogueSpec => []CatalogueInv
BY CatalogueInitially, CatalogueSteps, PTL DEF CatalogueSpec

(* Every collection and every copy a request holds has its type, whatever  *)
(* the requests and the migration interleave (catalog_service.py,          *)
(* series_service.py, batch_operation_service.py).                         *)
THEOREM CatalogueTypes == CatalogueSpec => []CatalogueTypeOK
<1>1. CatalogueInv => CatalogueTypeOK
  BY DEF CatalogueInv, Kept, DataOK, MoveOK, CatalogueTypeOK
<1> QED BY <1>1, CatalogueAlways, PTL

(* No series lists a video twice, though the list an assign writes was     *)
(* worked out from members that other requests have changed since          *)
(* (series_service.py, _place and assign).                                 *)
THEOREM SeriesListVideosOnce == CatalogueSpec => []ListsVideosOnce
<1>1. CatalogueInv => ListsVideosOnce
  BY DEF CatalogueInv, Kept, DataOK
<1> QED BY <1>1, CatalogueAlways, PTL

(* What an assign is about to store holds every member it read and every   *)
(* video selected once each, the selection in the order asked for and      *)
(* everyone else in line, for lists of any length (series_service.py,      *)
(* _place).                                                                *)
THEOREM OrderIsAsAsked == CatalogueSpec => []OrderAsAsked
<1>1. CatalogueInv => OrderAsAsked
  <2> SUFFICES ASSUME CatalogueInv, NEW r \in Requests, req[r].pc = "place"
               PROVE  LET q == req[r]
                          chosen == Elems(q.order)
                          kept == Elems(q.members) \ chosen IN
                      /\ Elems(q.placed) = chosen \cup kept /\ IsInjectiveSeq(q.placed)
                      /\ \A x, y \in chosen : Before(q.placed, x, y) <=> Before(q.order, x, y)
                      /\ \A x, y \in kept : Before(q.placed, x, y) <=> Before(q.members, x, y)
                      /\ \A k \in 1..Len(q.members) :
                           q.members[k] \in chosen <=> q.placed[k] \in chosen
    BY DEF OrderAsAsked
  <2> DEFINE q == req[r]  o == q.order  m == q.members
  <2>1. /\ o \in Seq(Ids) /\ m \in Seq(Ids) /\ IsInjectiveSeq(o) /\ IsInjectiveSeq(m)
        /\ q.placed = Place(m, o)
    BY DEF CatalogueInv, Kept, RequestsOK, QueryOK, Planned, Query
  <2> HIDE DEF q, o, m
  <2>2. IsInjectiveSeq(q.placed) /\ Elems(q.placed) = Elems(m) \cup Elems(o)
    BY <2>1, PlaceLists
  <2>3. /\ \A x, y \in Elems(o) : Before(q.placed, x, y) <=> Before(o, x, y)
        /\ \A x, y \in Elems(m) \ Elems(o) : Before(q.placed, x, y) <=> Before(m, x, y)
        /\ \A k \in 1..Len(m) : m[k] \in Elems(o) <=> q.placed[k] \in Elems(o)
    BY <2>1, PlaceInLine
  <2> QED BY <2>2, <2>3 DEF q, o, m
<1> QED BY <1>1, CatalogueAlways, PTL

(* A series that is empty is about to be deleted by a request that took    *)
(* its last videos out, whatever other requests do meanwhile               *)
(* (series_service.py, _pull).                                             *)
THEOREM EmptySeriesGo == CatalogueSpec => []EmptySeriesIsSwept
<1>1. CatalogueInv => EmptySeriesIsSwept
  BY DEF CatalogueInv, Kept
<1> QED BY <1>1, CatalogueAlways, PTL

-----------------------------------------------------------------------------
(* Rows and their files: what each request knows, as long as no two actors *)
(* were at one video at once.  The data are arguments, so that a fact      *)
(* about them can be used before and after a step.                         *)

Pulling == {"affected", "pull", "sweep", "refer"}
Assigning == {"resolve", "target", "place"} \cup Pulling
Counts == {"count", "prune"}

Viewing == {"view", "thumbnail", "duration"}

(* The calls a request may be at. *)
PcsOf(op) ==
  CASE op \in Viewing -> {"save"}
    [] op = "edit" -> {"lock", "others", "foreign", "save"} \cup Assigning \cup Counts
    [] op = "delete" -> {"lock", "remove", "unlink"} \cup Pulling \cup Counts
    [] op = "batch update" -> {"lock", "read", "bulk"} \cup Assigning \cup Counts
    [] op = "batch delete" ->
         {"lock", "read", "remove", "recheck", "unlink"} \cup Pulling \cup Counts
    [] op = "directory update" -> {"find", "bulk"} \cup Counts
    [] op = "directory delete" ->
         {"find", "remove", "recheck", "unlink"} \cup Pulling \cup Counts
    [] OTHER -> {"locks", "find", "insert"}

Holders(d, p) == {i \in Ids : d[i].path = p}
UnderWay(m) == m.phase \in {"copying", "copied", "moved"}
LockedBy(m, p) == UnderWay(m) /\ p \in {m.src, m.tgt}

(* A path that no migration was allowed to overwrite. *)
Spared(m, p) == ~(m.overwrite /\ p = m.tgt)

(* The paths whose records a request has deleted and whose files it will. *)
Doomed(q) ==
  CASE q.in.op = "delete" /\ q.pc \notin {"lock", "remove"} -> {q.seen[q.in.id].path}
    [] q.in.op \in {"batch delete", "directory delete"} /\ q.pc = "recheck" -> SeenPaths(q)
    [] q.in.op \in {"batch delete", "directory delete"} /\ q.pc = "unlink" -> q.found
    [] OTHER -> {}

(* The records it asked to delete by their _id. *)
Condemned(in) ==
  CASE in.op = "delete" -> {in.id} [] in.op = "batch delete" -> Elems(in.ids) [] OTHER -> {}

WholeDir(in) == in.op \in {"directory update", "directory delete"}
ByOne(q) ==
  \/ q.in.op \in OneRecord
  \/ q.in.op = "delete" /\ q.pc \in {"lock", "remove"}

(* What a request at work knows of the records d, the files f and the      *)
(* migration m.                                                            *)
Knows(q, d, f, m) ==
  /\ q.pc \in PcsOf(q.in.op)
  /\ q.in.op \in Viewing => q.delta = NoChange
  /\ ByOne(q) => d[q.in.id].path = q.seen[q.in.id].path /\ d[q.in.id].path # None
  /\ q.in.op = "batch delete" /\ q.pc \in {"lock", "read", "remove"} =>
       /\ Seen(q) \subseteq Elems(q.in.ids)
       /\ \A i \in Elems(q.in.ids) : d[i].path = q.seen[i].path
  /\ q.pc \in {"read", "remove"} => \A i \in Condemned(q.in) : ~LockedBy(m, d[i].path)
  /\ q.in.op \in {"directory update", "list"} => q.found \subseteq f
  /\ q.in.op = "directory delete" /\ q.pc \in {"find", "remove"} => q.found \subseteq f
  /\ q.in.op = "directory delete" /\ q.pc = "remove" => SeenPaths(q) \subseteq q.found
  /\ WholeDir(q.in) => ~UnderWay(m)
  /\ q.in.op = "list" /\ q.pc # "locks" => q.held = {p \in q.found : LockedBy(m, p)}
  /\ \A p \in Doomed(q) : Spared(m, p) => p \in f /\ Holders(d, p) = {}
  /\ UnderWay(m) => /\ m.src \notin Doomed(q)
                    /\ Spared(m, m.tgt) => m.tgt \notin Doomed(q)

(* Two requests that keep apart. *)
KeepApart(q, o, m) ==
  /\ ~Crosses(q.in, o.in)
  /\ \A p \in Doomed(q) \cap Doomed(o) : ~Spared(m, p)

(* The rows, and the ground a migration stands on. *)
Ground(d, f, m) ==
  /\ \A i \in Ids : d[i].path # None /\ Spared(m, d[i].path) => d[i].path \in f
  /\ m.phase \in {"copying", "copied"} =>
       /\ m.src \in f /\ d[m.id].path = m.src
       /\ Spared(m, m.tgt) => Holders(d, m.tgt) = {}
  /\ m.phase = "copied" /\ Spared(m, m.tgt) => m.tgt \in f
  /\ m.phase = "moved" => Holders(d, m.src) = {} /\ (Spared(m, m.tgt) => m.tgt \in f)

InOrder ==
  /\ Ground(doc, files, move)
  /\ \A r \in Requests : Active(r) => Knows(req[r], doc, files, move)
  /\ \A r, u \in Requests : r # u /\ Active(r) /\ Active(u) => KeepApart(req[r], req[u], move)

(* Whatever the contention: no path has two records, and a migration knows *)
(* both of its ends.                                                       *)
OnePath(d) == \A i, j \in Ids : d[i].path # None /\ d[i].path = d[j].path => i = j
MoveShape ==
  /\ move.phase = "none" => move = NoMove
  /\ move.phase # "none" => move.id \in Ids /\ move.src # move.tgt

RowsInv == OnePath(doc) /\ MoveShape /\ (~contended => InOrder)

-----------------------------------------------------------------------------
(* The calls that follow: the request keeps what it has seen, and neither  *)
(* reads its records again nor deletes any.                                *)

Ahead == {"others", "foreign", "save", "bulk", "unlink"} \cup Assigning \cup Counts

SameCopies(q, p) ==
  /\ p.in = q.in /\ p.found = q.found /\ p.held = q.held
  /\ q.in.op \in OneRecord \cup {"delete"} => p.seen[q.in.id].path = q.seen[q.in.id].path
  /\ q.in.op \in Viewing => p.delta = q.delta

GoesAhead(q, p) ==
  \/ p = Done
  \/ /\ SameCopies(q, p) /\ p.pc \in PcsOf(q.in.op) \cap Ahead
     /\ p.pc = "unlink" => q.in.op = "delete"

Serial == {"edit", "batch update", "delete", "batch delete", "directory delete"}

LEMMA DoneIs == Done.pc = "done"
BY DEF Done, Fresh

LEMMA PcAhead ==
  ASSUME NEW q \in Query, NEW c \in PcsOf(q.in.op) \cap Ahead, c = "unlink" => q.in.op = "delete"
  PROVE  GoesAhead(q, [q EXCEPT !.pc = c])
BY DEF GoesAhead, SameCopies, Query

LEMMA SameAhead ==
  ASSUME NEW q, NEW o, SameCopies(q, o), NEW p, GoesAhead(o, p)
  PROVE  GoesAhead(q, p)
BY DEF SameCopies, GoesAhead

LEMMA CountAhead ==
  ASSUME NEW q \in Query, q.in.op \in Serial \cup {"directory update"}
  PROVE  GoesAhead(q, AfterCount(q)) /\ GoesAhead(q, ToCount(q))
<1>1. GoesAhead(q, AfterCount(q))
  <2>1. q.in.op = "delete" => "unlink" \in PcsOf(q.in.op) \cap Ahead
    BY DEF Viewing, PcsOf, Ahead
  <2> QED BY <2>1, PcAhead DEF AfterCount, GoesAhead
<1>2. GoesAhead(q, ToCount(q))
  <2>1. "count" \in PcsOf(q.in.op) \cap Ahead
    BY DEF Viewing, PcsOf, Ahead, Serial, Counts
  <2>2. GoesAhead(q, [q EXCEPT !.pc = "count"])
    BY <2>1, PcAhead
  <2> QED BY <1>1, <2>2 DEF ToCount
<1> QED BY <1>1, <1>2

LEMMA BulkAhead ==
  ASSUME NEW q \in Query, q.in.op = "batch update"
  PROVE  GoesAhead(q, ToBulk(q))
<1>1. "bulk" \in PcsOf(q.in.op) \cap Ahead
  BY DEF Viewing, PcsOf, Ahead
<1> QED BY <1>1, PcAhead DEF ToBulk, GoesAhead

LEMMA SeriesAhead ==
  ASSUME NEW q \in Query, q.in.op \in Serial, AtWork(q)
  PROVE  GoesAhead(q, AfterSeries(q))
<1>1. ASSUME q.in.op = "edit" PROVE GoesAhead(q, AfterSeries(q))
  <2> DEFINE d == [q.seen EXCEPT ![q.in.id].series = q.target]
             p == [q EXCEPT !.pc = "save", !.seen[q.in.id].series = q.target]
  <2>1. AfterSeries(q) = p
    BY <1>1 DEF AfterSeries
  <2>2. q.in.id \in Ids /\ q.seen \in [Ids -> Rec]
    BY DEF AtWork, Input, Question, QueryOK, Query
  <2>3. d[q.in.id].path = q.seen[q.in.id].path
    BY <2>2 DEF Rec
  <2>4. p = [[q EXCEPT !.pc = "save"] EXCEPT !.seen = d]
    BY DEF Query
  <2>5. p.pc = "save" /\ p.in = q.in /\ p.found = q.found /\ p.held = q.held /\ p.seen = d
        /\ p.delta = q.delta
    BY <2>4 DEF Query
  <2> HIDE DEF p, d
  <2>6. "save" \in PcsOf(q.in.op) \cap Ahead
    BY <1>1 DEF Viewing, PcsOf, Ahead
  <2> QED BY <2>1, <2>3, <2>5, <2>6 DEF GoesAhead, SameCopies
<1>2. ASSUME q.in.op = "batch update" PROVE GoesAhead(q, AfterSeries(q))
  BY <1>2, BulkAhead DEF AfterSeries
<1>3. ASSUME q.in.op \notin {"edit", "batch update"} PROVE GoesAhead(q, AfterSeries(q))
  BY <1>3, CountAhead DEF AfterSeries
<1> QED BY <1>1, <1>2, <1>3

LEMMA PullAhead ==
  ASSUME NEW q \in Query, q.in.op \in Serial, AtWork(q)
  PROVE  GoesAhead(q, AfterPull(q)) /\ GoesAhead(q, ToPull(q))
<1>1. {"refer", "affected", "pull", "sweep"} \subseteq PcsOf(q.in.op) \cap Ahead
  BY DEF Viewing, PcsOf, Ahead, Serial, Assigning, Pulling
<1>2. GoesAhead(q, [q EXCEPT !.pc = "refer"]) /\ GoesAhead(q, [q EXCEPT !.pc = "affected"])
  BY <1>1, PcAhead
<1>3. GoesAhead(q, AfterPull(q))
  BY <1>2, SeriesAhead DEF AfterPull
<1> QED BY <1>2, <1>3 DEF ToPull

LEMMA JoinAhead ==
  ASSUME NEW q \in Query, q.in.op \in Serial, AtWork(q), NEW s \in Series \cup {None}
  PROVE  GoesAhead(q, ToJoin(q, s))
<1> DEFINE J == Joining(q, s)  p == [q EXCEPT !.target = s, !.ids = J, !.refs = J]
<1>1. J \subseteq Ids
  BY DEF Joining, Elems, Query
<1>2. p \in Query
  BY <1>1 DEF Query
<1>3. /\ p.pc = q.pc /\ p.in = q.in
      /\ p.order = q.order /\ p.members = q.members /\ p.placed = q.placed
      /\ p.seen = q.seen /\ p.found = q.found /\ p.held = q.held /\ p.delta = q.delta
  BY DEF Query
<1>4. ToJoin(q, s) = ToPull(p)
  BY DEF ToJoin
<1> HIDE DEF p
<1>5. AtWork(p) /\ SameCopies(q, p)
  BY <1>2, <1>3 DEF AtWork, QueryOK, Planned, Seen, SameCopies
<1> QED BY <1>2, <1>3, <1>4, <1>5, PullAhead, SameAhead

LEMMA ToSeriesAhead ==
  ASSUME NEW q \in Query, q.in.op \in {"edit", "batch update"}, q.in.series \in SeriesInputs
  PROVE  GoesAhead(q, ToSeries(q))
<1>1. "resolve" \in PcsOf(q.in.op) \cap Ahead
      /\ (q.in.op = "edit" => {"others", "save"} \subseteq PcsOf(q.in.op) \cap Ahead)
  BY DEF Viewing, PcsOf, Ahead, Assigning
<1>2. GoesAhead(q, [q EXCEPT !.pc = "resolve"])
  BY <1>1, PcAhead
<1>3. q.in.op = "edit" => /\ GoesAhead(q, [q EXCEPT !.pc = "others"])
                          /\ GoesAhead(q, [q EXCEPT !.pc = "save"])
  BY <1>1, PcAhead
<1>4. CASE q.in.series = "clear"
  BY <1>2, <1>4 DEF ToSeries
<1>5. CASE q.in.series = "assign"
  <2> DEFINE c == IF q.in.op = "edit" /\ Elems(q.in.ids) # {q.in.id} THEN "others" ELSE "resolve"
  <2>1. ToSeries(q) = [q EXCEPT !.pc = c]
    BY <1>5 DEF ToSeries
  <2>2. c \in PcsOf(q.in.op) \cap Ahead /\ c # "unlink"
    BY <1>1
  <2> HIDE DEF c
  <2> QED BY <2>1, <2>2, PcAhead
<1>6. CASE q.in.series = "keep"
  BY <1>3, <1>6, BulkAhead DEF ToSeries
<1> QED BY <1>4, <1>5, <1>6 DEF SeriesInputs

(* Going ahead, a request still knows what it knew. *)
LEMMA AheadKnows ==
  ASSUME NEW q \in Query, NEW p, NEW d, NEW f, NEW m, Knows(q, d, f, m), GoesAhead(q, p),
         p # Done, q.in.op \in Ops, q.in.op = "delete" => q.pc \notin {"lock", "remove"}
  PROVE  Knows(p, d, f, m) /\ Doomed(p) \subseteq Doomed(q) /\ p.in = q.in
<1>1. /\ p.in = q.in /\ p.found = q.found /\ p.held = q.held
      /\ q.in.op \in OneRecord \cup {"delete"} => p.seen[q.in.id].path = q.seen[q.in.id].path
      /\ q.in.op \in Viewing => p.delta = q.delta
      /\ p.pc \in PcsOf(q.in.op) /\ p.pc \in Ahead
      /\ p.pc = "unlink" => q.in.op = "delete"
  BY DEF GoesAhead, SameCopies
<1>2. p.pc \notin {"lock", "read", "remove", "recheck", "find", "locks", "insert"}
  BY <1>1 DEF Ahead, Assigning, Pulling, Counts
<1>3. q.in.op # "list"
  BY <1>1, <1>2 DEF Viewing, PcsOf
<1>4. Doomed(p) \subseteq Doomed(q)
  BY <1>1, <1>2 DEF Doomed
<1>5. ByOne(p) => ByOne(q) /\ q.in.op \in OneRecord
  BY <1>1, <1>2 DEF ByOne
<1> QED BY <1>1, <1>2, <1>3, <1>4, <1>5 DEF Knows

(* A request still knows what it knew when nobody touched its records, nor *)
(* the files it counts on.                                                 *)
LEMMA KnowsStays ==
  ASSUME NEW q, q.in \in Input, NEW d, NEW e, NEW f, NEW g, NEW m, Knows(q, d, f, m),
         \A i \in Touches(q.in) : e[i].path = d[i].path,
         ByDirectory(q.in) /\ (q.in.op = "directory delete" => q.pc \in {"find", "remove"}) =>
           f \subseteq g,
         \A p \in Doomed(q) : Spared(m, p) => p \in g /\ Holders(e, p) = {}
  PROVE  Knows(q, e, g, m)
<1>1. ByOne(q) => q.in.id \in Touches(q.in)
  BY DEF ByOne, OneRecord, Touches, ByDirectory
<1>2. q.in.op = "batch delete" => Elems(q.in.ids) \subseteq Touches(q.in)
  BY DEF Touches, ByDirectory
<1>3. Condemned(q.in) \subseteq Touches(q.in)
  BY DEF Condemned, Touches, ByDirectory
<1>4. /\ q.in.op \in {"directory update", "list"} => q.found \subseteq g
      /\ q.in.op = "directory delete" /\ q.pc \in {"find", "remove"} => q.found \subseteq g
  BY DEF Knows, ByDirectory
<1>5. ByOne(q) => e[q.in.id].path = q.seen[q.in.id].path /\ e[q.in.id].path # None
  BY <1>1 DEF Knows
<1>6. q.in.op = "batch delete" /\ q.pc \in {"lock", "read", "remove"} =>
        \A i \in Elems(q.in.ids) : e[i].path = q.seen[i].path
  BY <1>2 DEF Knows
<1>7. q.pc \in {"read", "remove"} => \A i \in Condemned(q.in) : ~LockedBy(m, e[i].path)
  BY <1>3 DEF Knows
<1> QED BY <1>4, <1>5, <1>6, <1>7 DEF Knows

LEMMA HoldersSame ==
  ASSUME NEW d, NEW e, \A i \in Ids : e[i].path = d[i].path
  PROVE  /\ \A p : Holders(e, p) = Holders(d, p)
         /\ OnePath(d) => OnePath(e)
BY DEF Holders, OnePath

LEMMA GroundSame ==
  ASSUME NEW d, NEW e, \A i \in Ids : e[i].path = d[i].path, NEW f,
         MoveOK, MoveShape, Ground(d, f, move)
  PROVE  Ground(e, f, move)
<1>1. \A p : Holders(e, p) = Holders(d, p)
  BY HoldersSame
<1>2. move.phase \in {"copying", "copied"} => move.id \in Ids
  BY DEF MoveShape
<1> QED BY <1>1, <1>2 DEF Ground

LEMMA KnowsSame ==
  ASSUME NEW q, q.in \in Input, NEW d, NEW e, \A i \in Ids : e[i].path = d[i].path,
         NEW f, NEW m, Knows(q, d, f, m)
  PROVE  Knows(q, e, f, m)
<1>1. \A p : Holders(e, p) = Holders(d, p)
  BY HoldersSame
<1>2. Touches(q.in) \subseteq Ids
  BY DEF Touches, Input, Question, Elems
<1>3. \A p \in Doomed(q) : Spared(m, p) => p \in f /\ Holders(e, p) = {}
  BY <1>1 DEF Knows
<1> QED BY <1>2, <1>3, KnowsStays

LEMMA ApartBoth ==
  ASSUME NEW q, NEW o, NEW m, KeepApart(q, o, m)
  PROVE  KeepApart(o, q, m)
BY DEF KeepApart, Crosses

(* What is known of a request at work. *)
LEMMA ActiveOne ==
  ASSUME RequestsOK, NEW r \in Requests, Active(r)
  PROVE  /\ AtWork(req[r]) /\ req[r] \in Query /\ req[r].in \in Input
         /\ req[r].in.id \in Ids /\ req[r].in.op \in Ops /\ req[r].in.series \in SeriesInputs
         /\ Touches(req[r].in) \subseteq Ids /\ Touches(req[r].in) # {}
<1>1. AtWork(req[r]) /\ req[r] \in Query /\ req[r].in \in Input
  BY Working DEF Active, AtWork, QueryOK
<1>2. req[r].in.id \in Ids /\ req[r].in.op \in Ops /\ req[r].in.ids \in Seq(Ids)
      /\ req[r].in.series \in SeriesInputs
  BY <1>1 DEF Input, Question
<1>3. Touches(req[r].in) \subseteq Ids /\ req[r].in.id \in Touches(req[r].in)
  BY <1>2 DEF Touches, Elems
<1> QED BY <1>1, <1>2, <1>3

(* One request at work makes a step, the others go on. *)
LEMMA OrderStep ==
  ASSUME RequestsOK, InOrder, NEW r \in Requests, NEW p, Go(r, p), move' = move,
         p = Done \/ Knows(p, doc', files', move),
         Ground(doc', files', move),
         \A u \in Requests \ {r} : Active(u) =>
            Knows(req[u], doc', files', move) /\ (p = Done \/ KeepApart(p, req[u], move))
  PROVE  InOrder'
<1>1. req' = [req EXCEPT ![r] = p] /\ req \in [Requests -> Query]
  BY DEF Go, RequestsOK
<1>2. req'[r] = p /\ \A u \in Requests \ {r} : req'[u] = req[u]
  BY <1>1
<1>3. \A u \in Requests : Active(u)' =>
        \/ u # r /\ Active(u) /\ req'[u] = req[u]
        \/ u = r /\ p # Done /\ req'[u] = p
  BY <1>2, DoneIs DEF Active
<1>4. \A u \in Requests : Active(u)' => Knows(req'[u], doc', files', move)
  BY <1>3
<1>5. ASSUME NEW u \in Requests, NEW w \in Requests, u # w, Active(u)', Active(w)'
      PROVE  KeepApart(req'[u], req'[w], move)
  <2>1. CASE u # r /\ w # r
    BY <1>3, <1>5, <2>1 DEF InOrder
  <2>2. CASE u = r
    BY <1>3, <1>5, <2>2
  <2>3. CASE w = r
    <3>1. KeepApart(req'[w], req'[u], move)
      BY <1>3, <1>5, <2>3
    <3> QED BY <3>1, ApartBoth
  <2> QED BY <2>1, <2>2, <2>3
<1> QED BY <1>4, <1>5 DEF InOrder

(* A step that leaves paths and files alone. *)
LEMMA CalmStep ==
  ASSUME RequestsOK, MoveOK, MoveShape, InOrder, NEW r \in Requests, Active(r),
         NEW p, Go(r, p), move' = move, files' = files,
         \A i \in Ids : doc'[i].path = doc[i].path,
         \/ p = Done
         \/ Knows(p, doc, files, move) /\ Doomed(p) \subseteq Doomed(req[r]) /\ p.in = req[r].in
  PROVE  InOrder'
<1>1. Ground(doc', files', move)
  BY GroundSame DEF InOrder
<1>2. \A u \in Requests : Active(u) => Knows(req[u], doc', files', move)
  <2> TAKE u \in Requests
  <2> HAVE Active(u)
  <2>1. req[u].in \in Input /\ Knows(req[u], doc, files, move)
    BY ActiveOne DEF InOrder
  <2> QED BY <2>1, KnowsSame
<1>3. p = Done \/ Knows(p, doc', files', move)
  <2>1. req[r].in \in Input
    BY ActiveOne
  <2> QED BY <2>1, KnowsSame
<1>4. \A u \in Requests \ {r} : Active(u) => p = Done \/ KeepApart(p, req[u], move)
  BY DEF InOrder, KeepApart
<1> QED BY <1>1, <1>2, <1>3, <1>4, OrderStep

(* The same of a request that goes ahead. *)
LEMMA AheadStep ==
  ASSUME RequestsOK, MoveOK, MoveShape, InOrder, NEW r \in Requests, Active(r),
         NEW p, Go(r, p), move' = move, files' = files,
         \A i \in Ids : doc'[i].path = doc[i].path,
         GoesAhead(req[r], p), req[r].in.op = "delete" => req[r].pc \notin {"lock", "remove"}
  PROVE  InOrder'
<1>1. req[r] \in Query /\ req[r].in.op \in Ops /\ Knows(req[r], doc, files, move)
  BY ActiveOne DEF InOrder
<1>2. p # Done => Knows(p, doc, files, move) /\ Doomed(p) \subseteq Doomed(req[r])
                  /\ p.in = req[r].in
  BY <1>1, AheadKnows
<1> QED BY <1>2, CalmStep

-----------------------------------------------------------------------------
(* The calls that leave the paths of the records and the files alone. *)

LEMMA CalmRows ==
  ASSUME CatalogueInv, RowsInv, NEW r \in Requests, Active(r), NEW p, Go(r, p),
         UNCHANGED <<files, move, contended>>, \A i \in Ids : doc'[i].path = doc[i].path,
         InOrder => \/ p = Done
                    \/ /\ Knows(p, doc, files, move) /\ p.in = req[r].in
                       /\ Doomed(p) \subseteq Doomed(req[r])
  PROVE  RowsInv'
<1>1. RequestsOK /\ MoveOK /\ MoveShape
  BY DEF CatalogueInv, Kept, RowsInv
<1>2. OnePath(doc') /\ MoveShape'
  BY HoldersSame DEF RowsInv, MoveShape
<1>3. ~contended' => InOrder'
  BY <1>1, CalmStep DEF RowsInv
<1> QED BY <1>2, <1>3 DEF RowsInv

LEMMA AheadRows ==
  ASSUME CatalogueInv, RowsInv, NEW r \in Requests, Active(r), NEW p, Go(r, p),
         UNCHANGED <<files, move, contended>>, \A i \in Ids : doc'[i].path = doc[i].path,
         InOrder => GoesAhead(req[r], p),
         req[r].in.op = "delete" => req[r].pc \notin {"lock", "remove"}
  PROVE  RowsInv'
<1>1. RequestsOK /\ MoveOK /\ MoveShape
  BY DEF CatalogueInv, Kept, RowsInv
<1>2. OnePath(doc') /\ MoveShape'
  BY HoldersSame DEF RowsInv, MoveShape
<1>3. ~contended' => InOrder'
  BY <1>1, AheadStep DEF RowsInv
<1> QED BY <1>2, <1>3 DEF RowsInv

(* Only some operations come to the series. *)
LEMMA SerialOnes ==
  ASSUME RequestsOK, InOrder, NEW r \in Requests, req[r].pc \in Assigning
  PROVE  /\ Active(r) /\ req[r].in.op \in Serial
         /\ req[r].pc \in {"resolve", "target", "place"} => req[r].in.op \in {"edit", "batch update"}
<1>1. Active(r)
  BY DEF Active, Assigning, Pulling
<1>2. req[r].in.op \in Ops /\ Knows(req[r], doc, files, move)
  BY <1>1, ActiveOne DEF InOrder
<1>3. req[r].pc \in PcsOf(req[r].in.op)
  BY <1>2 DEF Knows
<1> QED BY <1>1, <1>2, <1>3 DEF Viewing, PcsOf, Ops, Assigning, Pulling, Counts, Serial

(* The calls on the series. *)
LEMMA ResolveRows ==
  ASSUME CatalogueInv, RowsInv, NEW r \in Requests, Resolve(r)
  PROVE  RowsInv'
<1> DEFINE q == req[r]
           named == IF q.in.op = "edit" /\ q.in.series = "clear" THEN {q.in.id}
                    ELSE Elems(q.in.ids)
           there == {i \in named : Exists(i)}
           back == [i \in Ids |-> doc[i].series]
           refs == {i \in there : doc[i].series # None}
           known == [q EXCEPT !.back = back]
           order == Resolved(q.in.ids, there)
           asked == [known EXCEPT !.pc = "target", !.order = order]
           pulls == [known EXCEPT !.ids = there, !.refs = refs]
           p == IF q.in.series = "assign" THEN asked ELSE ToPull(pulls)
<1>1. q.pc = "resolve" /\ UNCHANGED <<doc, files, move, contended>> /\ Go(r, p)
  BY DEF Resolve, dataVars
<1>2. RequestsOK /\ DataOK /\ Active(r)
  BY <1>1 DEF CatalogueInv, Kept, Active
<1>3. AtWork(q) /\ q \in Query /\ IsInjectiveSeq(q.order) /\ IsInjectiveSeq(q.placed)
  BY <1>2, ActiveOne DEF AtWork, QueryOK
<1>4. there \in SUBSET Ids /\ refs \in SUBSET Ids /\ back \in [Ids -> Series \cup {None}]
      /\ order \in Seq(Ids)
  <2>1. q.in.id \in Ids /\ q.in.ids \in Seq(Ids)
    BY <1>3 DEF AtWork, Input, Question
  <2>2. there \in SUBSET Ids /\ refs \in SUBSET Ids
    BY <2>1 DEF Elems
  <2>3. back \in [Ids -> Series \cup {None}]
    BY <1>2 DEF DataOK, Rec
  <2> QED BY <2>1, <2>2, <2>3, ResolvedLists
<1> HIDE DEF q, there, back, refs, order
<1>5. known \in Query /\ known.pc = q.pc /\ known.in = q.in /\ known.seen = q.seen
      /\ known.order = q.order /\ known.placed = q.placed /\ SameCopies(q, known)
  BY <1>3, <1>4 DEF Query, SameCopies
<1> HIDE DEF known
<1>6. /\ asked.pc = "target" /\ SameCopies(q, asked)
      /\ pulls \in Query /\ pulls.pc = q.pc /\ pulls.in = q.in /\ pulls.seen = q.seen
      /\ pulls.order = q.order /\ pulls.placed = q.placed /\ SameCopies(q, pulls)
  BY <1>4, <1>5 DEF Query, SameCopies
<1> HIDE DEF asked, pulls
<1>7. AtWork(pulls)
  BY <1>1, <1>3, <1>6, Changed
<1>8. ASSUME InOrder PROVE GoesAhead(q, p)
  <2>1. q.in.op \in {"edit", "batch update"}
    BY <1>1, <1>2, <1>8, SerialOnes DEF q, Assigning
  <2>2. GoesAhead(q, asked)
    <3>1. "target" \in PcsOf(q.in.op) \cap Ahead
      BY <2>1 DEF Viewing, PcsOf, Ahead, Assigning
    <3> QED BY <1>6, <3>1 DEF GoesAhead
  <2>3. GoesAhead(q, ToPull(pulls))
    <3>1. pulls.in.op \in Serial
      BY <1>6, <2>1 DEF Serial
    <3> QED BY <1>6, <1>7, <3>1, PullAhead, SameAhead
  <2> QED BY <2>2, <2>3
<1> HIDE DEF p
<1> QED BY <1>1, <1>2, <1>8, AheadRows DEF q

LEMMA FindTargetRows ==
  ASSUME CatalogueInv, RowsInv, NEW r \in Requests, FindTarget(r)
  PROVE  RowsInv'
<1> DEFINE q == req[r]
           target == IF Named(q.in.name) = {} THEN None
                     ELSE CHOOSE s \in Named(q.in.name) : TRUE
           members == IF target = None THEN <<>> ELSE list[target]
           placed == Place(members, q.order)
           settled == [q EXCEPT !.target = target]
           stored == [q EXCEPT !.pc = "place", !.target = target, !.members = members,
                               !.placed = placed]
<1>1. /\ q.pc = "target" /\ UNCHANGED <<doc, files, move, contended>>
      /\ \/ Go(r, AfterSeries(settled)) \/ Go(r, stored) \/ Go(r, ToJoin(q, target))
  BY DEF FindTarget, dataVars
<1>2. RequestsOK /\ DataOK /\ Active(r)
  BY <1>1 DEF CatalogueInv, Kept, Active
<1>3. AtWork(q) /\ q \in Query /\ IsInjectiveSeq(q.order) /\ IsInjectiveSeq(q.placed)
  BY <1>2, ActiveOne DEF AtWork, QueryOK
<1>4. target \in Series \cup {None}
  BY <1>2 DEF Named, DataOK
<1> HIDE DEF q, target, members, placed
<1>5. settled \in Query /\ settled.pc = q.pc /\ settled.in = q.in /\ settled.seen = q.seen
      /\ settled.order = q.order /\ settled.placed = q.placed /\ SameCopies(q, settled)
  BY <1>3, <1>4 DEF Query, SameCopies
<1>6. stored.pc = "place" /\ SameCopies(q, stored)
  BY <1>3 DEF Query, SameCopies
<1> HIDE DEF settled, stored
<1>7. AtWork(settled)
  BY <1>1, <1>3, <1>5, Changed
<1>8. ASSUME InOrder
      PROVE  GoesAhead(q, AfterSeries(settled)) /\ GoesAhead(q, stored) /\ GoesAhead(q, ToJoin(q, target))
  <2>1. q.in.op \in {"edit", "batch update"} /\ q.in.op \in Serial /\ settled.in.op \in Serial
    BY <1>1, <1>2, <1>5, <1>8, SerialOnes DEF q, Assigning
  <2>2. GoesAhead(q, AfterSeries(settled))
    BY <1>5, <1>7, <2>1, SeriesAhead, SameAhead
  <2>3. GoesAhead(q, stored)
    <3>1. "place" \in PcsOf(q.in.op) \cap Ahead
      BY <2>1 DEF Viewing, PcsOf, Ahead, Assigning
    <3> QED BY <1>6, <3>1 DEF GoesAhead
  <2>4. GoesAhead(q, ToJoin(q, target))
    BY <1>3, <1>4, <2>1, JoinAhead
  <2> QED BY <2>2, <2>3, <2>4
<1>9. PICK p : Go(r, p) /\ (InOrder => GoesAhead(q, p))
  BY <1>1, <1>8
<1> QED BY <1>1, <1>2, <1>9, AheadRows DEF q

(* The list is written, and the _pull comes next. *)
LEMMA PlaceRows ==
  ASSUME CatalogueInv, RowsInv, NEW r \in Requests, InsertSeries(r) \/ SetMembers(r)
  PROVE  RowsInv'
<1> DEFINE q == req[r]
<1>1. /\ q.pc = "place" /\ UNCHANGED <<doc, files, move, contended>>
      /\ \/ Go(r, Done)
         \/ \E s \in Series \cup {None} : Go(r, ToJoin(q, s))
  <2>1. ASSUME InsertSeries(r)
        PROVE  /\ q.pc = "place" /\ UNCHANGED <<doc, files, move, contended>>
               /\ \/ Go(r, Done)
                  \/ \E s \in unborn : Go(r, ToJoin(q, s))
    BY <2>1 DEF InsertSeries, Finish
  <2>2. ASSUME SetMembers(r)
        PROVE  /\ q.pc = "place" /\ UNCHANGED <<doc, files, move, contended>>
               /\ Go(r, ToJoin(q, q.target))
    BY <2>2 DEF SetMembers
  <2>3. unborn \subseteq Series
    BY DEF CatalogueInv, Kept, DataOK
  <2>4. q.target \in Series \cup {None}
    BY DEF CatalogueInv, Kept, RequestsOK, Query
  <2> QED BY <2>1, <2>2, <2>3, <2>4
<1>2. RequestsOK /\ Active(r)
  BY <1>1 DEF CatalogueInv, Kept, Active
<1>3. AtWork(q) /\ q \in Query
  BY <1>2, ActiveOne
<1>4. ASSUME InOrder PROVE \A s \in Series \cup {None} : GoesAhead(q, ToJoin(q, s))
  <2>1. q.in.op \in Serial
    BY <1>1, <1>2, <1>4, SerialOnes DEF Assigning
  <2> HIDE DEF q
  <2> QED BY <1>3, <2>1, JoinAhead
<1>5. PICK p : Go(r, p) /\ (InOrder => GoesAhead(q, p))
  BY <1>1, <1>4 DEF GoesAhead
<1> QED BY <1>1, <1>2, <1>5, AheadRows

(* The calls of a _pull, and the back-references. *)
LEMMA PullRows ==
  ASSUME CatalogueInv, RowsInv, NEW r \in Requests,
         FindAffected(r) \/ PullIds(r) \/ SweepSeries(r) \/ Refer(r)
  PROVE  RowsInv'
<1> DEFINE q == req[r]
           affected == {s \in alive \ {q.target} : Elems(list[s]) \cap q.ids # {}}
           found == [q EXCEPT !.pc = "pull", !.affected = affected]
           swept == [q EXCEPT !.pc = "sweep"]
<1>1. /\ q.pc \in Pulling /\ UNCHANGED <<files, move, contended>>
      /\ \/ Go(r, AfterPull(q)) \/ Go(r, found) \/ Go(r, swept) \/ Go(r, AfterSeries(q))
  <2>1. FindAffected(r) => /\ q.pc = "affected" /\ UNCHANGED <<files, move, contended>>
                           /\ Go(r, AfterPull(q)) \/ Go(r, found)
    BY DEF FindAffected, dataVars
  <2>2. PullIds(r) => q.pc = "pull" /\ UNCHANGED <<files, move, contended>> /\ Go(r, swept)
    BY DEF PullIds
  <2>3. SweepSeries(r) =>
          q.pc = "sweep" /\ UNCHANGED <<files, move, contended>> /\ Go(r, AfterPull(q))
    BY DEF SweepSeries
  <2>4. Refer(r) => q.pc = "refer" /\ UNCHANGED <<files, move, contended>> /\ Go(r, AfterSeries(q))
    BY DEF Refer
  <2> QED BY <2>1, <2>2, <2>3, <2>4 DEF Pulling
<1>2. RequestsOK /\ DataOK /\ Active(r)
  BY <1>1 DEF CatalogueInv, Kept, Active, Pulling
<1>3. AtWork(q) /\ q \in Query
  BY <1>2, ActiveOne
<1>4. \A i \in Ids : doc'[i].path = doc[i].path
  <2>1. FindAffected(r) \/ PullIds(r) \/ SweepSeries(r) => doc' = doc
    BY DEF FindAffected, PullIds, SweepSeries, dataVars
  <2>2. ASSUME Refer(r) PROVE \A i \in Ids : doc'[i].path = doc[i].path
    <3>1. doc' = [i \in Ids |-> IF i \in q.refs /\ Exists(i)
                                THEN [doc[i] EXCEPT !.series = q.target] ELSE doc[i]]
      BY <2>2 DEF Refer
    <3>2. \A i \in Ids : [doc[i] EXCEPT !.series = q.target].path = doc[i].path
      BY <1>2 DEF DataOK, Rec
    <3> QED BY <3>1, <3>2
  <2> QED BY <2>1, <2>2
<1> HIDE DEF q, affected
<1>5. ASSUME InOrder
      PROVE  /\ GoesAhead(q, AfterPull(q)) /\ GoesAhead(q, found) /\ GoesAhead(q, swept)
             /\ GoesAhead(q, AfterSeries(q))
  <2>1. q.in.op \in Serial
    BY <1>1, <1>2, <1>5, SerialOnes DEF q, Assigning
  <2>2. {"pull", "sweep"} \subseteq PcsOf(q.in.op) \cap Ahead
    BY <2>1 DEF Viewing, PcsOf, Ahead, Serial, Assigning, Pulling
  <2>3. found.pc = "pull" /\ SameCopies(q, found)
    BY <1>3 DEF Query, SameCopies
  <2>4. GoesAhead(q, found)
    BY <2>2, <2>3 DEF GoesAhead
  <2>5. GoesAhead(q, swept)
    BY <1>3, <2>2, PcAhead
  <2> QED BY <1>3, <2>1, <2>4, <2>5, PullAhead, SeriesAhead
<1> HIDE DEF found, swept
<1>6. PICK p : Go(r, p) /\ (InOrder => GoesAhead(q, p))
  BY <1>1, <1>5
<1>7. q.pc \notin {"lock", "remove"}
  BY <1>1 DEF Pulling
<1> QED BY <1>1, <1>2, <1>4, <1>6, <1>7, AheadRows DEF q

(* The counters, and the record saved whole. *)
LEMMA CountRows ==
  ASSUME CatalogueInv, RowsInv, NEW r \in Requests, CountTags(r) \/ PruneTags(r)
  PROVE  RowsInv'
<1> DEFINE q == req[r]
<1>1. /\ q.pc \in Counts /\ UNCHANGED <<doc, files, move, contended>>
      /\ Go(r, [q EXCEPT !.pc = "prune"]) \/ Go(r, AfterCount(q))
  BY DEF CountTags, PruneTags, Counts
<1>2. RequestsOK /\ Active(r)
  BY <1>1 DEF CatalogueInv, Kept, Active, Counts
<1>3. q \in Query /\ q.in.op \in Ops
  BY <1>2, ActiveOne
<1>4. ASSUME InOrder
      PROVE  GoesAhead(q, [q EXCEPT !.pc = "prune"]) /\ GoesAhead(q, AfterCount(q))
  <2>1. q.pc \in PcsOf(q.in.op)
    BY <1>2, <1>4 DEF InOrder, Knows
  <2>2. q.in.op \in Serial \cup {"directory update"}
    BY <1>1, <1>3, <2>1 DEF Viewing, PcsOf, Ops, Serial, Counts
  <2>3. "prune" \in PcsOf(q.in.op) \cap Ahead
    BY <2>2 DEF Viewing, PcsOf, Ahead, Serial, Counts
  <2> HIDE DEF q
  <2> QED BY <1>3, <2>2, <2>3, PcAhead, CountAhead
<1>5. PICK p : Go(r, p) /\ (InOrder => GoesAhead(q, p))
  BY <1>1, <1>4
<1>6. q.pc \notin {"lock", "remove"}
  BY <1>1 DEF Counts
<1> QED BY <1>1, <1>2, <1>5, <1>6, AheadRows

(* A save that finds its record where it was read leaves every path; one   *)
(* that makes a record again never makes a second one for a path.          *)
LEMMA SaveRows ==
  ASSUME CatalogueInv, RowsInv, NEW r \in Requests, Save(r)
  PROVE  RowsInv'
<1> DEFINE q == req[r]  i == q.in.id
           p == IF q.delta = NoChange THEN Done ELSE [q EXCEPT !.pc = "count"]
<1>1. /\ q.pc = "save" /\ UNCHANGED <<files, move, contended>>
      /\ \/ At(q.seen[i].path) \subseteq {i} /\ doc' = [doc EXCEPT ![i] = q.seen[i]] /\ Go(r, p)
         \/ doc' = doc /\ Go(r, Done)
  BY DEF Save, SaveTakes, Finish
<1>2. RequestsOK /\ DataOK /\ Active(r)
  BY <1>1 DEF CatalogueInv, Kept, Active
<1>3. q \in Query /\ q.in.op \in Ops /\ i \in Ids /\ doc \in [Ids -> Rec] /\ q.in.op \in OneRecord
  BY <1>1, <1>2, ActiveOne DEF DataOK, AtWork, QueryOK
<1>4. OnePath(doc')
  <2>1. CASE doc' = doc
    BY <2>1 DEF RowsInv
  <2>2. CASE At(q.seen[i].path) \subseteq {i} /\ doc' = [doc EXCEPT ![i] = q.seen[i]]
    <3>1. \A j \in Ids : doc'[j] = IF j = i THEN q.seen[i] ELSE doc[j]
      BY <1>3, <2>2
    <3>2. \A j \in Ids \ {i} : doc[j].path # q.seen[i].path
      BY <2>2 DEF At
    <3> HIDE DEF q, i
    <3> QED BY <1>3, <3>1, <3>2 DEF RowsInv, OnePath
  <2> QED BY <1>1, <2>1, <2>2
<1>5. ASSUME InOrder PROVE \A j \in Ids : doc'[j].path = doc[j].path
  <2>1. doc[i].path = q.seen[i].path
    BY <1>2, <1>3, <1>5 DEF InOrder, Knows, ByOne
  <2> QED BY <1>1, <1>3, <2>1
<1>6. ASSUME InOrder PROVE GoesAhead(q, p) /\ GoesAhead(q, Done)
  <2>1. q.pc \in PcsOf(q.in.op)
    BY <1>2, <1>6 DEF InOrder, Knows
  <2>2. q.in.op = "edit" => "count" \in PcsOf(q.in.op) \cap Ahead
    BY DEF Viewing, PcsOf, Ahead, Counts
  <2>3. q.in.op = "edit" => GoesAhead(q, p)
    <3> HIDE DEF q
    <3> QED BY <1>3, <2>2, PcAhead DEF GoesAhead
  <2>4. q.in.op # "edit" => p = Done
    <3>1. q.in.op # "edit" => q.in.op \in Viewing
      BY <1>3 DEF OneRecord, Viewing
    <3>2. q.in.op \in Viewing => q.delta = NoChange
      BY <1>2, <1>6 DEF InOrder, Knows
    <3> QED BY <3>1, <3>2
  <2> QED BY <2>3, <2>4 DEF GoesAhead
<1>7. PICK o : Go(r, o) /\ (InOrder => GoesAhead(q, o))
  BY <1>1, <1>6
<1>8. ~contended' => InOrder'
  <2>1. RequestsOK /\ MoveOK /\ MoveShape /\ (~contended => InOrder)
    BY DEF CatalogueInv, Kept, RowsInv
  <2> QED BY <1>1, <1>2, <1>5, <1>7, <2>1, AheadStep
<1>9. MoveShape'
  BY <1>1 DEF RowsInv, MoveShape
<1> QED BY <1>4, <1>8, <1>9 DEF RowsInv

(* Locks: a request that goes on to delete by _id found its paths free. *)
LEMMA CheckLocksRows ==
  ASSUME CatalogueInv, RowsInv, NEW r \in Requests, CheckLocks(r)
  PROVE  RowsInv'
<1> DEFINE q == req[r]
           Free == \A x \in SeenPaths(q) : ~Locked(x)
           remove == [q EXCEPT !.pc = "remove"]  read == [q EXCEPT !.pc = "read"]
<1>1. /\ q.pc = "lock" /\ UNCHANGED <<doc, files, move, contended>>
      /\ \/ Go(r, Done)
         \/ q.in.op = "edit" /\ Go(r, ToSeries(Edited(q)))
         \/ Free /\ q.in.op = "delete" /\ Go(r, remove)
         \/ Free /\ q.in.op \notin {"edit", "delete"} /\ Go(r, read)
  BY DEF CheckLocks, dataVars
<1>2. RequestsOK /\ DataOK /\ Active(r)
  BY <1>1 DEF CatalogueInv, Kept, Active
<1>3. /\ AtWork(q) /\ q \in Query /\ q.in.op \in Ops /\ q.in.id \in Ids
      /\ q.in.series \in SeriesInputs /\ Elems(q.in.ids) \subseteq Ids
  <2>1. Touches(q.in) \subseteq Ids
    BY <1>2, ActiveOne
  <2>2. q.in.ids \in Seq(Ids)
    BY <1>2, ActiveOne DEF Input, Question
  <2> QED BY <1>2, <2>2, ActiveOne DEF Elems
<1>4. InOrder => Knows(q, doc, files, move)
  BY <1>2 DEF InOrder
<1>5. ASSUME q.in.op = "edit", Go(r, ToSeries(Edited(q))) PROVE RowsInv'
  <2>1. AtWork(Edited(q)) /\ Edited(q) \in Query
    <3> HIDE DEF q
    <3> QED BY <1>1, <1>3, EditedOK DEF AtWork, QueryOK
  <2>2. Edited(q).in = q.in /\ SameCopies(q, Edited(q))
    <3> DEFINE delta == TagDelta(q, [j \in Ids |-> q.in.add])
               e == [q.seen EXCEPT ![q.in.id].tags = q.in.add]
    <3>1. Edited(q) = [q EXCEPT !.seen = e, !.delta = delta]
      BY <1>3 DEF Edited, Query
    <3>2. e[q.in.id].path = q.seen[q.in.id].path
      BY <1>3 DEF Query, Rec
    <3> HIDE DEF q, e, delta
    <3>3. /\ Edited(q).seen = e /\ Edited(q).in = q.in /\ Edited(q).found = q.found
          /\ Edited(q).held = q.held
      BY <1>3, <3>1 DEF Query
    <3> QED BY <1>5, <3>2, <3>3 DEF SameCopies, Viewing
  <2>3. GoesAhead(q, ToSeries(Edited(q)))
    BY <1>3, <1>5, <2>1, <2>2, ToSeriesAhead, SameAhead
  <2> QED BY <1>1, <1>2, <1>5, <2>3, AheadRows
<1>6. ASSUME Free, q.in.op = "delete", Go(r, remove) PROVE RowsInv'
  <2>1. ASSUME InOrder
        PROVE  /\ Knows(remove, doc, files, move) /\ remove.in = q.in
               /\ Doomed(remove) \subseteq Doomed(q)
    <3>1. /\ remove.in = q.in /\ remove.pc = "remove" /\ remove.seen = q.seen
          /\ remove.found = q.found
      BY <1>3 DEF Query
    <3>2. doc[q.in.id].path = q.seen[q.in.id].path /\ doc[q.in.id].path # None
      BY <1>1, <1>4, <1>6, <2>1 DEF Knows, ByOne
    <3>3. ~LockedBy(move, doc[q.in.id].path)
      <4>1. doc[q.in.id].path \in SeenPaths(q)
        BY <1>3, <3>2 DEF SeenPaths, Seen
      <4> QED BY <1>6, <4>1 DEF Locked, Moving, LockedBy, UnderWay
    <3>4. Condemned(q.in) = {q.in.id} /\ "remove" \in PcsOf(q.in.op)
      BY <1>6 DEF Condemned, PcsOf, Viewing
    <3>5. Doomed(remove) = {}
      BY <1>6, <3>1 DEF Doomed
    <3> HIDE DEF q, remove, Free
    <3> QED BY <1>6, <3>1, <3>2, <3>3, <3>4, <3>5 DEF Knows, ByOne, OneRecord, WholeDir, Viewing
  <2> QED BY <1>1, <1>2, <1>6, <2>1, CalmRows
<1>7. ASSUME Free, q.in.op \notin {"edit", "delete"}, Go(r, read) PROVE RowsInv'
  <2>1. ASSUME InOrder
        PROVE  /\ Knows(read, doc, files, move) /\ read.in = q.in
               /\ Doomed(read) \subseteq Doomed(q)
    <3>1. /\ read.in = q.in /\ read.pc = "read" /\ read.seen = q.seen
          /\ read.found = q.found
      BY <1>3 DEF Query
    <3>2. q.in.op \in {"batch update", "batch delete"}
      BY <1>1, <1>3, <1>4, <1>7, <2>1 DEF Knows, PcsOf, Ops, Viewing, Assigning, Pulling, Counts
    <3>3. \A i \in Condemned(q.in) : ~LockedBy(move, doc[i].path)
      <4> TAKE i \in Condemned(q.in)
      <4>1. q.in.op = "batch delete" /\ i \in Elems(q.in.ids) /\ i \in Ids
        BY <1>3, <3>2 DEF Condemned
      <4>2. doc[i].path = q.seen[i].path
        BY <1>1, <1>4, <2>1, <4>1 DEF Knows
      <4>3. doc[i].path # None => doc[i].path \in SeenPaths(q)
        BY <4>1, <4>2 DEF SeenPaths, Seen
      <4>4. doc[i].path = None => ~LockedBy(move, doc[i].path)
        BY CatalogueAssumption DEF LockedBy, UnderWay, CatalogueInv, MoveSet
      <4> QED BY <1>7, <4>3, <4>4 DEF Locked, Moving, LockedBy, UnderWay
    <3>4. "read" \in PcsOf(q.in.op)
      BY <3>2 DEF PcsOf, Viewing
    <3>5. Doomed(read) = {}
      BY <3>1, <3>2 DEF Doomed
    <3>6. q.in.op = "batch delete" =>
            /\ Seen(read) \subseteq Elems(q.in.ids)
            /\ \A i \in Elems(q.in.ids) : doc[i].path = q.seen[i].path
      BY <1>1, <1>4, <2>1, <3>1 DEF Knows, Seen
    <3> HIDE DEF q, read, Free
    <3> QED BY <3>1, <3>2, <3>3, <3>4, <3>5, <3>6 DEF Knows, ByOne, OneRecord, WholeDir, Viewing
  <2> QED BY <1>1, <1>2, <1>7, <2>1, CalmRows
<1>8. ASSUME Go(r, Done) PROVE RowsInv'
  BY <1>1, <1>2, <1>8, CalmRows
<1> QED BY <1>1, <1>5, <1>6, <1>7, <1>8

LEMMA CheckOthersRows ==
  ASSUME CatalogueInv, RowsInv, NEW r \in Requests, CheckOthers(r) \/ CheckForeign(r)
  PROVE  RowsInv'
<1> DEFINE q == req[r]
           back == [i \in Ids |-> doc[i].series]
           known == [q EXCEPT !.pc = "foreign", !.back = back]
           resolve == [q EXCEPT !.pc = "resolve"]
<1>1. /\ q.pc \in {"others", "foreign"} /\ UNCHANGED <<doc, files, move, contended>>
      /\ Go(r, Done) \/ Go(r, known) \/ Go(r, resolve)
  BY DEF CheckOthers, CheckForeign, dataVars
<1>2. RequestsOK /\ Active(r)
  BY <1>1 DEF CatalogueInv, Kept, Active
<1>3. q \in Query /\ q.in.op \in Ops
  BY <1>2, ActiveOne
<1> HIDE DEF back
<1>4. ASSUME InOrder PROVE GoesAhead(q, known) /\ GoesAhead(q, resolve)
  <2>1. q.pc \in PcsOf(q.in.op)
    BY <1>2, <1>4 DEF InOrder, Knows
  <2>2. q.in.op = "edit"
    BY <1>1, <1>3, <2>1 DEF PcsOf, Ops, Viewing, Assigning, Pulling, Counts
  <2>3. "resolve" \in PcsOf(q.in.op) \cap Ahead /\ "foreign" \in PcsOf(q.in.op) \cap Ahead
    BY <2>2 DEF PcsOf, Viewing, Ahead, Assigning
  <2> HIDE DEF q
  <2>4. known.pc = "foreign" /\ SameCopies(q, known)
    BY <1>3 DEF Query, SameCopies
  <2> QED BY <1>3, <2>3, <2>4, PcAhead DEF GoesAhead
<1> HIDE DEF known, resolve
<1>5. PICK p : Go(r, p) /\ (InOrder => GoesAhead(q, p))
  BY <1>1, <1>4 DEF GoesAhead
<1>6. q.pc \notin {"lock", "remove"}
  BY <1>1
<1> QED BY <1>1, <1>2, <1>5, <1>6, AheadRows

(* The listing knows which of its files are locked. *)
LEMMA CheckListingRows ==
  ASSUME CatalogueInv, RowsInv, NEW r \in Requests, CheckListing(r)
  PROVE  RowsInv'
<1> DEFINE q == req[r]
           held == {x \in q.found : Locked(x)}
           p == [q EXCEPT !.pc = "find", !.held = held]
<1>1. q.pc = "locks" /\ UNCHANGED <<doc, files, move, contended>> /\ Go(r, p)
  BY DEF CheckListing, dataVars
<1>2. RequestsOK /\ Active(r)
  BY <1>1 DEF CatalogueInv, Kept, Active
<1>3. q \in Query /\ q.in.op \in Ops
  BY <1>2, ActiveOne
<1>4. ASSUME InOrder
      PROVE  Knows(p, doc, files, move) /\ p.in = q.in /\ Doomed(p) \subseteq Doomed(q)
  <2>1. Knows(q, doc, files, move) /\ q.pc \in PcsOf(q.in.op)
    BY <1>2, <1>4 DEF InOrder, Knows
  <2>2. q.in.op = "list"
    BY <1>1, <1>3, <2>1 DEF PcsOf, Ops, Viewing, Assigning, Pulling, Counts
  <2>3. held = {x \in q.found : LockedBy(move, x)}
    BY DEF Locked, Moving, LockedBy, UnderWay
  <2> HIDE DEF q, held
  <2>4. p.in = q.in /\ p.pc = "find" /\ p.found = q.found /\ p.held = held
    BY <1>3 DEF Query
  <2> HIDE DEF p
  <2>5. Doomed(p) = {}
    BY <2>2, <2>4 DEF Doomed
  <2>6. "find" \in PcsOf(p.in.op)
    BY <2>2, <2>4 DEF PcsOf, Viewing
  <2>7. ~ByOne(p)
    BY <2>2, <2>4 DEF ByOne, OneRecord
  <2>8. q.found \subseteq files
    BY <2>1, <2>2 DEF Knows
  <2>9. p.in.op = "list"
    BY <2>2, <2>4
  <2>10. p.in.op \notin Viewing /\ ~WholeDir(p.in)
    BY <2>9 DEF Viewing, WholeDir
  <2> QED BY <2>3, <2>4, <2>5, <2>6, <2>7, <2>8, <2>9, <2>10 DEF Knows
<1> HIDE DEF p, q
<1>5. PICK o : Go(r, o) /\ (InOrder => /\ Knows(o, doc, files, move) /\ o.in = q.in
                                      /\ Doomed(o) \subseteq Doomed(q))
  BY <1>1, <1>4
<1> QED BY <1>1, <1>2, <1>5, CalmRows DEF q

(* A selection read again: what is about to be deleted is in the files     *)
(* found, or among the _ids asked for.                                     *)
LEMMA ReadSelectionRows ==
  ASSUME CatalogueInv, RowsInv, NEW r \in Requests, ReadSelection(r)
  PROVE  RowsInv'
<1> DEFINE q == req[r]
           byId == [q EXCEPT !.seen = ReadIds(Elems(q.in.ids))]
           byPath == [q EXCEPT !.seen = ReadPaths(q.found)]
           counting == Counting(byId)
           recounting == Counting(byPath)
           bulk == [recounting EXCEPT !.pc = "bulk"]
           removeIds == [byId EXCEPT !.pc = "remove"]
           removePaths == [byPath EXCEPT !.pc = "remove"]
           insert == [byPath EXCEPT !.pc = "insert"]
<1>1. /\ q.pc \in {"read", "find"} /\ UNCHANGED <<doc, files, move, contended>>
      /\ \/ q.in.op = "batch update" /\ Go(r, ToSeries(counting))
         \/ q.pc = "read" /\ q.in.op = "batch delete" /\ Go(r, removeIds)
         \/ Go(r, Done)
         \/ q.in.op = "directory update" /\ Go(r, bulk)
         \/ q.pc = "find" /\ q.in.op = "directory delete" /\ Go(r, removePaths)
         \/ q.pc = "find" /\ q.in.op = "list" /\ Go(r, insert)
  BY DEF ReadSelection, dataVars
<1>2. RequestsOK /\ DataOK /\ Active(r)
  BY <1>1 DEF CatalogueInv, Kept, Active
<1>3. /\ AtWork(q) /\ q \in Query /\ q.in.op \in Ops /\ q.in.series \in SeriesInputs
  BY <1>2, ActiveOne
<1>4. InOrder => Knows(q, doc, files, move)
  BY <1>2 DEF InOrder
<1>5. ReadIds(Elems(q.in.ids)) \in [Ids -> Rec] /\ ReadPaths(q.found) \in [Ids -> Rec]
      /\ \A i \in fresh : /\ ReadIds(Elems(q.in.ids))[i].path = None
                          /\ ReadPaths(q.found)[i].path = None
  BY <1>2, ReadOK
<1>6. ASSUME NEW e \in [Ids -> Rec], \A i \in fresh : e[i].path = None, q.in.op \notin OneRecord
      PROVE  LET p == [q EXCEPT !.seen = e]
             IN  /\ AtWork(Counting(p)) /\ Counting(p) \in Query /\ Counting(p).in = q.in
                 /\ Counting(p).found = q.found /\ Counting(p).held = q.held
                 /\ p \in Query /\ p.in = q.in /\ p.found = q.found /\ p.held = q.held
                 /\ p.seen = e
  <2> DEFINE p == [q EXCEPT !.seen = e]
  <2>1. AtWork(p) /\ p.in = q.in /\ p.pc = q.pc
    <3>1. q.pc # "place"
      BY <1>1
    <3> HIDE DEF q, p
    <3>2. AtWork([q EXCEPT !.seen = e])
      BY <1>2, <1>3, <1>6, <3>1, RereadOK
    <3> QED BY <1>3, <3>2 DEF p, Query
  <2> HIDE DEF q
  <2>2. p \in Query /\ p.found = q.found /\ p.held = q.held /\ p.seen = e
    BY <1>3 DEF Query
  <2> HIDE DEF p
  <2>3. AtWork(Counting(p)) /\ Counting(p).in = q.in
    BY <1>1, <2>1, CountingOK DEF q
  <2>4. Counting(p).found = p.found /\ Counting(p).held = p.held
    BY <2>2 DEF Counting, Query
  <2> QED BY <2>1, <2>2, <2>3, <2>4 DEF AtWork, QueryOK, p
<1> HIDE DEF q
<1>7. ASSUME q.in.op = "batch update", Go(r, ToSeries(counting)) PROVE RowsInv'
  <2>1. counting \in Query /\ counting.in = q.in /\ SameCopies(q, counting)
    BY <1>5, <1>6, <1>7 DEF SameCopies, OneRecord, Viewing
  <2> HIDE DEF counting
  <2>2. GoesAhead(q, ToSeries(counting))
    BY <1>3, <1>7, <2>1, ToSeriesAhead, SameAhead
  <2> QED BY <1>1, <1>2, <1>7, <2>2, AheadRows DEF q
<1>8. ASSUME q.in.op = "directory update", Go(r, bulk) PROVE RowsInv'
  <2>1. recounting \in Query /\ recounting.in = q.in /\ SameCopies(q, recounting)
    BY <1>5, <1>6, <1>8 DEF SameCopies, OneRecord, Viewing
  <2> HIDE DEF recounting
  <2>2. "bulk" \in PcsOf(q.in.op) \cap Ahead
    BY <1>8 DEF PcsOf, Viewing, Ahead
  <2>3. GoesAhead(q, bulk)
    BY <2>1, <2>2, PcAhead, SameAhead
  <2> HIDE DEF bulk
  <2> QED BY <1>1, <1>2, <1>8, <2>3, AheadRows DEF q
<1>9. ASSUME q.pc = "read", q.in.op = "batch delete", Go(r, removeIds) PROVE RowsInv'
  <2> DEFINE e == ReadIds(Elems(q.in.ids))
  <2>1. /\ byId \in Query /\ byId.in = q.in /\ byId.found = q.found /\ byId.seen = e
    BY <1>5, <1>6, <1>9 DEF OneRecord
  <2> HIDE DEF byId
  <2>2. /\ removeIds.in = q.in /\ removeIds.seen = e /\ removeIds.pc = "remove"
    BY <2>1 DEF Query
  <2> HIDE DEF removeIds
  <2>3. \A i \in Elems(q.in.ids) : i \in Ids /\ e[i].path = doc[i].path
    <3>1. Elems(q.in.ids) \subseteq Ids
      BY <1>3 DEF AtWork, Input, Question, Elems
    <3> QED BY <3>1 DEF ReadIds
  <2>5. Seen(removeIds) \subseteq Elems(q.in.ids)
    BY <2>2 DEF Seen, ReadIds, NoRec
  <2> HIDE DEF e
  <2>4. ASSUME InOrder
        PROVE  /\ Knows(removeIds, doc, files, move) /\ removeIds.in = q.in
               /\ Doomed(removeIds) \subseteq Doomed(q)
    <3>1. \A i \in Condemned(q.in) : ~LockedBy(move, doc[i].path)
      BY <1>4, <1>9, <2>4 DEF Knows
    <3>2. Doomed(removeIds) = {}
      BY <1>9, <2>2 DEF Doomed
    <3>3. "remove" \in PcsOf(q.in.op) /\ ~ByOne(removeIds) /\ ~WholeDir(q.in) /\ q.in.op \notin Viewing
      BY <1>9, <2>2 DEF PcsOf, Viewing, ByOne, OneRecord, WholeDir
    <3> QED BY <1>9, <2>2, <2>3, <2>5, <3>1, <3>2, <3>3 DEF Knows
  <2> QED BY <1>1, <1>2, <1>9, <2>4, CalmRows DEF q
<1>10. ASSUME q.pc = "find", q.in.op = "directory delete", Go(r, removePaths) PROVE RowsInv'
  <2> DEFINE e == ReadPaths(q.found)
  <2>1. /\ byPath \in Query /\ byPath.in = q.in /\ byPath.found = q.found /\ byPath.seen = e
    BY <1>5, <1>6, <1>10 DEF OneRecord
  <2> HIDE DEF byPath
  <2>2. /\ removePaths.in = q.in /\ removePaths.seen = e /\ removePaths.pc = "remove"
        /\ removePaths.found = q.found
    BY <2>1 DEF Query
  <2> HIDE DEF removePaths
  <2>3. SeenPaths(removePaths) \subseteq q.found
    BY <2>2 DEF SeenPaths, Seen, ReadPaths, NoRec
  <2> HIDE DEF e
  <2>4. ASSUME InOrder
        PROVE  /\ Knows(removePaths, doc, files, move) /\ removePaths.in = q.in
               /\ Doomed(removePaths) \subseteq Doomed(q)
    <3>1. q.found \subseteq files /\ ~UnderWay(move)
      BY <1>4, <1>10, <2>4 DEF Knows, WholeDir
    <3>2. Doomed(removePaths) = {} /\ Condemned(q.in) = {}
      BY <1>10, <2>2 DEF Doomed, Condemned
    <3>3. "remove" \in PcsOf(q.in.op) /\ ~ByOne(removePaths) /\ q.in.op \notin Viewing
      BY <1>10, <2>2 DEF PcsOf, Viewing, ByOne, OneRecord
    <3> QED BY <1>10, <2>2, <2>3, <3>1, <3>2, <3>3 DEF Knows
  <2> QED BY <1>1, <1>2, <1>10, <2>4, CalmRows DEF q
<1>11. ASSUME q.pc = "find", q.in.op = "list", Go(r, insert) PROVE RowsInv'
  <2>1. /\ byPath \in Query /\ byPath.in = q.in /\ byPath.found = q.found /\ byPath.held = q.held
    BY <1>5, <1>6, <1>11 DEF OneRecord
  <2> HIDE DEF byPath
  <2>2. /\ insert.in = q.in /\ insert.pc = "insert" /\ insert.found = q.found /\ insert.held = q.held
    BY <2>1 DEF Query
  <2> HIDE DEF insert
  <2>3. ASSUME InOrder
        PROVE  /\ Knows(insert, doc, files, move) /\ insert.in = q.in
               /\ Doomed(insert) \subseteq Doomed(q)
    <3>1. q.found \subseteq files /\ q.held = {x \in q.found : LockedBy(move, x)}
      BY <1>4, <1>11, <2>3 DEF Knows
    <3>2. Doomed(insert) = {}
      BY <1>11, <2>2 DEF Doomed
    <3>3. "insert" \in PcsOf(q.in.op) /\ ~ByOne(insert) /\ ~WholeDir(q.in) /\ q.in.op \notin Viewing
      BY <1>11, <2>2 DEF PcsOf, Viewing, ByOne, OneRecord, WholeDir
    <3> QED BY <1>11, <2>2, <3>1, <3>2, <3>3 DEF Knows
  <2> QED BY <1>1, <1>2, <1>11, <2>3, CalmRows DEF q
<1>12. ASSUME Go(r, Done) PROVE RowsInv'
  BY <1>1, <1>2, <1>12, CalmRows
<1> QED BY <1>1, <1>7, <1>8, <1>9, <1>10, <1>11, <1>12

-----------------------------------------------------------------------------
(* The calls that make records, delete them, or delete files. *)

(* A request on a whole directory is alone. *)
LEMMA Alone ==
  ASSUME RequestsOK, InOrder, NEW r \in Requests, Active(r), ByDirectory(req[r].in)
  PROVE  \A u \in Requests \ {r} : ~Active(u)
<1> SUFFICES ASSUME NEW u \in Requests \ {r}, Active(u) PROVE FALSE
  OBVIOUS
<1>1. ~Crosses(req[r].in, req[u].in)
  BY DEF InOrder, KeepApart
<1>2. Touches(req[r].in) = Ids
  BY DEF Touches
<1>3. Touches(req[u].in) \subseteq Ids /\ Touches(req[u].in) # {}
  BY ActiveOne
<1> QED BY <1>1, <1>2, <1>3 DEF Crosses

(* Upserts make one record for each of the paths that had none. *)
LEMMA UpsertPaths ==
  ASSUME DataOK, OnePath(doc), NEW d, \A i \in Ids : d[i].path = doc[i].path,
         NEW paths \in SUBSET Paths, NEW tags, Upsert(d, paths, tags)
  PROVE  /\ OnePath(doc')
         /\ \A i \in Ids : \/ doc'[i].path = doc[i].path
                           \/ doc[i].path = None /\ doc'[i].path \in paths
<1>1. PICK ids \in [{p \in paths : At(p) = {}} -> fresh] :
        /\ \A p, o \in DOMAIN ids : ids[p] = ids[o] => p = o
        /\ doc' = [i \in Ids |->
                     IF \E p \in DOMAIN ids : ids[p] = i
                     THEN [path |-> CHOOSE p \in DOMAIN ids : ids[p] = i,
                           tags |-> tags, series |-> None]
                     ELSE d[i]]
  BY DEF Upsert
<1> DEFINE made(i) == \E p \in DOMAIN ids : ids[p] = i
           of(i) == CHOOSE p \in DOMAIN ids : ids[p] = i
<1>2. ASSUME NEW i \in Ids, made(i)
      PROVE  doc'[i].path = of(i) /\ of(i) \in paths /\ At(of(i)) = {} /\ ids[of(i)] = i
             /\ doc[i].path = None
  <2>1. of(i) \in DOMAIN ids /\ ids[of(i)] = i
    BY <1>2
  <2> HIDE DEF of
  <2>2. of(i) \in paths /\ At(of(i)) = {} /\ i \in fresh
    BY <1>1, <2>1
  <2>3. doc'[i].path = of(i)
    BY <1>1, <1>2 DEF of
  <2> QED BY <2>1, <2>2, <2>3, FreshUnused
<1>3. ASSUME NEW i \in Ids, ~made(i) PROVE doc'[i].path = doc[i].path
  BY <1>1, <1>3
<1> HIDE DEF made, of
<1>4. ASSUME NEW i \in Ids, NEW j \in Ids, doc'[i].path # None, doc'[i].path = doc'[j].path
      PROVE  i = j
  <2>1. CASE made(i) /\ made(j)
    BY <1>2, <1>4, <2>1
  <2>2. CASE made(i) /\ ~made(j)
    BY <1>2, <1>3, <1>4, <2>2 DEF At
  <2>3. CASE ~made(i) /\ made(j)
    BY <1>2, <1>3, <1>4, <2>3 DEF At
  <2>4. CASE ~made(i) /\ ~made(j)
    BY <1>3, <1>4, <2>4 DEF OnePath
  <2> QED BY <2>1, <2>2, <2>3, <2>4
<1> QED BY <1>2, <1>3, <1>4 DEF OnePath

(* New records keep the order where their files are there and not locked.  *)
LEMMA NewRecords ==
  ASSUME RequestsOK, MoveOK, MoveShape, MoveSet, InOrder, NEW r \in Requests, Active(r),
         req[r].in.op \in {"directory update", "list"}, NEW p, Go(r, p), GoesAhead(req[r], p),
         files' = files, move' = move, NEW paths \in SUBSET files,
         \A x \in paths : ~LockedBy(move, x),
         \A i \in Ids : \/ doc'[i].path = doc[i].path
                        \/ doc[i].path = None /\ doc'[i].path \in paths
  PROVE  InOrder'
<1>1. \A u \in Requests \ {r} : ~Active(u)
  BY Alone DEF ByDirectory
<1>2. Ground(doc', files', move)
  <2>1. Ground(doc, files, move)
    BY DEF InOrder
  <2>2. \A i \in Ids : doc'[i].path # None /\ Spared(move, doc'[i].path) => doc'[i].path \in files
    BY <2>1 DEF Ground
  <2>3. UnderWay(move) => move.id \in Ids /\ move.src \in Paths /\ move.tgt \in Paths
                          /\ move.src \notin paths /\ move.tgt \notin paths
    BY DEF UnderWay, MoveShape, MoveSet, LockedBy
  <2>4. move.phase \in {"copying", "copied"} => doc'[move.id].path = move.src
    BY <2>1, <2>3, CatalogueAssumption DEF Ground, UnderWay
  <2>5. \A x \in {move.src, move.tgt} : UnderWay(move) /\ Holders(doc, x) = {} => Holders(doc', x) = {}
    BY <2>3 DEF Holders
  <2> QED BY <2>1, <2>2, <2>4, <2>5 DEF Ground, UnderWay
<1>3. ASSUME p # Done PROVE Knows(p, doc', files', move)
  <2>1. req[r] \in Query /\ req[r].in.op \in Ops /\ Knows(req[r], doc, files, move)
    BY ActiveOne DEF InOrder
  <2>2. Knows(p, doc, files, move) /\ p.in = req[r].in
    BY <1>3, <2>1, AheadKnows
  <2>3. p.in.op = "directory update"
    <3>1. p.pc \in PcsOf(req[r].in.op) \cap Ahead
      BY <1>3 DEF GoesAhead
    <3> QED BY <2>2, <3>1 DEF PcsOf, Ahead, Viewing, Assigning, Pulling, Counts
  <2>4. p.pc \in PcsOf(p.in.op)
    BY <2>2 DEF Knows
  <2>5. ~ByOne(p) /\ p.in.op \notin Viewing /\ Doomed(p) = {} /\ p.pc \notin {"read", "remove"}
    BY <2>3, <2>4 DEF ByOne, OneRecord, Viewing, Doomed, PcsOf, Counts
  <2> QED BY <2>2, <2>3, <2>5 DEF Knows
<1> QED BY <1>1, <1>2, <1>3, OrderStep

LEMMA BulkWriteRows ==
  ASSUME CatalogueInv, RowsInv, NEW r \in Requests, BulkWrite(r)
  PROVE  RowsInv'
<1> DEFINE q == req[r]
           new == Retagged(q)
           retagged == {i \in Seen(q) : new[i] # q.seen[i].tags}
           source == [i \in Ids |-> IF q.in.op = "batch update" THEN {i} \cap retagged
                                    ELSE {j \in retagged : q.seen[j].path = doc[i].path}]
           d == [i \in Ids |-> IF Exists(i) /\ source[i] # {}
                               THEN [doc[i] EXCEPT !.tags = new[CHOOSE j \in source[i] : TRUE]]
                               ELSE doc[i]]
           paths == IF q.in.op = "batch update" THEN {} ELSE New(q)
<1>1. /\ q.pc = "bulk" /\ Upsert(d, paths, q.in.add) /\ Go(r, ToCount(q))
      /\ UNCHANGED <<files, move, contended>>
  BY DEF BulkWrite
<1>2. /\ RequestsOK /\ DataOK /\ MoveOK /\ MoveSet /\ MoveShape /\ OnePath(doc) /\ Active(r)
      /\ (~contended => InOrder)
  BY <1>1 DEF CatalogueInv, Kept, RowsInv, Active
<1>3. q \in Query /\ q.in.op \in Ops /\ AtWork(q) /\ q.found \in SUBSET Paths
  BY <1>2, ActiveOne DEF Query
<1>4. \A i \in Ids : d[i].path = doc[i].path
  <2>1. \A i \in Ids : \A tags : [doc[i] EXCEPT !.tags = tags].path = doc[i].path
    BY <1>2 DEF DataOK, Rec
  <2> HIDE DEF source, new
  <2> QED BY <2>1
<1>5. paths \in SUBSET Paths
  BY <1>3 DEF New
<1> HIDE DEF d, paths
<1>6. /\ OnePath(doc')
      /\ \A i \in Ids : \/ doc'[i].path = doc[i].path
                        \/ doc[i].path = None /\ doc'[i].path \in paths
  BY <1>1, <1>2, <1>4, <1>5, UpsertPaths
<1>7. ASSUME InOrder PROVE InOrder'
  <2>1. Knows(q, doc, files, move) /\ q.pc \in PcsOf(q.in.op)
    BY <1>2, <1>7 DEF InOrder, Knows
  <2>2. q.in.op \in {"batch update", "directory update"}
    BY <1>1, <1>3, <2>1 DEF PcsOf, Ops, Viewing, Assigning, Pulling, Counts
  <2>3. GoesAhead(q, ToCount(q))
    <3>1. q.in.op \in Serial \cup {"directory update"}
      BY <2>2 DEF Serial
    <3> HIDE DEF q
    <3> QED BY <1>3, <3>1, CountAhead
  <2>4. CASE q.in.op = "batch update"
    <3>1. \A i \in Ids : doc'[i].path = doc[i].path
      BY <1>6, <2>4 DEF paths
    <3> QED BY <1>1, <1>2, <1>7, <2>3, <2>4, <3>1, AheadStep
  <2>5. CASE q.in.op = "directory update"
    <3>1. paths \in SUBSET files /\ ~UnderWay(move)
      BY <2>1, <2>5 DEF Knows, WholeDir, paths, New
    <3>2. \A x \in paths : ~LockedBy(move, x)
      BY <3>1 DEF LockedBy
    <3> QED BY <1>1, <1>2, <1>6, <1>7, <2>3, <2>5, <3>1, <3>2, NewRecords
  <2> QED BY <2>2, <2>4, <2>5
<1>8. MoveShape'
  BY <1>1, <1>2 DEF MoveShape
<1> QED BY <1>1, <1>2, <1>6, <1>7, <1>8 DEF RowsInv

(* The listing gives no record to a file that a migration is writing. *)
LEMMA InsertListedRows ==
  ASSUME CatalogueInv, RowsInv, NEW r \in Requests, InsertListed(r)
  PROVE  RowsInv'
<1> DEFINE q == req[r]
<1>1. /\ q.pc = "insert" /\ Upsert(doc, Listed(q), {}) /\ Go(r, Done)
      /\ UNCHANGED <<files, move, contended>>
  BY DEF InsertListed, Finish
<1>2. /\ RequestsOK /\ DataOK /\ MoveOK /\ MoveSet /\ MoveShape /\ OnePath(doc) /\ Active(r)
      /\ (~contended => InOrder)
  BY <1>1 DEF CatalogueInv, Kept, RowsInv, Active
<1>3. q \in Query /\ q.in.op \in Ops /\ Listed(q) \in SUBSET Paths
  BY <1>2, ActiveOne DEF Query, Listed, New
<1>4. /\ OnePath(doc')
      /\ \A i \in Ids : \/ doc'[i].path = doc[i].path
                        \/ doc[i].path = None /\ doc'[i].path \in Listed(q)
  BY <1>1, <1>2, <1>3, UpsertPaths
<1>5. ASSUME InOrder PROVE InOrder'
  <2>1. Knows(q, doc, files, move) /\ q.pc \in PcsOf(q.in.op)
    BY <1>2, <1>5 DEF InOrder, Knows
  <2>2. q.in.op = "list"
    BY <1>1, <1>3, <2>1 DEF PcsOf, Ops, Viewing, Assigning, Pulling, Counts
  <2>3. q.found \subseteq files /\ q.held = {x \in q.found : LockedBy(move, x)}
    BY <1>1, <2>1, <2>2 DEF Knows
  <2>4. Listed(q) \in SUBSET files /\ \A x \in Listed(q) : ~LockedBy(move, x)
    BY <2>3 DEF Listed, New
  <2> QED BY <1>1, <1>2, <1>4, <1>5, <2>2, <2>4, NewRecords DEF GoesAhead
<1>6. MoveShape'
  BY <1>1, <1>2 DEF MoveShape
<1> QED BY <1>1, <1>2, <1>4, <1>5, <1>6 DEF RowsInv

(* Records deleted for good: they were this request's, and not locked. *)
LEMMA GoneStep ==
  ASSUME RequestsOK, DataOK, MoveSet, MoveShape, InOrder, NEW r \in Requests, Active(r),
         NEW gone \in SUBSET Ids, doc' = [i \in Ids |-> IF i \in gone THEN NoRec ELSE doc[i]],
         gone \subseteq Touches(req[r].in), \A i \in gone : ~LockedBy(move, doc[i].path),
         files' = files, move' = move, NEW p, Go(r, p),
         \/ p = Done
         \/ /\ Knows(p, doc', files, move) /\ p.in = req[r].in
            /\ \/ \A u \in Requests \ {r} : ~Active(u)
               \/ \A x \in Doomed(p) : \E i \in gone : doc[i].path = x
  PROVE  InOrder'
<1>1. \A i \in Ids : doc'[i] = IF i \in gone THEN NoRec ELSE doc[i]
  OBVIOUS
<1>2. NoRec.path = None /\ None \notin Paths /\ files \subseteq Paths
  BY CatalogueAssumption DEF NoRec, DataOK
<1>3. \A x : x # None => Holders(doc', x) \subseteq Holders(doc, x)
  BY <1>1, <1>2 DEF Holders
<1>4. Ground(doc', files', move)
  <2>1. Ground(doc, files, move)
    BY DEF InOrder
  <2>2. \A i \in Ids : doc'[i].path # None => doc'[i].path = doc[i].path
    BY <1>1, <1>2
  <2>3. move.phase \in {"copying", "copied"} => doc'[move.id].path = move.src
    <3>1. SUFFICES ASSUME move.phase \in {"copying", "copied"} PROVE doc'[move.id].path = move.src
      OBVIOUS
    <3>2. doc[move.id].path = move.src /\ move.id \in Ids
      BY <2>1, <3>1 DEF Ground, MoveShape
    <3>3. move.id \notin gone
      BY <3>1, <3>2 DEF LockedBy, UnderWay
    <3> QED BY <1>1, <3>2, <3>3
  <2>4. move.phase # "none" => move.src # None /\ move.tgt # None
    BY <1>2 DEF MoveSet
  <2> QED BY <1>3, <2>1, <2>2, <2>3, <2>4 DEF Ground
<1>5. ASSUME NEW u \in Requests \ {r}, Active(u)
      PROVE  Knows(req[u], doc', files', move) /\ (p = Done \/ KeepApart(p, req[u], move))
  <2>1. req[u].in \in Input /\ Knows(req[u], doc, files, move) /\ Touches(req[u].in) \subseteq Ids
    BY <1>5, ActiveOne DEF InOrder
  <2>2. ~Crosses(req[r].in, req[u].in)
    BY <1>5 DEF InOrder, KeepApart
  <2>3. \A i \in Touches(req[u].in) : doc'[i].path = doc[i].path
    BY <1>1, <2>1, <2>2 DEF Crosses
  <2>4. \A x \in Doomed(req[u]) : Spared(move, x) => x \in files /\ Holders(doc, x) = {}
    BY <2>1 DEF Knows
  <2>5. \A x \in Doomed(req[u]) : Spared(move, x) => x \in files' /\ Holders(doc', x) = {}
    BY <1>2, <1>3, <2>4
  <2>6. Knows(req[u], doc', files', move)
    BY <2>1, <2>3, <2>5, KnowsStays
  <2>7. p # Done => \A x \in Doomed(p) \cap Doomed(req[u]) : ~Spared(move, x)
    BY <1>5, <2>4 DEF Holders
  <2> QED BY <2>2, <2>6, <2>7 DEF KeepApart
<1> QED BY <1>4, <1>5, OrderStep

LEMMA RemoveRecordsRows ==
  ASSUME CatalogueInv, RowsInv, NEW r \in Requests, RemoveRecords(r)
  PROVE  RowsInv'
<1> DEFINE q == req[r]
           gone == CASE q.in.op = "delete" -> {q.in.id}
                     [] q.in.op = "batch delete" -> Elems(q.in.ids)
                     [] OTHER -> {i \in Ids : doc[i].path \in q.found}
           det == Detaching(q, {q.in.id})
           recheck == [q EXCEPT !.pc = "recheck"]
<1>1. /\ q.pc = "remove" /\ doc' = [i \in Ids |-> IF i \in gone THEN NoRec ELSE doc[i]]
      /\ q.in.op = "delete" => Go(r, ToPull(det))
      /\ q.in.op # "delete" => Go(r, recheck)
      /\ UNCHANGED <<files, move, contended>>
  BY DEF RemoveRecords
<1>2. /\ RequestsOK /\ DataOK /\ MoveOK /\ MoveSet /\ MoveShape /\ OnePath(doc) /\ Active(r)
      /\ (~contended => InOrder)
  BY <1>1 DEF CatalogueInv, Kept, RowsInv, Active
<1>3. /\ q \in Query /\ q.in.op \in Ops /\ AtWork(q) /\ q.in.id \in Ids
      /\ q.in.ids \in Seq(Ids) /\ Touches(q.in) \subseteq Ids
  BY <1>2, ActiveOne DEF Input, Question
<1>4. gone \in SUBSET Ids
  <2>1. Elems(q.in.ids) \in SUBSET Ids
    BY <1>3 DEF Elems
  <2>2. {q.in.id} \in SUBSET Ids /\ {i \in Ids : doc[i].path \in q.found} \in SUBSET Ids
    BY <1>3
  <2> QED BY <2>1, <2>2
<1>5. NoRec.path = None /\ None \notin Paths /\ files \subseteq Paths
  BY <1>2, CatalogueAssumption DEF NoRec, DataOK
<1>6. OnePath(doc') /\ MoveShape'
  BY <1>1, <1>2, <1>5 DEF OnePath, MoveShape
<1>7. ASSUME InOrder PROVE InOrder'
  <2>1. Knows(q, doc, files, move) /\ q.pc \in PcsOf(q.in.op) /\ Ground(doc, files, move)
    BY <1>2, <1>7 DEF InOrder, Knows
  <2>2. q.in.op \in {"delete", "batch delete", "directory delete"}
    BY <1>1, <1>3, <2>1 DEF PcsOf, Ops, Viewing, Assigning, Pulling, Counts
  <2>3. recheck.pc = "recheck" /\ recheck.in = q.in /\ recheck.seen = q.seen
        /\ recheck.found = q.found
    BY <1>3 DEF Query
  <2>4. SeenPaths(recheck) = SeenPaths(q)
    BY <2>3 DEF SeenPaths, Seen
  <2>5. CASE q.in.op = "delete"
    <3> DEFINE p == ToPull(det)  x == q.seen[q.in.id].path
    <3>1. gone = {q.in.id} /\ Condemned(q.in) = {q.in.id} /\ q.in.id \in Touches(q.in)
      BY <2>5 DEF Condemned, Touches, ByDirectory
    <3>2. /\ doc[q.in.id].path = x /\ x # None
          /\ ~LockedBy(move, doc[q.in.id].path)
      BY <1>1, <2>1, <2>5, <3>1 DEF Knows, ByOne
    <3>3. AtWork(det) /\ det \in Query /\ SameCopies(q, det) /\ det.in = q.in
      <4>1. AtWork(det)
        <5> HIDE DEF q
        <5> QED BY <1>1, <1>3, DetachingOK
      <4> DEFINE delta == [t \in Tags |-> -Cardinality({i \in {q.in.id} : t \in q.seen[i].tags})]
      <4>2. det = [q EXCEPT !.ids = {q.in.id}, !.delta = delta]
        BY DEF Detaching
      <4> HIDE DEF q, det, delta
      <4>3. /\ det.in = q.in /\ det.found = q.found /\ det.held = q.held /\ det.seen = q.seen
        BY <1>3, <4>2 DEF Query
      <4> QED BY <2>5, <4>1, <4>3 DEF SameCopies, AtWork, QueryOK, Viewing
    <3> HIDE DEF det
    <3>4. GoesAhead(q, p)
      BY <2>5, <3>3, PullAhead, SameAhead DEF Serial
    <3> HIDE DEF q, gone
    <3>5. ASSUME p # Done
          PROVE  Knows(p, doc', files, move) /\ p.in = q.in /\ Doomed(p) = {x}
      <4>1. /\ p.in = q.in /\ p.seen[q.in.id].path = x /\ p.pc \in PcsOf(q.in.op) \cap Ahead
        BY <2>5, <3>4, <3>5 DEF GoesAhead, SameCopies
      <4> HIDE DEF p, x
      <4>2. p.pc \notin {"lock", "read", "remove"}
        BY <4>1 DEF Ahead, Assigning, Pulling, Counts
      <4>3. Doomed(p) = {x} /\ ~ByOne(p) /\ p.in.op = "delete"
        BY <2>5, <4>1, <4>2 DEF Doomed, ByOne, OneRecord
      <4>4. Spared(move, x) => x \in files
        BY <1>3, <2>1, <3>2 DEF Ground
      <4>5. Holders(doc', x) = {}
        BY <1>1, <1>2, <1>3, <1>4, <1>5, <3>1, <3>2 DEF Holders, OnePath
      <4>6. UnderWay(move) => x \notin {move.src, move.tgt}
        BY <3>2 DEF LockedBy
      <4>7. p.in.op \notin Viewing /\ ~WholeDir(p.in) /\ p.pc \in PcsOf(p.in.op)
        BY <4>1, <4>3 DEF Viewing, WholeDir
      <4> QED BY <4>1, <4>2, <4>3, <4>4, <4>5, <4>6, <4>7 DEF Knows
    <3> HIDE DEF p
    <3>6. gone \subseteq Touches(q.in) /\ \A i \in gone : ~LockedBy(move, doc[i].path)
      BY <3>1, <3>2
    <3>7. p = Done \/ \A y \in Doomed(p) : \E i \in gone : doc[i].path = y
      BY <3>1, <3>2, <3>5
    <3>8. Go(r, p)
      BY <1>1, <2>5 DEF p
    <3> QED BY <1>1, <1>2, <1>4, <1>7, <3>5, <3>6, <3>7, <3>8, GoneStep DEF q
  <2>6. CASE q.in.op = "batch delete"
    <3>1. gone = Elems(q.in.ids) /\ Condemned(q.in) = gone /\ gone \subseteq Touches(q.in)
      BY <2>6 DEF Condemned, Touches, ByDirectory
    <3>2. /\ Seen(q) \subseteq gone
          /\ \A i \in gone : doc[i].path = q.seen[i].path /\ ~LockedBy(move, doc[i].path)
      BY <1>1, <2>1, <2>6, <3>1 DEF Knows
    <3>3. Doomed(recheck) = SeenPaths(q)
      BY <2>3, <2>4, <2>6 DEF Doomed
    <3>4. \A x \in Doomed(recheck) : x # None /\ \E i \in gone : doc[i].path = x
      BY <3>2, <3>3 DEF SeenPaths, Seen
    <3>5. "recheck" \in PcsOf(q.in.op)
      BY <2>6 DEF PcsOf, Viewing
    <3> HIDE DEF q, gone, recheck
    <3>6. \A x \in Doomed(recheck) :
            /\ Spared(move, x) => x \in files
            /\ Holders(doc', x) = {}
            /\ UnderWay(move) => x \notin {move.src, move.tgt}
      <4> TAKE x \in Doomed(recheck)
      <4>1. PICK i \in gone : doc[i].path = x /\ x # None
        BY <3>4
      <4>2. Spared(move, x) => x \in files
        BY <1>4, <2>1, <4>1 DEF Ground
      <4>3. Holders(doc', x) = {}
        BY <1>1, <1>2, <1>4, <1>5, <4>1 DEF Holders, OnePath
      <4> QED BY <3>2, <4>1, <4>2, <4>3 DEF LockedBy
    <3>7. Knows(recheck, doc', files, move)
      <4>1. ~ByOne(recheck) /\ ~WholeDir(recheck.in) /\ recheck.in.op \notin Viewing
        BY <2>3, <2>6 DEF ByOne, OneRecord, WholeDir, Viewing
      <4> QED BY <2>3, <2>6, <3>5, <3>6, <4>1 DEF Knows
    <3> QED BY <1>1, <1>2, <1>4, <1>7, <2>3, <2>6, <3>1, <3>2, <3>4, <3>7, GoneStep DEF q
  <2>7. CASE q.in.op = "directory delete"
    <3>1. gone = {i \in Ids : doc[i].path \in q.found} /\ Touches(q.in) = Ids /\ ByDirectory(q.in)
      BY <2>7 DEF Touches, ByDirectory
    <3>2. q.found \subseteq files /\ SeenPaths(q) \subseteq q.found /\ ~UnderWay(move)
      BY <1>1, <2>1, <2>7 DEF Knows, WholeDir
    <3>3. Doomed(recheck) = SeenPaths(q)
      BY <2>3, <2>4, <2>7 DEF Doomed
    <3>4. "recheck" \in PcsOf(q.in.op)
      BY <2>7 DEF PcsOf, Viewing
    <3>5. \A u \in Requests \ {r} : ~Active(u)
      BY <1>2, <1>7, <3>1, Alone
    <3> HIDE DEF q, gone, recheck
    <3>6. \A x \in Doomed(recheck) : x \in files /\ Holders(doc', x) = {}
      BY <1>1, <1>5, <3>1, <3>2, <3>3 DEF Holders
    <3>7. Knows(recheck, doc', files, move)
      <4>1. ~ByOne(recheck) /\ recheck.in.op \notin Viewing
        BY <2>3, <2>7 DEF ByOne, OneRecord, Viewing
      <4> QED BY <2>3, <2>7, <3>2, <3>4, <3>6, <4>1 DEF Knows
    <3>8. gone \subseteq Touches(q.in) /\ \A i \in gone : ~LockedBy(move, doc[i].path)
      BY <3>1, <3>2 DEF LockedBy
    <3> QED BY <1>1, <1>2, <1>4, <1>7, <2>3, <2>7, <3>5, <3>7, <3>8, GoneStep DEF q
  <2> QED BY <2>2, <2>5, <2>6, <2>7
<1> QED BY <1>1, <1>2, <1>6, <1>7 DEF RowsInv

(* What is left to delete are the files of records that are gone. *)
LEMMA RecheckRows ==
  ASSUME CatalogueInv, RowsInv, NEW r \in Requests, Recheck(r)
  PROVE  RowsInv'
<1> DEFINE q == req[r]
           gone == IF q.in.op = "batch delete" THEN {i \in Seen(q) : ~Exists(i)}
                   ELSE {i \in Seen(q) : At(q.seen[i].path) = {}}
           found == {q.seen[i].path : i \in gone}
           det == Detaching(q, gone)
           p == [det EXCEPT !.pc = "unlink", !.found = found]
<1>1. /\ q.pc = "recheck" /\ UNCHANGED <<doc, files, move, contended>>
      /\ Go(r, Done) \/ Go(r, p)
  BY DEF Recheck, dataVars
<1>2. RequestsOK /\ Active(r)
  BY <1>1 DEF CatalogueInv, Kept, Active
<1>3. q \in Query /\ q.in.op \in Ops /\ AtWork(q)
  BY <1>2, ActiveOne
<1>4. gone \in SUBSET Ids /\ gone \subseteq Seen(q)
  BY DEF Seen
<1>5. found \subseteq SeenPaths(q)
  BY <1>4 DEF SeenPaths
<1>6. ASSUME InOrder
      PROVE  Knows(p, doc, files, move) /\ p.in = q.in /\ Doomed(p) \subseteq Doomed(q)
  <2>1. Knows(q, doc, files, move) /\ q.pc \in PcsOf(q.in.op)
    BY <1>2, <1>6 DEF InOrder, Knows
  <2>2. q.in.op \in {"batch delete", "directory delete"}
    BY <1>1, <1>3, <2>1 DEF PcsOf, Ops, Viewing, Assigning, Pulling, Counts
  <2>3. "unlink" \in PcsOf(q.in.op)
    BY <2>2 DEF PcsOf, Viewing
  <2>4. det \in Query /\ det.in = q.in
    <3>1. AtWork(det)
      <4> HIDE DEF q, gone
      <4> QED BY <1>1, <1>3, <1>4, DetachingOK
    <3> DEFINE delta == [t \in Tags |-> -Cardinality({i \in gone : t \in q.seen[i].tags})]
    <3>2. det = [q EXCEPT !.ids = gone, !.delta = delta]
      BY DEF Detaching
    <3> HIDE DEF q, det, gone, delta
    <3>3. det.in = q.in
      BY <1>3, <3>2 DEF Query
    <3> QED BY <3>1, <3>3 DEF AtWork, QueryOK
  <2> HIDE DEF det, found, q
  <2>5. p.in = q.in /\ p.pc = "unlink" /\ p.found = found
    BY <2>4 DEF Query
  <2> HIDE DEF p
  <2>6. Doomed(p) = found /\ Doomed(q) = SeenPaths(q)
    BY <1>1, <2>2, <2>5 DEF Doomed
  <2>7. ~ByOne(p) /\ p.in.op \notin Viewing
    BY <2>2, <2>5 DEF ByOne, OneRecord, Viewing
  <2> QED BY <1>5, <2>1, <2>2, <2>3, <2>5, <2>6, <2>7 DEF Knows
<1> HIDE DEF p, q
<1>7. PICK o : Go(r, o) /\ (InOrder => \/ o = Done
                                       \/ /\ Knows(o, doc, files, move) /\ o.in = q.in
                                          /\ Doomed(o) \subseteq Doomed(q))
  BY <1>1, <1>6
<1> QED BY <1>1, <1>2, <1>7, CalmRows DEF q

(* A file goes only when its record has gone. *)
LEMMA UnlinkStep ==
  ASSUME RequestsOK, MoveShape, InOrder, NEW r \in Requests, Active(r),
         req[r].pc = "unlink", NEW gone, gone \subseteq Doomed(req[r]), files' = files \ gone,
         doc' = doc, move' = move, NEW p, Go(r, p), GoesAhead(req[r], p),
         p # Done => req[r].in.op # "delete"
  PROVE  InOrder'
<1>1. /\ req[r] \in Query /\ req[r].in.op \in Ops /\ req[r].in \in Input
      /\ Knows(req[r], doc, files, move) /\ req[r].pc \in PcsOf(req[r].in.op)
  BY ActiveOne DEF InOrder, Knows
<1>2. req[r].in.op \in {"delete", "batch delete", "directory delete"}
  BY <1>1 DEF PcsOf, Ops, Viewing, Assigning, Pulling, Counts
<1>3. Ground(doc', files', move)
  <2>1. Ground(doc, files, move)
    BY DEF InOrder
  <2>2. \A i \in Ids : doc[i].path # None /\ Spared(move, doc[i].path) => doc[i].path \notin gone
    BY <1>1 DEF Knows, Holders
  <2>3. UnderWay(move) => move.src \notin gone /\ (Spared(move, move.tgt) => move.tgt \notin gone)
    BY <1>1 DEF Knows
  <2> QED BY <2>1, <2>2, <2>3 DEF Ground, UnderWay
<1>4. ASSUME p # Done
      PROVE  Knows(p, doc', files', move) /\ Doomed(p) = {} /\ p.in = req[r].in
  <2>1. Knows(p, doc, files, move) /\ p.in = req[r].in
    BY <1>1, <1>4, AheadKnows
  <2>2. p.pc \in Ahead /\ p.pc # "unlink" /\ p.in.op \in {"batch delete", "directory delete"}
    BY <1>2, <1>4, <2>1 DEF GoesAhead
  <2>3. Doomed(p) = {} /\ p.pc \notin {"find", "remove"}
    BY <2>2 DEF Doomed, Ahead, Assigning, Pulling, Counts
  <2>4. Knows(p, doc', files', move)
    BY <1>1, <2>1, <2>2, <2>3, KnowsStays DEF ByDirectory
  <2> QED BY <2>1, <2>3, <2>4
<1>5. ASSUME NEW u \in Requests \ {r}, Active(u)
      PROVE  Knows(req[u], doc', files', move) /\ (p = Done \/ KeepApart(p, req[u], move))
  <2>1. req[u].in \in Input /\ Knows(req[u], doc, files, move)
    BY <1>5, ActiveOne DEF InOrder
  <2>2. KeepApart(req[r], req[u], move)
    BY <1>5 DEF InOrder
  <2>3. ~ByDirectory(req[u].in)
    BY <1>5, Alone
  <2>4. \A x \in Doomed(req[u]) : Spared(move, x) => x \in files' /\ Holders(doc', x) = {}
    BY <2>1, <2>2 DEF Knows, KeepApart
  <2>5. Knows(req[u], doc', files', move)
    BY <2>1, <2>3, <2>4, KnowsStays
  <2> QED BY <1>4, <2>2, <2>5 DEF KeepApart
<1> QED BY <1>3, <1>4, <1>5, OrderStep

LEMMA UnlinkRows ==
  ASSUME CatalogueInv, RowsInv, NEW r \in Requests, UnlinkMany(r) \/ UnlinkOne(r)
  PROVE  RowsInv'
<1> DEFINE q == req[r]
<1>1. /\ q.pc = "unlink" /\ UNCHANGED <<doc, move, contended>>
      /\ \/ q.in.op # "delete" /\ files' = files \ q.found /\ Go(r, ToPull(q))
         \/ /\ q.in.op # "delete" /\ Go(r, Done)
            /\ \E removed \in SUBSET q.found : files' = files \ removed
         \/ q.in.op = "delete" /\ files' = files \ {q.seen[q.in.id].path} /\ Go(r, Done)
  BY DEF UnlinkMany, UnlinkOne, Finish
<1>2. /\ RequestsOK /\ MoveShape /\ OnePath(doc) /\ Active(r) /\ (~contended => InOrder)
  BY <1>1 DEF CatalogueInv, Kept, RowsInv, Active
<1>3. q \in Query /\ q.in.op \in Ops /\ AtWork(q)
  BY <1>2, ActiveOne
<1>4. ASSUME InOrder PROVE InOrder'
  <2>1. q.pc \in PcsOf(q.in.op)
    BY <1>2, <1>4 DEF InOrder, Knows
  <2>2. q.in.op \in {"delete", "batch delete", "directory delete"}
    BY <1>1, <1>3, <2>1 DEF PcsOf, Ops, Viewing, Assigning, Pulling, Counts
  <2>3. Doomed(q) = IF q.in.op = "delete" THEN {q.seen[q.in.id].path} ELSE q.found
    BY <1>1, <2>2 DEF Doomed
  <2>4. GoesAhead(q, ToPull(q)) /\ GoesAhead(q, Done)
    <3>1. q.in.op \in Serial
      BY <2>2 DEF Serial
    <3> HIDE DEF q
    <3> QED BY <1>3, <3>1, PullAhead DEF GoesAhead
  <2> HIDE DEF q
  <2>5. PICK p, gone : /\ Go(r, p) /\ GoesAhead(q, p) /\ (p # Done => q.in.op # "delete")
                       /\ gone \subseteq Doomed(q) /\ files' = files \ gone
    <3>1. CASE q.in.op # "delete" /\ files' = files \ q.found /\ Go(r, ToPull(q))
      BY <2>3, <2>4, <3>1
    <3>2. CASE /\ q.in.op # "delete" /\ Go(r, Done)
               /\ \E removed \in SUBSET q.found : files' = files \ removed
      BY <2>3, <2>4, <3>2
    <3>3. CASE q.in.op = "delete" /\ files' = files \ {q.seen[q.in.id].path} /\ Go(r, Done)
      BY <2>3, <2>4, <3>3
    <3> QED BY <1>1, <3>1, <3>2, <3>3
  <2> QED BY <1>1, <1>2, <1>4, <2>5, UnlinkStep DEF q
<1>5. MoveShape'
  BY <1>1, <1>2 DEF MoveShape
<1> QED BY <1>1, <1>2, <1>4, <1>5 DEF RowsInv

-----------------------------------------------------------------------------
(* The first call of a request: what it asks for is nobody else's. *)

LEMMA AskStep ==
  ASSUME CatalogueInv, RowsInv, NEW r \in Requests, NEW op, NEW p, Asks(r, op, p),
         Doomed(p) = {},
         InOrder /\ (op \in {"directory update", "directory delete"} => ~UnderWay(move)) =>
           Knows(p, doc, files, move)
  PROVE  RowsInv'
<1>1. /\ UNCHANGED <<doc, files, move>> /\ Go(r, p) /\ req[r].pc = "new"
      /\ ~contended' => /\ ~contended
                        /\ \A u \in Requests \ {r} : Active(u) => ~Crosses(p.in, req[u].in)
                        /\ op \in {"directory update", "directory delete"} => ~UnderWay(move)
  BY DEF Asks, dataVars, Moving, UnderWay
<1>2. RequestsOK /\ OnePath(doc) /\ MoveShape
  BY DEF CatalogueInv, Kept, RowsInv
<1>3. ASSUME ~contended' PROVE InOrder'
  <2>1. InOrder /\ Knows(p, doc, files, move)
    BY <1>1, <1>3 DEF RowsInv
  <2>2. Ground(doc', files', move)
    BY <1>1, <2>1 DEF InOrder
  <2>3. \A u \in Requests \ {r} : Active(u) =>
          Knows(req[u], doc', files', move) /\ KeepApart(p, req[u], move)
    BY <1>1, <1>3, <2>1 DEF InOrder, KeepApart
  <2> QED BY <1>1, <1>2, <2>1, <2>2, <2>3, OrderStep
<1>4. MoveShape'
  BY <1>1, <1>2 DEF MoveShape
<1> QED BY <1>1, <1>2, <1>3, <1>4 DEF RowsInv

(* A record read by its _id. *)
LEMMA AskOneRows ==
  ASSUME CatalogueInv, RowsInv, NEW r \in Requests, NEW in \in Inputs,
         NEW op \in OneRecord \cup {"delete"}, NEW c,
         c = IF op \in Viewing THEN "save" ELSE "lock", Exists(in.id),
         Asks(r, op, [Fresh EXCEPT !.pc = c, !.in = in, !.seen = ReadIds({in.id})])
  PROVE  RowsInv'
<1> DEFINE e == ReadIds({in.id})  p == [Fresh EXCEPT !.pc = c, !.in = in, !.seen = e]
<1>1. in.id \in Ids /\ e[in.id].path = doc[in.id].path /\ doc[in.id].path # None
  BY CatalogueAssumption DEF Input, Question, ReadIds, Exists
<1>2. Asks(r, op, p)
  OBVIOUS
<1> HIDE DEF e
<1>3. /\ p.pc = c /\ p.in = in /\ p.seen = e /\ p.delta = NoChange
  BY DEF Fresh
<1> HIDE DEF p
<1>4. p.in.op = op
  BY <1>2 DEF Asks
<1>5. Doomed(p) = {}
  BY <1>3, <1>4 DEF Doomed, OneRecord, Viewing
<1>6. /\ p.pc \in PcsOf(op) /\ p.pc \notin {"read", "remove"}
      /\ op \notin {"batch delete", "directory update", "directory delete", "list"}
  BY <1>3 DEF PcsOf, OneRecord, Viewing
<1>7. Knows(p, doc, files, move)
  BY <1>1, <1>3, <1>4, <1>5, <1>6 DEF Knows, WholeDir
<1> QED BY <1>2, <1>5, <1>7, AskStep

LEMMA ElemsIn == ASSUME NEW s \in Seq(Ids) PROVE Elems(s) \subseteq Ids
BY DEF Elems

LEMMA AskingRows ==
  ASSUME CatalogueInv, RowsInv, NEW r \in Requests, Asking(r)
  PROVE  RowsInv'
<1>1. ASSUME NEW in \in Inputs, NEW op \in Viewing, ReadToSave(r, in, op) PROVE RowsInv'
  BY <1>1, AskOneRows DEF ReadToSave, OneRecord, Viewing
<1>2. CASE EditVideo(r)
  BY <1>2, AskOneRows DEF EditVideo, OneRecord, Viewing
<1>3. CASE DeleteVideo(r)
  BY <1>3, AskOneRows DEF DeleteVideo, OneRecord, Viewing
<1>4. CASE AskBatch(r)
  <2>1. PICK in \in Inputs, op \in {"batch update", "batch delete"} :
          Asks(r, op, [Fresh EXCEPT !.pc = "lock", !.in = in, !.seen = ReadIds(Elems(in.ids))])
    BY <1>4 DEF AskBatch
  <2> DEFINE e == ReadIds(Elems(in.ids))
             p == [Fresh EXCEPT !.pc = "lock", !.in = in, !.seen = e]
  <2>2. Elems(in.ids) \subseteq Ids
    <3>1. in.ids \in Seq(Ids)
      BY CatalogueAssumption DEF Input, Question
    <3> QED BY <3>1, ElemsIn
  <2>3. /\ \A i \in Elems(in.ids) : e[i].path = doc[i].path
        /\ \A i \in Ids : e[i].path # None => i \in Elems(in.ids)
    BY <2>2 DEF ReadIds, NoRec
  <2>4. Asks(r, op, p)
    BY <2>1
  <2> HIDE DEF e
  <2>5. p.pc = "lock" /\ p.in = in /\ p.seen = e
    BY DEF Fresh
  <2> HIDE DEF p
  <2>6. p.in.op = op
    BY <2>4 DEF Asks
  <2>7. Doomed(p) = {}
    BY <2>5, <2>6 DEF Doomed
  <2>8. /\ p.pc \in PcsOf(op) /\ ~ByOne(p) /\ op \notin Viewing /\ ~WholeDir(p.in)
    BY <2>5, <2>6 DEF PcsOf, OneRecord, Viewing, ByOne, WholeDir
  <2>9. Knows(p, doc, files, move)
    BY <2>3, <2>5, <2>6, <2>7, <2>8 DEF Knows, Seen
  <2> QED BY <2>4, <2>7, <2>9, AskStep
<1>5. CASE WalkDirectory(r)
  <2>1. PICK in \in Inputs, op \in {"directory update", "directory delete", "list"} :
          Asks(r, op, [Fresh EXCEPT !.pc = IF op = "list" THEN "locks" ELSE "find",
                         !.in = in, !.found = files \cap Dir])
    BY <1>5 DEF WalkDirectory
  <2> DEFINE c == IF op = "list" THEN "locks" ELSE "find"  paths == files \cap Dir
             p == [Fresh EXCEPT !.pc = c, !.in = in, !.found = paths]
  <2>2. Asks(r, op, p) /\ paths \subseteq files
    BY <2>1
  <2> HIDE DEF c, paths
  <2>3. p.pc = c /\ p.in = in /\ p.found = paths
    BY DEF Fresh
  <2> HIDE DEF p
  <2>4. p.in.op = op
    BY <2>2 DEF Asks
  <2>5. Doomed(p) = {}
    BY <2>3, <2>4 DEF Doomed, c
  <2>6. /\ p.pc \in PcsOf(op) /\ ~ByOne(p) /\ op \notin Viewing
        /\ WholeDir(p.in) => op \in {"directory update", "directory delete"}
    BY <2>3, <2>4 DEF PcsOf, OneRecord, Viewing, ByOne, WholeDir, c
  <2>7. p.pc \notin {"lock", "read", "remove"} /\ (op = "list" => p.pc = "locks")
    BY <2>3, <2>4 DEF c
  <2>8. (op \in {"directory update", "directory delete"} => ~UnderWay(move)) =>
          Knows(p, doc, files, move)
    BY <2>2, <2>3, <2>4, <2>5, <2>6, <2>7 DEF Knows
  <2> QED BY <2>2, <2>5, <2>8, AskStep
<1>6. RecordView(r) \/ GetThumbnail(r) \/ EnsureDuration(r) =>
        \E in \in Inputs, op \in Viewing : ReadToSave(r, in, op)
  BY DEF RecordView, GetThumbnail, EnsureDuration, Viewing
<1> QED BY <1>1, <1>2, <1>3, <1>4, <1>5, <1>6 DEF Asking

-----------------------------------------------------------------------------
(* The migration. *)

(* The phase moves on. *)
LEMMA MovesOn ==
  ASSUME RequestsOK, DataOK, MoveOK, MoveShape, InOrder, UnderWay(move), NEW c, MoveTo(c),
         req' = req, Ground(doc', files', move'),
         \A r \in Requests : Active(r) =>
           /\ Touches(req[r].in) \cap {move.id} = {}
           /\ \A i \in Touches(req[r].in) : doc'[i].path = doc[i].path
           /\ \A x \in Doomed(req[r]) : Spared(move, x) => x \in files' /\ Holders(doc', x) = {}
  PROVE  InOrder'
<1>1. /\ move'.phase = c /\ move'.id = move.id /\ move'.src = move.src /\ move'.tgt = move.tgt
      /\ move'.overwrite = move.overwrite
  BY DEF MoveTo, MoveOK
<1>2. \A x : Spared(move', x) <=> Spared(move, x)
  BY <1>1 DEF Spared
<1>3. \A x : LockedBy(move', x) => LockedBy(move, x)
  BY <1>1 DEF LockedBy
<1>4. ASSUME NEW r \in Requests, Active(r) PROVE Knows(req[r], doc', files', move')
  <2>1. req[r].in \in Input /\ Knows(req[r], doc, files, move)
    BY <1>4, ActiveOne DEF InOrder
  <2>2. ~ByDirectory(req[r].in)
    BY <1>4 DEF Touches, MoveShape, UnderWay
  <2>3. Knows(req[r], doc', files', move)
    BY <1>4, <2>1, <2>2, KnowsStays
  <2>4. req[r].in.op # "list" /\ ~WholeDir(req[r].in)
    BY <2>2 DEF ByDirectory, WholeDir
  <2> QED BY <1>1, <1>2, <1>3, <2>3, <2>4 DEF Knows
<1>5. ASSUME NEW r \in Requests, NEW u \in Requests, r # u, Active(r), Active(u)
      PROVE  KeepApart(req[r], req[u], move')
  BY <1>2, <1>5 DEF InOrder, KeepApart
<1>6. \A r \in Requests : Active(r)' <=> Active(r)
  BY DEF Active
<1> QED BY <1>4, <1>5, <1>6 DEF InOrder

(* Nobody who is at work touches the video that moves, or the one it       *)
(* replaces.                                                               *)
LEMMA Undisturbed ==
  ASSUME Interrupts, ~contended'
  PROVE  /\ ~contended
         /\ \A r \in Requests : Active(r) =>
              Touches(req[r].in) \cap ({move'.id} \cup At(move'.tgt)) = {}
BY DEF Interrupts

LEMMA BeginMoveRows ==
  ASSUME CatalogueInv, RowsInv, BeginMove
  PROVE  RowsInv'
<1>1. PICK m \in Moves :
        /\ move.phase = "none" /\ doc[m.id].path \in files \ {m.tgt}
        /\ m.tgt \notin files \/ m.overwrite
        /\ move' = [phase |-> "copying", id |-> m.id, src |-> doc[m.id].path,
                    tgt |-> m.tgt, overwrite |-> m.overwrite]
        /\ UNCHANGED <<doc, files, req>> /\ Interrupts
  BY DEF BeginMove, dataVars
<1>2. /\ RequestsOK /\ DataOK /\ OnePath(doc) /\ move = NoMove /\ (~contended => InOrder)
  BY <1>1 DEF CatalogueInv, Kept, RowsInv, MoveShape
<1>3. /\ m.id \in Ids /\ m.tgt \in Paths /\ None \notin Paths /\ files \subseteq Paths
  BY <1>2, CatalogueAssumption DEF DataOK
<1>4. /\ move'.phase = "copying" /\ move'.id = m.id /\ move'.src = doc[m.id].path
      /\ move'.tgt = m.tgt /\ move'.overwrite = m.overwrite
  BY <1>1
<1>5. MoveShape'
  BY <1>1, <1>3, <1>4 DEF MoveShape
<1>6. ASSUME ~contended' PROVE InOrder'
  <2>1. InOrder
    BY <1>1, <1>2, <1>6, Undisturbed
  <2>2. \A x : Spared(move, x)
    BY <1>2 DEF NoMove, Spared
  <2>3. Spared(move', m.tgt) => m.tgt \notin files
    BY <1>1, <1>4 DEF Spared
  <2>4. Ground(doc', files', move')
    <3>1. \A i \in Ids : doc[i].path # None => doc[i].path \in files
      BY <2>1, <2>2 DEF InOrder, Ground
    <3>2. Spared(move', m.tgt) => Holders(doc, m.tgt) = {}
      BY <1>3, <2>3, <3>1 DEF Holders
    <3> QED BY <1>1, <1>4, <3>1, <3>2 DEF Ground
  <2>5. ASSUME NEW r \in Requests, Active(r) PROVE Knows(req[r], doc', files', move')
    <3>1. /\ req[r].in \in Input /\ Knows(req[r], doc, files, move)
          /\ Touches(req[r].in) \subseteq Ids
      BY <1>2, <2>1, <2>5, ActiveOne DEF InOrder
    <3>2. Touches(req[r].in) \cap ({m.id} \cup At(m.tgt)) = {}
      BY <1>1, <1>4, <1>6, <2>5, Undisturbed
    <3>3. ~ByDirectory(req[r].in)
      BY <1>3, <3>2 DEF Touches
    <3>4. req[r].in.op # "list" /\ ~WholeDir(req[r].in)
      BY <3>3 DEF ByDirectory, WholeDir
    <3>5. \A x \in Doomed(req[r]) : x \in files /\ Holders(doc, x) = {}
      BY <2>2, <3>1 DEF Knows
    <3>6. doc[m.id].path \notin Doomed(req[r])
      BY <1>3, <3>5 DEF Holders
    <3>7. Spared(move', m.tgt) => m.tgt \notin Doomed(req[r])
      BY <2>3, <3>5
    <3>8. \A i \in Condemned(req[r].in) : ~LockedBy(move', doc[i].path)
      <4> TAKE i \in Condemned(req[r].in)
      <4>1. i \in Touches(req[r].in)
        BY DEF Condemned, Touches, ByDirectory
      <4>2. i \in Ids /\ i # m.id /\ doc[i].path # m.tgt
        BY <3>1, <3>2, <4>1 DEF At
      <4>3. doc[i].path # doc[m.id].path
        BY <1>1, <1>2, <1>3, <4>2 DEF OnePath
      <4> QED BY <1>4, <4>2, <4>3 DEF LockedBy
    <3> QED BY <1>1, <1>4, <3>1, <3>4, <3>5, <3>6, <3>7, <3>8 DEF Knows
  <2>6. \A r, u \in Requests : r # u /\ Active(r) /\ Active(u) =>
          KeepApart(req[r], req[u], move')
    BY <2>1, <2>2 DEF InOrder, KeepApart
  <2>7. \A r \in Requests : Active(r)' <=> Active(r)
    BY <1>1 DEF Active
  <2> QED BY <1>1, <2>4, <2>5, <2>6, <2>7 DEF InOrder
<1> QED BY <1>1, <1>2, <1>5, <1>6 DEF RowsInv

(* The bytes: what arrives at the target, what a failed copy removes, what *)
(* the end of a migration removes.                                         *)
LEMMA CopyRows ==
  ASSUME CatalogueInv, RowsInv, CopyMove \/ FailMove \/ FinishMove
  PROVE  RowsInv'
<1> DEFINE c == IF CopyMove THEN "copied" ELSE IF FailMove THEN "failed" ELSE "finished"
<1>1. /\ UNCHANGED <<doc, req>> /\ Interrupts /\ UnderWay(move)
      /\ \/ /\ move.phase = "copying" /\ MoveTo("copied") /\ files' = files \cup {move.tgt}
         \/ /\ move.phase \in {"copying", "copied"} /\ MoveTo("failed")
            /\ files' = files \ {move.tgt}
         \/ /\ move.phase = "moved" /\ MoveTo("finished") /\ files' = files \ {move.src}
  BY DEF CopyMove, FailMove, FinishMove, UnderWay
<1>2. /\ RequestsOK /\ DataOK /\ MoveOK /\ MoveShape /\ OnePath(doc) /\ (~contended => InOrder)
  BY DEF CatalogueInv, Kept, RowsInv
<1>3. /\ move'.id = move.id /\ move'.src = move.src /\ move'.tgt = move.tgt
      /\ move'.overwrite = move.overwrite /\ move'.phase # "none"
  BY <1>1, <1>2 DEF MoveTo, MoveOK
<1>4. MoveShape'
  BY <1>1, <1>2, <1>3 DEF MoveShape, UnderWay
<1>5. ASSUME ~contended' PROVE InOrder'
  <2>1. /\ InOrder /\ Ground(doc, files, move)
        /\ \A r \in Requests : Active(r) => Touches(req[r].in) \cap {move.id} = {}
    BY <1>1, <1>2, <1>3, <1>5, Undisturbed DEF InOrder
  <2>2. \A r \in Requests : Active(r) => Knows(req[r], doc, files, move)
    BY <2>1 DEF InOrder
  <2>3. \A x : Spared(move', x) <=> Spared(move, x)
    BY <1>3 DEF Spared
  <2>4. CASE move.phase = "copying" /\ MoveTo("copied") /\ files' = files \cup {move.tgt}
    <3>1. move'.phase = "copied"
      BY <1>2, <2>4 DEF MoveTo, MoveOK
    <3>2. Ground(doc', files', move')
      BY <1>1, <1>3, <2>1, <2>3, <2>4, <3>1 DEF Ground
    <3>3. \A r \in Requests : Active(r) =>
            \A x \in Doomed(req[r]) : Spared(move, x) => x \in files' /\ Holders(doc', x) = {}
      BY <1>1, <2>2, <2>4 DEF Knows
    <3> QED BY <1>1, <1>2, <2>1, <2>4, <3>2, <3>3, MovesOn
  <2>5. CASE /\ move.phase \in {"copying", "copied"} /\ MoveTo("failed")
             /\ files' = files \ {move.tgt}
    <3>1. move'.phase = "failed"
      BY <1>2, <2>5 DEF MoveTo, MoveOK
    <3>2. Ground(doc', files', move')
      BY <1>1, <1>3, <2>1, <2>3, <2>5, <3>1 DEF Ground, Holders
    <3>3. \A r \in Requests : Active(r) =>
            \A x \in Doomed(req[r]) : Spared(move, x) => x \in files' /\ Holders(doc', x) = {}
      BY <1>1, <2>2, <2>5 DEF Knows
    <3> QED BY <1>1, <1>2, <2>1, <2>5, <3>2, <3>3, MovesOn
  <2>6. CASE move.phase = "moved" /\ MoveTo("finished") /\ files' = files \ {move.src}
    <3>1. move'.phase = "finished"
      BY <1>2, <2>6 DEF MoveTo, MoveOK
    <3>2. Ground(doc', files', move')
      BY <1>1, <1>3, <2>1, <2>3, <2>6, <3>1 DEF Ground, Holders
    <3>3. \A r \in Requests : Active(r) =>
            \A x \in Doomed(req[r]) : Spared(move, x) => x \in files' /\ Holders(doc', x) = {}
      BY <1>1, <2>2, <2>6 DEF Knows
    <3> QED BY <1>1, <1>2, <2>1, <2>6, <3>2, <3>3, MovesOn
  <2> QED BY <1>1, <2>4, <2>5, <2>6
<1> QED BY <1>1, <1>2, <1>4, <1>5 DEF RowsInv

(* The record goes to the target, where it is the only one. *)
LEMMA RepointRows ==
  ASSUME CatalogueInv, RowsInv, RepointMove
  PROVE  RowsInv'
<1> DEFINE conflicting == IF move.overwrite THEN At(move.tgt) ELSE {}
           moved == [i \in Ids |-> CASE i \in At(move.src) -> [doc[i] EXCEPT !.path = move.tgt]
                                     [] i \in conflicting -> NoRec
                                     [] OTHER -> doc[i]]
<1>1. /\ move.phase = "copied" /\ UNCHANGED <<files, req>> /\ Interrupts
      /\ \/ /\ At(move.src) # {} /\ At(move.tgt) \subseteq conflicting
            /\ doc' = moved /\ MoveTo("moved")
         \/ At(move.src) = {} /\ doc' = doc /\ MoveTo("moved")
         \/ doc' = doc /\ MoveTo("failed")
  BY DEF RepointMove
<1>2. /\ RequestsOK /\ DataOK /\ MoveOK /\ MoveShape /\ OnePath(doc) /\ (~contended => InOrder)
      /\ UnderWay(move)
  BY <1>1 DEF CatalogueInv, Kept, RowsInv, UnderWay
<1>3. /\ move'.id = move.id /\ move'.src = move.src /\ move'.tgt = move.tgt
      /\ move'.overwrite = move.overwrite /\ move'.phase # "none"
  BY <1>1, <1>2 DEF MoveTo, MoveOK
<1>4. /\ move.src \in Paths /\ move.tgt \in Paths /\ move.src # move.tgt /\ move.id \in Ids
      /\ None \notin Paths /\ NoRec.path = None
  BY <1>1, <1>2, CatalogueAssumption DEF CatalogueInv, MoveSet, MoveShape, NoRec
<1>5. MoveShape'
  BY <1>1, <1>2, <1>3 DEF MoveShape
<1>6. \A i \in Ids : moved[i].path = IF doc[i].path = move.src THEN move.tgt
                                     ELSE IF i \in conflicting THEN None ELSE doc[i].path
  <2> TAKE i \in Ids
  <2>1. [doc[i] EXCEPT !.path = move.tgt].path = move.tgt
    BY <1>2 DEF DataOK, Rec
  <2>2. doc[i].path = move.src => i \notin conflicting
    BY <1>4 DEF At
  <2>3. i \in At(move.src) <=> doc[i].path = move.src
    BY DEF At
  <2> HIDE DEF conflicting
  <2> QED BY <1>4, <2>1, <2>2, <2>3
<1>7. conflicting \subseteq At(move.tgt)
  OBVIOUS
<1> HIDE DEF moved
<1>8. OnePath(doc')
  <2>1. CASE doc' = doc
    BY <1>2, <2>1
  <2>2. CASE doc' = moved /\ At(move.tgt) \subseteq conflicting
    <3>1. \A i \in Ids : doc[i].path = move.tgt <=> i \in conflicting
      BY <1>7, <2>2 DEF At
    <3> HIDE DEF conflicting
    <3> QED BY <1>2, <1>4, <1>6, <2>2, <3>1 DEF OnePath
  <2> QED BY <1>1, <2>1, <2>2
<1>9. ASSUME ~contended' PROVE InOrder'
  <2>1. /\ InOrder /\ Ground(doc, files, move)
        /\ \A r \in Requests : Active(r) =>
             Touches(req[r].in) \cap ({move.id} \cup At(move.tgt)) = {}
    BY <1>1, <1>2, <1>3, <1>9, Undisturbed DEF InOrder
  <2>2. \A r \in Requests : Active(r) =>
          Knows(req[r], doc, files, move) /\ Touches(req[r].in) \subseteq Ids
    BY <1>2, <2>1, ActiveOne DEF InOrder
  <2>3. \A x : Spared(move', x) <=> Spared(move, x)
    BY <1>3 DEF Spared
  <2>4. doc[move.id].path = move.src /\ (Spared(move, move.tgt) => move.tgt \in files)
    BY <1>1, <2>1 DEF Ground
  <2>5. CASE /\ At(move.src) # {} /\ At(move.tgt) \subseteq conflicting
             /\ doc' = moved /\ MoveTo("moved")
    <3>1. move'.phase = "moved"
      BY <1>2, <2>5 DEF MoveTo, MoveOK
    <3>2. Ground(doc', files', move')
      <4>1. \A i \in Ids : doc'[i].path # None /\ Spared(move, doc'[i].path) =>
              doc'[i].path \in files
        <5> HIDE DEF conflicting
        <5> QED BY <1>6, <2>1, <2>4, <2>5 DEF Ground
      <4>2. Holders(doc', move.src) = {}
        <5> HIDE DEF conflicting
        <5> QED BY <1>4, <1>6, <2>5 DEF Holders
      <4> QED BY <1>1, <1>3, <2>3, <2>4, <3>1, <4>1, <4>2 DEF Ground
    <3>3. ASSUME NEW r \in Requests, Active(r)
          PROVE  /\ \A i \in Touches(req[r].in) : doc'[i].path = doc[i].path
                 /\ \A x \in Doomed(req[r]) : Spared(move, x) => x \in files' /\ Holders(doc', x) = {}
      <4>1. ASSUME NEW i \in Touches(req[r].in) PROVE doc'[i].path = doc[i].path
        <5>1. i \in Ids /\ i # move.id /\ i \notin At(move.tgt)
          BY <2>1, <2>2, <3>3, <4>1
        <5>2. doc[i].path # move.src /\ i \notin conflicting
          BY <1>2, <1>4, <1>7, <2>4, <5>1 DEF OnePath
        <5> HIDE DEF conflicting
        <5> QED BY <1>6, <2>5, <5>1, <5>2
      <4>2. ASSUME NEW x \in Doomed(req[r]), Spared(move, x)
            PROVE  x \in files' /\ Holders(doc', x) = {}
        <5>1. x \in files /\ Holders(doc, x) = {} /\ x # move.tgt
          BY <1>2, <2>2, <3>3, <4>2 DEF Knows
        <5>2. x # None
          BY <1>2, <1>4, <5>1 DEF DataOK
        <5> HIDE DEF conflicting
        <5> QED BY <1>1, <1>6, <2>5, <5>1, <5>2 DEF Holders
      <4> QED BY <4>1, <4>2
    <3> QED BY <1>1, <1>2, <2>1, <2>5, <3>2, <3>3, MovesOn
  <2>6. At(move.src) # {}
    BY <1>4, <2>4 DEF At
  <2>7. CASE doc' = doc /\ MoveTo("failed")
    <3>1. move'.phase = "failed"
      BY <1>2, <2>7 DEF MoveTo, MoveOK
    <3>2. Ground(doc', files', move')
      BY <1>1, <1>3, <2>1, <2>3, <2>7, <3>1 DEF Ground
    <3>3. \A r \in Requests : Active(r) =>
            \A x \in Doomed(req[r]) : Spared(move, x) => x \in files' /\ Holders(doc', x) = {}
      BY <1>1, <2>2, <2>7 DEF Knows
    <3> QED BY <1>1, <1>2, <2>1, <2>7, <3>2, <3>3, MovesOn
  <2> QED BY <1>1, <2>5, <2>6, <2>7
<1> QED BY <1>5, <1>8, <1>9 DEF RowsInv

-----------------------------------------------------------------------------
(* The rows, always. *)

LEMMA RowsInitially == CatalogueInit => RowsInv
<1> SUFFICES ASSUME CatalogueInit PROVE RowsInv
  OBVIOUS
<1> USE CatalogueAssumption
<1>1. \A i \in Ids : doc[i].path = Home[i]
  <2> TAKE i \in Ids
  <2> DEFINE back == IF \E s \in Series : i \in Elems(list[s])
                     THEN CHOOSE s \in Series : i \in Elems(list[s]) ELSE None
  <2>1. doc[i] = IF Home[i] = None THEN NoRec
                 ELSE [path |-> Home[i], tags |-> Tagged[i], series |-> back]
    BY DEF CatalogueInit
  <2> HIDE DEF back
  <2> QED BY <2>1 DEF NoRec
<1>2. OnePath(doc)
  BY <1>1 DEF OnePath
<1>3. move = NoMove /\ move.phase = "none"
  BY DEF CatalogueInit, NoMove
<1>4. MoveShape
  BY <1>3 DEF MoveShape
<1>5. \A r \in Requests : ~Active(r)
  BY DEF CatalogueInit, Active, Fresh
<1>6. Ground(doc, files, move)
  <2>1. \A i \in Ids : Home[i] # None => Home[i] \in Stored
    OBVIOUS
  <2> QED BY <1>1, <1>3, <2>1 DEF CatalogueInit, Ground
<1> QED BY <1>2, <1>4, <1>5, <1>6 DEF RowsInv, InOrder

LEMMA RowsSteps == CatalogueInv /\ RowsInv /\ [CatalogueNext]_vars => RowsInv'
<1> SUFFICES ASSUME CatalogueInv, RowsInv, [CatalogueNext]_vars PROVE RowsInv'
  OBVIOUS
<1>1. ASSUME NEW r \in Requests, Asking(r) \/ SeriesStep(r) \/ RecordStep(r) \/ TagStep(r)
      PROVE  RowsInv'
  <2>1. CASE Asking(r)
    BY <2>1, AskingRows
  <2>2. CASE SeriesStep(r)
    BY <2>2, ResolveRows, FindTargetRows, PlaceRows, PullRows DEF SeriesStep
  <2>3. CASE RecordStep(r)
    BY <2>3, SaveRows, CheckLocksRows, CheckOthersRows, CheckListingRows, ReadSelectionRows,
       BulkWriteRows, InsertListedRows, RemoveRecordsRows, RecheckRows, UnlinkRows
       DEF RecordStep
  <2>4. CASE TagStep(r)
    BY <2>4, CountRows DEF TagStep
  <2> QED BY <1>1, <2>1, <2>2, <2>3, <2>4
<1>2. CASE MoveStep
  BY <1>2, BeginMoveRows, CopyRows, RepointRows DEF MoveStep
<1>3. CASE UNCHANGED vars
  <2>1. UNCHANGED <<doc, files, move, req, contended>>
    BY <1>3 DEF vars, dataVars
  <2>2. \A r \in Requests : Active(r)' <=> Active(r)
    BY <2>1 DEF Active
  <2>3. InOrder => InOrder'
    BY <2>1, <2>2 DEF InOrder
  <2> QED BY <2>1, <2>3 DEF RowsInv, MoveShape
<1> QED BY <1>1, <1>2, <1>3 DEF CatalogueNext

LEMMA RowsAlways == CatalogueSpec => [](CatalogueInv /\ RowsInv)
<1>1. CatalogueInit => CatalogueInv /\ RowsInv
  BY CatalogueInitially, RowsInitially
<1>2. CatalogueInv /\ RowsInv /\ [CatalogueNext]_vars => (CatalogueInv /\ RowsInv)'
  BY CatalogueSteps, RowsSteps
<1> QED BY <1>1, <1>2, PTL DEF CatalogueSpec

(* While a migration copies, the file it reads from is there, its record   *)
(* is where it left it, and nobody has made a record for its target: the   *)
(* lock checks of every mutation and of the listing keep all requests off, *)
(* at whatever call each of them is (catalog_service.py,                   *)
(* batch_operation_service.py, browse_file_service.py).                    *)
THEOREM MovesAreNotBlocked == CatalogueSpec => []MoveIsNotBlocked
<1>1. CatalogueInv /\ RowsInv => MoveIsNotBlocked
  BY DEF CatalogueInv, MoveOK, RowsInv, InOrder, Ground, MoveIsNotBlocked, Spared, At, Holders
<1> QED BY <1>1, RowsAlways, PTL

(* Every record points at a file, at rest and in between, but for the      *)
(* record of a video that a migration was allowed to overwrite.            *)
THEOREM SparedRecordsHaveFiles ==
  CatalogueSpec =>
    [](~contended => \A i \in Ids : Exists(i) /\ ~(move.overwrite /\ doc[i].path = move.tgt)
                                     => doc[i].path \in files)
<1>1. RowsInv => (~contended => \A i \in Ids :
                    Exists(i) /\ ~(move.overwrite /\ doc[i].path = move.tgt)
                      => doc[i].path \in files)
  BY DEF RowsInv, InOrder, Ground, Spared, Exists
<1> QED BY <1>1, RowsAlways, PTL

(* No migration was asked to overwrite a video. *)
NothingIsReplaced == \A m \in Moves : ~m.overwrite

LEMMA NeverReplacing ==
  ASSUME NothingIsReplaced
  PROVE  CatalogueSpec => [](~move.overwrite)
<1>1. CatalogueInit => ~move.overwrite
  BY DEF CatalogueInit, NoMove
<1>2. CatalogueInv /\ ~move.overwrite /\ [CatalogueNext]_vars => (~move.overwrite)'
  <2> SUFFICES ASSUME CatalogueInv, ~move.overwrite, [CatalogueNext]_vars PROVE ~move'.overwrite
    OBVIOUS
  <2>1. ASSUME NEW r \in Requests, Asking(r) \/ SeriesStep(r) \/ RecordStep(r) \/ TagStep(r)
        PROVE  move' = move
    BY <2>1 DEF Asking, RecordView, GetThumbnail, EnsureDuration, ReadToSave, EditVideo,
       DeleteVideo, AskBatch, WalkDirectory, Asks, SeriesStep, Resolve, FindTarget, InsertSeries,
       SetMembers, FindAffected, PullIds, SweepSeries, Refer, RecordStep, Save, CheckLocks,
       CheckOthers, CheckForeign, CheckListing, ReadSelection, BulkWrite, InsertListed,
       RemoveRecords, Recheck, UnlinkMany, UnlinkOne, TagStep, CountTags, PruneTags, Zenon
  <2>2. CASE BeginMove
    BY <2>2 DEF BeginMove, NothingIsReplaced
  <2>3. CASE CopyMove \/ FailMove \/ RepointMove \/ FinishMove
    <3>1. \E c : MoveTo(c)
      BY <2>3 DEF CopyMove, FailMove, RepointMove, FinishMove
    <3> QED BY <3>1 DEF CatalogueInv, MoveOK, MoveTo
  <2>4. CASE UNCHANGED vars
    BY <2>4 DEF vars
  <2> QED BY <2>1, <2>2, <2>3, <2>4 DEF CatalogueNext, MoveStep
<1> QED BY <1>1, <1>2, CatalogueAlways, PTL DEF CatalogueSpec

(* No broken row, where nothing was to be overwritten: whatever was        *)
(* edited, deleted, listed or moved.  An overwriting migration whose copy  *)
(* fails takes the file of the video it was to replace (_cleanup_target),  *)
(* so there is no such theorem without the hypothesis.                     *)
THEOREM RecordsHaveFiles == ASSUME NothingIsReplaced PROVE CatalogueSpec => []RowsHaveFiles
<1>1. RowsInv /\ ~move.overwrite => RowsHaveFiles
  BY DEF RowsInv, InOrder, Ground, Spared, Exists, RowsHaveFiles
<1> QED BY <1>1, RowsAlways, NeverReplacing, PTL

-----------------------------------------------------------------------------
(* Series and back-references, as long as no two actors were at one video  *)
(* or at series at once: what each request recalls of them at each of its  *)
(* calls, and that the two halves agree unless somebody is just between    *)
(* them.  The records d, the series a, their lists l are arguments.        *)

(* A request that has not settled the series of its records yet: these.    *)
Removing(q) == q.in.op \in {"batch delete", "directory delete"}
Owing(q) == q.pc \in Pulling \/ (Removing(q) /\ q.pc \in {"recheck", "unlink"})
OwedIds(q) == IF q.pc = "recheck" THEN Seen(q) ELSE q.ids

(* The records d, the series a and the lists l while ids are still to be   *)
(* taken out of every series but T, and refs to be pointed at T.           *)
Owed(ids, refs, T, d, a, l) ==
  /\ T \in a \cup {None} /\ refs \subseteq ids
  /\ \A i \in refs : d[i].path # None
  /\ \A i \in ids \ refs : d[i].series = T
  /\ \A i \in Ids \ ids : d[i].series \in a \cup {None}
  /\ T # None => l[T] # <<>> /\ Elems(l[T]) = {i \in Ids : d[i].series = T} \cup refs
  /\ \A s \in a \ {T} : Elems(l[s]) \ ids = {i \in Ids : d[i].series = s} \ ids

Listing(ids, T, a, l) == {s \in a \ {T} : Elems(l[s]) \cap ids # {}}
Filled(T, a, l) == \A s \in a \ {T} : l[s] # <<>>

(* How far the _pull has come. *)
Pulled(q, a, l) ==
  /\ q.pc # "sweep" => Filled(q.target, a, l)
  /\ q.pc = "pull" => q.affected = Listing(q.ids, q.target, a, l)
  /\ q.pc \in {"sweep", "refer"} => Listing(q.ids, q.target, a, l) = {}
  /\ q.pc = "sweep" =>
       \A s \in a : s # q.target /\ l[s] = <<>> <=> s \in q.affected /\ l[s] = <<>>

(* No back-reference worked out yet. *)
Unset == {"lock", "others", "foreign", "resolve", "read", "locks", "find",
          "remove", "recheck"}

Recalls(q, d, a, l) ==
  /\ q.pc \in Unset \/ (Removing(q) /\ q.pc = "unlink") => q.target = None /\ q.refs = {}
  /\ q.pc = "save" \/ (q.in.op = "edit" /\ q.pc = "lock") =>
       q.seen[q.in.id].series = d[q.in.id].series
  /\ q.pc \in Assigning \cup {"others", "foreign"} => WritesSeries(q.in)
  /\ q.pc \in {"target", "place"} =>
       /\ Elems(q.order) \subseteq Touches(q.in)
       /\ \A i \in Elems(q.order) : d[i].path # None /\ q.back[i] = d[i].series
       /\ q.in.op = "edit" => q.in.id \in Elems(q.order)
  /\ q.pc = "place" =>
       /\ q.target \in a \cup {None} /\ q.order # <<>>
       /\ Elems(q.placed) =
            (IF q.target = None THEN {} ELSE Elems(l[q.target])) \cup Elems(q.order)
  /\ q.in.op = "directory delete" /\ q.pc = "remove" => Seen(q) = {i \in Ids : d[i].path \in q.found}
  /\ q.in.op = "batch delete" /\ q.pc = "recheck" => \A i \in Seen(q) : d[i].path = None
  /\ q.pc \in Pulling =>
       /\ q.refs \subseteq Touches(q.in)
       /\ q.in.op = "edit" => q.in.id \in q.ids \/ d[q.in.id].series = q.target
  /\ Owing(q) => Owed(OwedIds(q), q.refs, q.target, d, a, l) /\ Pulled(q, a, l)

Unrecorded(d) == \A i \in Ids : d[i].path = None => d[i].series = None

Settled ==
  /\ Unrecorded(doc)
  /\ \A r \in Requests : Active(r) => Recalls(req[r], doc, alive, list)
  /\ (\A r \in Requests : Active(r) => ~Owing(req[r])) => Agree(doc, alive, list)
SeriesInv == ~contended => Settled

(* A request at p, on records d, series a and lists l. *)
Fits(p, d, a, l) ==
  /\ p = Done \/ Recalls(p, d, a, l)
  /\ p = Done \/ ~Owing(p) => Agree(d, a, l)

-----------------------------------------------------------------------------
(* Who stands where while a request is between the two halves. *)

(* Nothing left to take out, nor to point anywhere. *)
LEMMA NothingOwed ==
  ASSUME NEW ids \in SUBSET Ids, NEW T, NEW d, NEW a \in SUBSET Series, NEW l,
         Owed(ids, {}, T, d, a, l), Listing(ids, T, a, l) = {}, Filled(T, a, l)
  PROVE  Agree(d, a, l)
<1>1. \A s \in a : l[s] # <<>>
  BY CatalogueAssumption DEF Owed, Filled
<1>2. \A i \in Ids : d[i].series \in a \cup {None}
  BY DEF Owed
<1>3. ASSUME NEW s \in a PROVE Elems(l[s]) = {i \in Ids : d[i].series = s}
  <2>1. s # None
    BY CatalogueAssumption
  <2>2. CASE s = T
    BY <2>1, <2>2 DEF Owed
  <2>3. CASE s # T
    <3>1. Elems(l[s]) \cap ids = {}
      BY <2>3 DEF Listing
    <3>2. {i \in Ids : d[i].series = s} \cap ids = {}
      BY <2>3 DEF Owed
    <3>3. Elems(l[s]) \ ids = {i \in Ids : d[i].series = s} \ ids
      BY <2>3 DEF Owed
    <3> QED BY <3>1, <3>2, <3>3
  <2> QED BY <2>2, <2>3
<1> QED BY <1>1, <1>2, <1>3 DEF Agree

(* The back-references are written. *)
LEMMA ReferredTo ==
  ASSUME NEW ids \in SUBSET Ids, NEW refs, NEW T, NEW d, NEW e, NEW a \in SUBSET Series, NEW l,
         Owed(ids, refs, T, d, a, l),
         \A i \in Ids : e[i].series = IF i \in refs THEN T ELSE d[i].series
  PROVE  Owed(ids, {}, T, e, a, l)
<1>1. T \in a \cup {None} /\ refs \subseteq ids
  BY DEF Owed
<1>2. \A i \in ids : e[i].series = T
  BY <1>1 DEF Owed
<1>3. \A i \in Ids \ ids : e[i].series = d[i].series
  BY <1>1
<1>4. T # None => l[T] # <<>> /\ Elems(l[T]) = {i \in Ids : e[i].series = T}
  BY <1>1 DEF Owed
<1>5. \A s \in a \ {T} : Elems(l[s]) \ ids = {i \in Ids : e[i].series = s} \ ids
  BY <1>1, <1>3 DEF Owed
<1>6. \A i \in Ids \ ids : e[i].series \in a \cup {None}
  BY <1>3 DEF Owed
<1> QED BY <1>1, <1>2, <1>4, <1>5, <1>6 DEF Owed

(* The calls after the series: nothing is recalled of them. *)
LEMMA NothingRecalled ==
  ASSUME NEW q, NEW d, NEW a, NEW l,
         q.pc \in {"count", "prune", "bulk", "insert"} \/ (q.pc = "unlink" /\ ~Removing(q))
  PROVE  Recalls(q, d, a, l) /\ ~Owing(q)
BY DEF Recalls, Owing, Unset, Assigning, Pulling

LEMMA CountFits ==
  ASSUME NEW q \in Query, q.in.op # "list", NEW d, NEW a, NEW l, Agree(d, a, l)
  PROVE  Fits(AfterCount(q), d, a, l) /\ Fits(ToCount(q), d, a, l) /\ Fits(ToBulk(q), d, a, l)
<1>1. Fits(Done, d, a, l)
  BY DEF Fits
<1>2. \A c : LET p == [q EXCEPT !.pc = c] IN p.pc = c /\ p.in = q.in
  BY DEF Query
<1>3. q.in.op = "delete" => Fits([q EXCEPT !.pc = "unlink"], d, a, l)
  BY <1>2, NothingRecalled DEF Fits, Removing
<1>4. Fits([q EXCEPT !.pc = "count"], d, a, l) /\ Fits([q EXCEPT !.pc = "bulk"], d, a, l)
  BY <1>2, NothingRecalled DEF Fits
<1> QED BY <1>1, <1>3, <1>4 DEF AfterCount, ToCount, ToBulk

LEMMA AfterSeriesFits ==
  ASSUME NEW q, AtWork(q), NEW d, NEW a, NEW l, Agree(d, a, l), q.in.op # "list",
         q.in.op = "edit" => d[q.in.id].series = q.target
  PROVE  Fits(AfterSeries(q), d, a, l)
<1>1. q \in Query /\ q.in.id \in Ids /\ q.target \in Series \cup {None} /\ q.seen \in [Ids -> Rec]
  BY DEF AtWork, Input, Question, QueryOK, Query
<1>2. ASSUME q.in.op = "edit" PROVE Fits(AfterSeries(q), d, a, l)
  <2> DEFINE e == [q.seen EXCEPT ![q.in.id].series = q.target]
             p == [q EXCEPT !.pc = "save", !.seen[q.in.id].series = q.target]
  <2>1. AfterSeries(q) = p
    BY <1>2 DEF AfterSeries
  <2>2. e[q.in.id].series = q.target
    BY <1>1 DEF Rec
  <2>3. p = [[q EXCEPT !.pc = "save"] EXCEPT !.seen = e]
    BY <1>1 DEF Query
  <2>4. p.pc = "save" /\ p.in = q.in /\ p.seen = e
    BY <1>1, <2>3 DEF Query
  <2> HIDE DEF p, e
  <2>5. Recalls(p, d, a, l) /\ ~Owing(p)
    BY <1>2, <2>2, <2>4 DEF Recalls, Owing, Unset, Assigning, Pulling
  <2> QED BY <2>1, <2>5 DEF Fits
<1>3. ASSUME q.in.op # "edit" PROVE Fits(AfterSeries(q), d, a, l)
  BY <1>1, <1>3, CountFits DEF AfterSeries
<1> QED BY <1>2, <1>3

(* What a request between the two halves recalls. *)
Between(q, d, a, l) ==
  /\ WritesSeries(q.in) /\ q.refs \subseteq Touches(q.in)
  /\ q.in.op = "edit" => q.in.id \in q.ids \/ d[q.in.id].series = q.target
  /\ Owed(q.ids, q.refs, q.target, d, a, l)

LEMMA AfterPullFits ==
  ASSUME NEW q, AtWork(q), NEW d, NEW a \in SUBSET Series, NEW l, q.in.op # "list",
         Between(q, d, a, l), Listing(q.ids, q.target, a, l) = {}, Filled(q.target, a, l)
  PROVE  Fits(AfterPull(q), d, a, l)
<1>1. q \in Query /\ q.ids \in SUBSET Ids /\ q.in.id \in Ids
  BY DEF AtWork, QueryOK, Query, Input, Question
<1>2. CASE q.refs = {}
  <2>1. Agree(d, a, l)
    BY <1>1, <1>2, NothingOwed DEF Between
  <2>2. q.in.op = "edit" => d[q.in.id].series = q.target
    BY <1>2 DEF Between, Owed
  <2> QED BY <1>2, <2>1, <2>2, AfterSeriesFits DEF AfterPull
<1>3. CASE q.refs # {}
  <2> DEFINE p == [q EXCEPT !.pc = "refer"]
  <2>1. p.pc = "refer" /\ p.in = q.in /\ p.ids = q.ids /\ p.refs = q.refs /\ p.target = q.target
    BY <1>1 DEF Query
  <2>2. AfterPull(q) = p
    BY <1>3 DEF AfterPull
  <2> HIDE DEF p
  <2>3. Owing(p) /\ OwedIds(p) = q.ids
    BY <2>1 DEF Owing, OwedIds, Pulling
  <2>4. Pulled(p, a, l)
    BY <2>1 DEF Pulled
  <2>5. Recalls(p, d, a, l)
    BY <2>1, <2>3, <2>4 DEF Recalls, Between, Unset, Assigning, Pulling
  <2>6. p # Done
    BY <2>1, DoneIs
  <2> QED BY <2>2, <2>3, <2>5, <2>6 DEF Fits
<1> QED BY <1>2, <1>3

LEMMA ToPullFits ==
  ASSUME NEW q, AtWork(q), NEW d, NEW a \in SUBSET Series, NEW l, q.in.op # "list",
         Between(q, d, a, l), Filled(q.target, a, l)
  PROVE  Fits(ToPull(q), d, a, l)
<1>1. q \in Query
  BY DEF AtWork, QueryOK
<1>2. CASE q.ids = {}
  <2>1. Listing(q.ids, q.target, a, l) = {}
    BY <1>2 DEF Listing
  <2> QED BY <1>2, <2>1, AfterPullFits DEF ToPull
<1>3. CASE q.ids # {}
  <2> DEFINE p == [q EXCEPT !.pc = "affected"]
  <2>1. p.pc = "affected" /\ p.in = q.in /\ p.ids = q.ids /\ p.refs = q.refs /\ p.target = q.target
    BY <1>1 DEF Query
  <2>2. ToPull(q) = p
    BY <1>3 DEF ToPull
  <2> HIDE DEF p
  <2>3. Owing(p) /\ OwedIds(p) = q.ids
    BY <2>1 DEF Owing, OwedIds, Pulling
  <2>4. Pulled(p, a, l)
    BY <2>1 DEF Pulled
  <2>5. Recalls(p, d, a, l)
    BY <2>1, <2>3, <2>4 DEF Recalls, Between, Unset, Assigning, Pulling
  <2>6. p # Done
    BY <2>1, DoneIs
  <2> QED BY <2>2, <2>3, <2>5, <2>6 DEF Fits
<1> QED BY <1>2, <1>3

-----------------------------------------------------------------------------
(* What the others do in the meantime. *)

(* Nobody's series changes, and no record goes. *)
LEMMA OwedCalm ==
  ASSUME NEW ids \in SUBSET Ids, NEW refs, NEW T, NEW d, NEW e, NEW a, NEW l,
         Owed(ids, refs, T, d, a, l),
         \A i \in Ids : e[i].series = d[i].series,
         \A i \in Ids : d[i].path # None => e[i].path # None
  PROVE  Owed(ids, refs, T, e, a, l)
<1>1. \A i \in refs : e[i].path # None
  BY DEF Owed
<1>2. \A i \in ids \ refs : e[i].series = T
  BY DEF Owed
<1>3. \A i \in Ids \ ids : e[i].series \in a \cup {None}
  BY DEF Owed
<1>4. \A s : {i \in Ids : e[i].series = s} = {i \in Ids : d[i].series = s}
  OBVIOUS
<1> QED BY <1>1, <1>2, <1>3, <1>4 DEF Owed

LEMMA AgreeCalm ==
  ASSUME NEW d, NEW e, NEW a, NEW l, Agree(d, a, l),
         \A i \in Ids : e[i].series = d[i].series
  PROVE  Agree(e, a, l)
<1>1. \A s : {i \in Ids : e[i].series = s} = {i \in Ids : d[i].series = s}
  OBVIOUS
<1> QED BY <1>1 DEF Agree

LEMMA RecallsCalm ==
  ASSUME NEW q \in Query, q.in.id \in Ids, NEW d, NEW e, NEW a, NEW l, Recalls(q, d, a, l),
         \A i \in Ids : e[i].series = d[i].series,
         \A i \in Ids : d[i].path # None => e[i].path # None,
         \A i \in Seen(q) : d[i].path = None => e[i].path = None,
         q.in.op = "directory delete" => \A i \in Ids : e[i].path = d[i].path
  PROVE  Recalls(q, e, a, l)
<1>1. Elems(q.order) \subseteq Ids /\ q.ids \in SUBSET Ids /\ Seen(q) \in SUBSET Ids
      /\ OwedIds(q) \in SUBSET Ids
  <2>1. q.order \in Seq(Ids) /\ q.ids \in SUBSET Ids
    BY DEF Query
  <2>2. Seen(q) \in SUBSET Ids
    BY DEF Seen
  <2> QED BY <2>1, <2>2, ElemsIn DEF OwedIds
<1>2. \A i \in Elems(q.order) : d[i].path # None /\ q.back[i] = d[i].series =>
                                e[i].path # None /\ q.back[i] = e[i].series
  BY <1>1
<1>3. Owing(q) => Owed(OwedIds(q), q.refs, q.target, e, a, l)
  <2>1. Owing(q) => Owed(OwedIds(q), q.refs, q.target, d, a, l)
    BY DEF Recalls
  <2> QED BY <1>1, <2>1, OwedCalm
<1>4. q.in.op = "directory delete" /\ q.pc = "remove" => Seen(q) = {i \in Ids : e[i].path \in q.found}
  BY DEF Recalls
<1>5. q.in.op = "batch delete" /\ q.pc = "recheck" => \A i \in Seen(q) : e[i].path = None
  BY <1>1 DEF Recalls
<1> QED BY <1>2, <1>3, <1>4, <1>5 DEF Recalls

(* A request that does not write series hardly recalls anything. *)
LEMMA RecallsAside ==
  ASSUME NEW q, QueryOK(q), q.in.op \in Ops, ~WritesSeries(q.in), q.pc \in PcsOf(q.in.op),
         NEW d, NEW e, NEW a, NEW l, NEW b, NEW k, Recalls(q, d, a, l),
         \A i \in Touches(q.in) : e[i].series = d[i].series
  PROVE  Recalls(q, e, b, k) /\ ~Owing(q)
<1>1. /\ q.pc \notin Assigning \cup {"others", "foreign"}
      /\ ~Removing(q)
  BY DEF Recalls, WritesSeries, Removing
<1>2. /\ q.in.op \notin {"directory delete", "batch delete"} /\ ~Owing(q)
      /\ q.pc \notin Pulling \cup {"target", "place"}
  BY <1>1 DEF Removing, Owing, Assigning
<1>3. q.pc = "save" \/ q.in.op = "edit" => q.in.id \in Touches(q.in)
  BY DEF QueryOK, OneRecord, Touches, ByDirectory
<1> QED BY <1>1, <1>2, <1>3 DEF Recalls

LEMMA OwingWrites ==
  ASSUME NEW q, NEW d, NEW a, NEW l, Recalls(q, d, a, l), Owing(q)
  PROVE  WritesSeries(q.in)
BY DEF Recalls, Owing, Assigning, Removing, WritesSeries

(* While one request writes series, the others do not. *)
LEMMA OneWrites ==
  ASSUME RequestsOK, InOrder, Settled, NEW r \in Requests, Active(r), WritesSeries(req[r].in)
  PROVE  /\ \A u \in Requests \ {r} : Active(u) =>
               ~WritesSeries(req[u].in) /\ ~Owing(req[u])
         /\ ~Owing(req[r]) => Agree(doc, alive, list)
<1>1. ASSUME NEW u \in Requests \ {r}, Active(u)
      PROVE  ~WritesSeries(req[u].in) /\ ~Owing(req[u])
  <2>1. ~WritesSeries(req[u].in)
    BY <1>1 DEF InOrder, KeepApart, Crosses
  <2> QED BY <1>1, <2>1, OwingWrites DEF Settled
<1>2. ~Owing(req[r]) => Agree(doc, alive, list)
  BY <1>1 DEF Settled
<1> QED BY <1>1, <1>2

(* Request r makes a step, and nobody else recalls anything wrong. *)
LEMMA SettledStep ==
  ASSUME RequestsOK, NEW r \in Requests, NEW p, Go(r, p), Unrecorded(doc'),
         p = Done \/ Recalls(p, doc', alive', list'),
         \A u \in Requests \ {r} : Active(u) => Recalls(req[u], doc', alive', list'),
         /\ p = Done \/ ~Owing(p)
         /\ \A u \in Requests \ {r} : Active(u) => ~Owing(req[u])
         => Agree(doc', alive', list')
  PROVE  Settled'
<1>1. req' = [req EXCEPT ![r] = p] /\ req \in [Requests -> Query]
  BY DEF Go, RequestsOK
<1>2. req'[r] = p /\ \A u \in Requests \ {r} : req'[u] = req[u]
  BY <1>1
<1>3. \A u \in Requests \ {r} : Active(u)' <=> Active(u)
  BY <1>2 DEF Active
<1>4. Active(r)' => p # Done
  BY <1>2, DoneIs DEF Active
<1>5. \A u \in Requests : Active(u)' => Recalls(req'[u], doc', alive', list')
  BY <1>2, <1>3, <1>4
<1>6. ASSUME \A u \in Requests : Active(u)' => ~Owing(req'[u]) PROVE Agree(doc', alive', list')
  <2>1. p.pc \in {"new", "done"} \/ ~Owing(p)
    BY <1>2, <1>6 DEF Active
  <2>2. p.pc \in {"new", "done"} => ~Owing(p)
    BY DEF Owing, Pulling
  <2> QED BY <1>2, <1>3, <1>6, <2>1, <2>2
<1> QED BY <1>5, <1>6 DEF Settled, Unrecorded, Recalls, Agree

(* A step that changes nobody's series and deletes no record. *)
LEMMA CalmSettles ==
  ASSUME RequestsOK, InOrder, Settled, NEW r \in Requests, NEW p, Go(r, p), alive' = alive, list' = list,
         \A i \in Ids : doc'[i].series = doc[i].series,
         \A i \in Ids : doc[i].path # None => doc'[i].path # None,
         \A i \in Ids : doc[i].path = None => doc'[i].path = None \/ i \in fresh,
         \/ \A i \in Ids : doc'[i].path = doc[i].path
         \/ \A u \in Requests \ {r} : Active(u) => req[u].in.op # "directory delete",
         p = Done \/ Recalls(p, doc', alive, list),
         (p = Done \/ ~Owing(p)) /\ Active(r) /\ Owing(req[r]) => Agree(doc', alive, list)
  PROVE  Settled'
<1>1. Unrecorded(doc')
  BY DEF Settled, Unrecorded
<1>2. ASSUME NEW u \in Requests \ {r}, Active(u) PROVE Recalls(req[u], doc', alive', list')
  <2>1. req[u] \in Query /\ req[u].in.id \in Ids /\ Recalls(req[u], doc, alive, list)
    BY <1>2, ActiveOne DEF Settled
  <2>2. Seen(req[u]) \cap fresh = {} /\ Seen(req[u]) \subseteq Ids
    BY DEF RequestsOK, Seen
  <2>3. \A i \in Seen(req[u]) : doc[i].path = None => doc'[i].path = None
    BY <2>2
  <2>4. req[u].in.op = "directory delete" => \A i \in Ids : doc'[i].path = doc[i].path
    BY <1>2
  <2> QED BY <2>1, <2>3, <2>4, RecallsCalm
<1>3. ASSUME p = Done \/ ~Owing(p), \A u \in Requests \ {r} : Active(u) => ~Owing(req[u])
      PROVE  Agree(doc', alive', list')
  <2>1. CASE Active(r) /\ Owing(req[r])
    BY <1>3, <2>1
  <2>2. CASE ~(Active(r) /\ Owing(req[r]))
    <3>1. Agree(doc, alive, list)
      BY <1>3, <2>2 DEF Settled
    <3> QED BY <3>1, AgreeCalm
  <2> QED BY <2>1, <2>2
<1> QED BY <1>1, <1>2, <1>3, SettledStep

(* A step that reads. *)
LEMMA ReadSettles ==
  ASSUME RequestsOK, InOrder, Settled, NEW r \in Requests, NEW p, Go(r, p),
         UNCHANGED <<doc, alive, list>>,
         \/ Fits(p, doc, alive, list)
         \/ ~Owing(req[r]) /\ (p = Done \/ Recalls(p, doc, alive, list))
  PROVE  Settled'
<1>1. /\ p = Done \/ Recalls(p, doc', alive, list)
      /\ (p = Done \/ ~Owing(p)) /\ Owing(req[r]) => Agree(doc', alive, list)
  BY DEF Fits
<1> QED BY <1>1, CalmSettles

(* A step of the one request that writes series. *)
LEMMA WriteSettles ==
  ASSUME RequestsOK, InOrder, Settled, NEW r \in Requests, Active(r), WritesSeries(req[r].in),
         NEW p, Go(r, p), Unrecorded(doc'), Fits(p, doc', alive', list'),
         \A i \in Ids \ Touches(req[r].in) : doc'[i].series = doc[i].series
  PROVE  Settled'
<1>1. ASSUME NEW u \in Requests \ {r}, Active(u) PROVE Recalls(req[u], doc', alive', list')
  <2>1. /\ QueryOK(req[u]) /\ req[u].in.op \in Ops /\ Touches(req[u].in) \subseteq Ids
        /\ Recalls(req[u], doc, alive, list) /\ req[u].pc \in PcsOf(req[u].in.op)
    BY <1>1, ActiveOne DEF Settled, AtWork, InOrder, Knows
  <2>2. ~WritesSeries(req[u].in)
    BY <1>1, OneWrites
  <2>3. Touches(req[u].in) \cap Touches(req[r].in) = {}
    BY <1>1 DEF InOrder, KeepApart, Crosses
  <2>4. \A i \in Touches(req[u].in) : doc'[i].series = doc[i].series
    BY <2>1, <2>3
  <2> HIDE DEF WritesSeries
  <2> QED BY <2>1, <2>2, <2>4, RecallsAside
<1> QED BY <1>1, SettledStep DEF Fits

-----------------------------------------------------------------------------
(* The calls on the series. *)

(* What holds as long as nobody contends. *)
Untroubled == CatalogueInv /\ RowsInv /\ ~contended /\ InOrder /\ Settled /\ ~move.overwrite

LEMMA AtSeries ==
  ASSUME Untroubled, NEW r \in Requests, req[r].pc \in Assigning
  PROVE  /\ RequestsOK /\ DataOK /\ Active(r) /\ AtWork(req[r]) /\ req[r] \in Query
         /\ req[r].in.op \in Serial /\ WritesSeries(req[r].in) /\ Recalls(req[r], doc, alive, list)
         /\ req[r].in.id \in Ids /\ req[r].in.ids \in Seq(Ids) /\ req[r].in \in Input
         /\ req[r].pc \notin Pulling =>
              req[r].in.op \in {"edit", "batch update"} /\ Agree(doc, alive, list)
         /\ alive \in SUBSET Series /\ alive \cap unborn = {} /\ list \in [Series -> Seq(Ids)]
<1>1. RequestsOK /\ DataOK
  BY DEF Untroubled, CatalogueInv, Kept
<1>2. /\ Active(r) /\ req[r].in.op \in Serial
      /\ req[r].pc \in {"resolve", "target", "place"} => req[r].in.op \in {"edit", "batch update"}
  BY <1>1, SerialOnes DEF Untroubled
<1>3. AtWork(req[r]) /\ req[r] \in Query /\ req[r].in \in Input /\ req[r].in.id \in Ids
      /\ req[r].in.ids \in Seq(Ids)
  BY <1>1, <1>2, ActiveOne DEF Input, Question
<1>4. Recalls(req[r], doc, alive, list)
  BY <1>2 DEF Untroubled, Settled
<1>5. WritesSeries(req[r].in)
  BY <1>4 DEF Recalls
<1>6. ASSUME req[r].pc \notin Pulling
      PROVE  req[r].in.op \in {"edit", "batch update"} /\ Agree(doc, alive, list)
  <2>1. req[r].in.op \in {"edit", "batch update"}
    BY <1>2, <1>6 DEF Assigning
  <2>2. ~Owing(req[r])
    BY <1>6, <2>1 DEF Owing, Removing
  <2> QED BY <1>1, <1>2, <1>5, <2>1, <2>2, OneWrites DEF Untroubled
<1> QED BY <1>1, <1>2, <1>3, <1>4, <1>5, <1>6 DEF DataOK

LEMMA ResolveSettles ==
  ASSUME Untroubled, NEW r \in Requests, Resolve(r)
  PROVE  Settled'
<1> DEFINE q == req[r]
           named == IF q.in.op = "edit" /\ q.in.series = "clear" THEN {q.in.id}
                    ELSE Elems(q.in.ids)
           there == {i \in named : Exists(i)}
           back == [i \in Ids |-> doc[i].series]
           refs == {i \in there : doc[i].series # None}
           known == [q EXCEPT !.back = back]
           order == Resolved(q.in.ids, there)
           asked == [known EXCEPT !.pc = "target", !.order = order]
           pulls == [known EXCEPT !.ids = there, !.refs = refs]
           p == IF q.in.series = "assign" THEN asked ELSE ToPull(pulls)
<1>1. q.pc = "resolve" /\ UNCHANGED <<doc, alive, list>> /\ Go(r, p)
  BY DEF Resolve, dataVars, seriesVars
<1>2. /\ RequestsOK /\ DataOK /\ AtWork(q) /\ q \in Query /\ Recalls(q, doc, alive, list)
      /\ q.in.op \in {"edit", "batch update"} /\ Agree(doc, alive, list) /\ WritesSeries(q.in)
      /\ q.in.id \in Ids /\ q.in.ids \in Seq(Ids) /\ alive \in SUBSET Series /\ Active(r)
  BY <1>1, AtSeries DEF Assigning, Pulling
<1>3. /\ IsInjectiveSeq(q.order) /\ IsInjectiveSeq(q.placed) /\ q.in.series \in {"clear", "assign"}
      /\ (q.in.op = "edit" => Exists(q.in.id))
  <2>1. q.in.series \in {"clear", "assign"}
    <3>1. q.in \in Input
      BY <1>2 DEF AtWork
    <3> QED BY <1>2, <3>1 DEF WritesSeries, Input, Question, SeriesInputs
  <2>2. q.in.op = "edit" => Exists(q.in.id)
    BY <1>2 DEF Untroubled, InOrder, Knows, ByOne, OneRecord, Exists
  <2> QED BY <1>2, <2>1, <2>2 DEF AtWork, QueryOK
<1>4. /\ named \subseteq Touches(q.in) /\ named \in SUBSET Ids /\ there \in SUBSET named
      /\ refs \in SUBSET there /\ back \in [Ids -> Series \cup {None}] /\ order \in Seq(Ids)
      /\ \A i \in Ids : back[i] = doc[i].series
  <2>1. Elems(q.in.ids) \in SUBSET Ids /\ Touches(q.in) = {q.in.id} \cup Elems(q.in.ids)
    BY <1>2, ElemsIn DEF Touches, ByDirectory
  <2>2. back \in [Ids -> Series \cup {None}]
    BY <1>2 DEF DataOK, Rec
  <2>3. order \in Seq(Ids)
    BY <1>2, ResolvedLists
  <2> HIDE DEF order, q
  <2> QED BY <1>2, <2>1, <2>2, <2>3
<1>5. Elems(order) = Elems(q.in.ids) \cap there
  BY <1>2, ResolvedNames
<1>6. \A i \in named : i \in there <=> doc[i].path # None
  BY DEF Exists
<1> HIDE DEF q, back, refs, order
<1>7. ASSUME q.in.series = "assign" PROVE p = asked /\ Recalls(asked, doc, alive, list)
  <2>1. /\ asked.pc = "target" /\ asked.in = q.in /\ asked.order = order /\ asked.back = back
    BY <1>2, <1>4 DEF Query
  <2>2. q.in.op = "edit" => q.in.id \in Elems(order)
    <3>1. q.in \in Input
      BY <1>2 DEF AtWork
    <3>2. q.in.op = "edit" => q.in.id \in Elems(q.in.ids) /\ q.in.id \in there
      BY <1>3, <1>7, <3>1 DEF Input, Exists
    <3> QED BY <1>5, <3>2
  <2> HIDE DEF asked
  <2>3. \A i \in Elems(order) : i \in Touches(q.in) /\ doc[i].path # None /\ back[i] = doc[i].series
    BY <1>4, <1>5, <1>6
  <2> QED BY <1>2, <1>7, <2>1, <2>2, <2>3 DEF Recalls, Owing, Unset, Pulling, Removing
<1>8. ASSUME q.in.series # "assign" PROVE p = ToPull(pulls) /\ Fits(ToPull(pulls), doc, alive, list)
  <2>1. /\ pulls \in Query /\ pulls.pc = q.pc /\ pulls.in = q.in /\ pulls.seen = q.seen
        /\ pulls.order = q.order /\ pulls.placed = q.placed /\ pulls.ids = there
        /\ pulls.refs = refs /\ pulls.target = q.target
    BY <1>2, <1>4 DEF Query
  <2>2. q.target = None
    BY <1>1, <1>2 DEF Recalls, Unset
  <2> HIDE DEF pulls
  <2>3. AtWork(pulls)
    BY <1>1, <1>2, <1>3, <2>1, Changed
  <2>4. Owed(there, refs, None, doc, alive, list) /\ Filled(None, alive, list)
    <3>1. \A i \in refs : doc[i].path # None
      BY <1>4, <1>6
    <3>2. \A i \in there \ refs : doc[i].series = None
      BY DEF refs
    <3> HIDE DEF there
    <3> QED BY <1>2, <1>4, <3>1, <3>2 DEF Owed, Filled, Agree
  <2>5. q.in.op = "edit" => q.in.id \in there
    BY <1>3, <1>8
  <2> HIDE DEF there
  <2>6. Between(pulls, doc, alive, list)
    BY <1>2, <1>4, <2>1, <2>2, <2>4, <2>5 DEF Between
  <2>7. Fits(ToPull(pulls), doc, alive, list)
    BY <1>2, <2>1, <2>2, <2>3, <2>4, <2>6, ToPullFits
  <2> QED BY <1>8, <2>7
<1> HIDE DEF p
<1>9. ~Owing(q)
  BY <1>1, <1>2 DEF Owing, Pulling, Removing
<1> QED BY <1>1, <1>2, <1>3, <1>7, <1>8, <1>9, ReadSettles DEF Untroubled, q

(* The list of the target has the selection; the back-references come next. *)
LEMMA ToJoinFits ==
  ASSUME NEW q, AtWork(q), q.in.op \in {"edit", "batch update"}, WritesSeries(q.in),
         NEW d, NEW a \in SUBSET Series, NEW l, NEW T \in a,
         Elems(q.order) \subseteq Touches(q.in),
         \A i \in Elems(q.order) : d[i].path # None /\ q.back[i] = d[i].series,
         q.in.op = "edit" => q.in.id \in Elems(q.order),
         Elems(l[T]) = {i \in Ids : d[i].series = T} \cup Elems(q.order),
         \A s \in a \ {T} : Elems(l[s]) = {i \in Ids : d[i].series = s},
         \A i \in Ids : d[i].series \in a \cup {None},
         \A s \in a : l[s] # <<>>
  PROVE  Fits(ToJoin(q, T), d, a, l)
<1> DEFINE J == Joining(q, T)  p == [q EXCEPT !.target = T, !.ids = J, !.refs = J]
<1>1. q \in Query /\ q.order \in Seq(Ids) /\ IsInjectiveSeq(q.order) /\ IsInjectiveSeq(q.placed)
  BY DEF AtWork, QueryOK, Query
<1>2. /\ J \in SUBSET Ids /\ J \subseteq Elems(q.order)
      /\ \A i \in Elems(q.order) \ J : d[i].series = T
  BY <1>1, ElemsIn DEF Joining
<1>3. /\ p \in Query /\ p.pc = q.pc /\ p.in = q.in /\ p.seen = q.seen
      /\ p.order = q.order /\ p.members = q.members /\ p.placed = q.placed
      /\ p.target = T /\ p.ids = J /\ p.refs = J
  BY <1>1, <1>2 DEF Query
<1>4. ToJoin(q, T) = ToPull(p)
  BY DEF ToJoin
<1> HIDE DEF p, J
<1>5. AtWork(p)
  BY <1>3 DEF AtWork, QueryOK, Planned, Seen
<1>6. Owed(J, J, T, d, a, l)
  <2>1. Elems(q.order) \subseteq Ids
    BY <1>1, ElemsIn
  <2>2. Elems(l[T]) = {i \in Ids : d[i].series = T} \cup J
    BY <1>2, <2>1
  <2> QED BY <1>2, <2>2 DEF Owed
<1>7. Between(p, d, a, l)
  BY <1>2, <1>3, <1>6 DEF Between
<1>8. Filled(T, a, l)
  BY DEF Filled
<1> QED BY <1>3, <1>4, <1>5, <1>7, <1>8, ToPullFits

(* What a request recalls that is about to write a list. *)
LEMMA AtTarget ==
  ASSUME Untroubled, NEW r \in Requests, req[r].pc \in {"target", "place"}
  PROVE  LET q == req[r]
         IN  /\ q.order \in Seq(Ids) /\ IsInjectiveSeq(q.order) /\ IsInjectiveSeq(q.placed)
             /\ Elems(q.order) \subseteq Touches(q.in) /\ ~Owing(q)
             /\ \A i \in Elems(q.order) : doc[i].path # None /\ q.back[i] = doc[i].series
             /\ q.in.op = "edit" => q.in.id \in Elems(q.order)
<1> DEFINE q == req[r]
<1>1. AtWork(q) /\ Recalls(q, doc, alive, list) /\ q.in.op \in {"edit", "batch update"}
  BY AtSeries DEF Assigning, Pulling
<1> HIDE DEF q
<1>2. q.pc \in {"target", "place"}
  BY DEF q
<1>3. ~Owing(q)
  BY <1>1, <1>2 DEF Owing, Pulling, Removing
<1>4. q.order \in Seq(Ids) /\ IsInjectiveSeq(q.order) /\ IsInjectiveSeq(q.placed)
  BY <1>1 DEF AtWork, QueryOK, Query
<1> QED BY <1>1, <1>2, <1>3, <1>4 DEF Recalls, q

LEMMA FindTargetSettles ==
  ASSUME Untroubled, NEW r \in Requests, FindTarget(r)
  PROVE  Settled'
<1> DEFINE q == req[r]
           target == IF Named(q.in.name) = {} THEN None
                     ELSE CHOOSE s \in Named(q.in.name) : TRUE
           members == IF target = None THEN <<>> ELSE list[target]
           placed == Place(members, q.order)
           settled == [q EXCEPT !.target = target]
           stored == [q EXCEPT !.pc = "place", !.target = target, !.members = members,
                               !.placed = placed]
<1>1. /\ q.pc = "target" /\ UNCHANGED <<doc, alive, list>>
      /\ \/ q.order = <<>> /\ Go(r, AfterSeries(settled))
         \/ q.order # <<>> /\ Go(r, stored)
         \/ q.order # <<>> /\ target # None /\ placed = members /\ Go(r, ToJoin(q, target))
  BY DEF FindTarget, dataVars, seriesVars
<1>2. /\ RequestsOK /\ DataOK /\ AtWork(q) /\ q \in Query /\ Recalls(q, doc, alive, list)
      /\ q.in.op \in {"edit", "batch update"} /\ Agree(doc, alive, list) /\ WritesSeries(q.in)
      /\ alive \in SUBSET Series /\ list \in [Series -> Seq(Ids)]
  BY <1>1, AtSeries DEF Assigning, Pulling
<1>3. /\ q.order \in Seq(Ids) /\ IsInjectiveSeq(q.order) /\ IsInjectiveSeq(q.placed)
      /\ Elems(q.order) \subseteq Touches(q.in) /\ ~Owing(q)
      /\ \A i \in Elems(q.order) : doc[i].path # None /\ q.back[i] = doc[i].series
      /\ q.in.op = "edit" => q.in.id \in Elems(q.order)
  BY <1>1, AtTarget
<1>4. target \in alive \cup {None}
  BY DEF Named
<1>5. /\ members \in Seq(Ids) /\ IsInjectiveSeq(members)
      /\ members = IF target = None THEN <<>> ELSE list[target]
  BY <1>2, <1>4, EmptyListOK DEF DataOK, ListsVideosOnce
<1>6. Elems(placed) = Elems(members) \cup Elems(q.order)
  <2>1. \A m, o \in Seq(Ids) : IsInjectiveSeq(m) /\ IsInjectiveSeq(o) =>
          Elems(Place(m, o)) = Elems(m) \cup Elems(o)
    BY PlaceLists
  <2> HIDE DEF members, q
  <2> QED BY <1>3, <1>5, <2>1
<1>7. q.order = <<>> <=> Elems(q.order) = {}
  BY <1>3, EmptyElems
<1> HIDE DEF q, target, members, placed
<1>8. ASSUME q.order = <<>> PROVE Fits(AfterSeries(settled), doc, alive, list)
  <2>1. settled \in Query /\ settled.pc = q.pc /\ settled.in = q.in /\ settled.seen = q.seen
        /\ settled.order = q.order /\ settled.placed = q.placed
    BY <1>2, <1>4 DEF Query
  <2> HIDE DEF settled
  <2>2. AtWork(settled)
    BY <1>1, <1>2, <1>3, <2>1, Changed
  <2>3. q.in.op = "batch update"
    BY <1>2, <1>3, <1>7, <1>8
  <2> QED BY <1>2, <2>1, <2>2, <2>3, AfterSeriesFits
<1>9. ASSUME q.order # <<>> PROVE Recalls(stored, doc, alive, list)
  <2>1. stored.pc = "place" /\ stored.in = q.in /\ stored.order = q.order /\ stored.back = q.back
        /\ stored.target = target /\ stored.placed = placed
    BY <1>2 DEF Query
  <2> HIDE DEF stored
  <2>2. Elems(placed) =
          (IF target = None THEN {} ELSE Elems(list[target])) \cup Elems(q.order)
    <3>1. Elems(<<>>) = {}
      BY DEF Elems
    <3> QED BY <1>5, <1>6, <3>1
  <2> QED BY <1>2, <1>3, <1>4, <1>9, <2>1, <2>2 DEF Recalls, Owing, Unset, Pulling, Removing
<1>10. ASSUME target # None, placed = members PROVE Fits(ToJoin(q, target), doc, alive, list)
  <2>1. target \in alive /\ members = list[target]
    BY <1>4, <1>5, <1>10
  <2>2. Elems(list[target]) = {i \in Ids : doc[i].series = target} \cup Elems(q.order)
    BY <1>2, <1>6, <1>10, <2>1 DEF Agree
  <2> QED BY <1>2, <1>3, <2>1, <2>2, ToJoinFits DEF Agree
<1> HIDE DEF settled, stored
<1> QED BY <1>1, <1>2, <1>3, <1>8, <1>9, <1>10, ReadSettles DEF Untroubled, q

(* A new series: nobody refers to it yet. *)
LEMMA InsertSeriesSettles ==
  ASSUME Untroubled, NEW r \in Requests, InsertSeries(r)
  PROVE  Settled'
<1> DEFINE q == req[r]
<1>1. /\ q.pc = "place" /\ q.target = None /\ doc' = doc
      /\ \/ Go(r, Done) /\ UNCHANGED <<alive, list>>
         \/ \E s \in unborn : /\ alive' = alive \cup {s} /\ list' = [list EXCEPT ![s] = q.placed]
                              /\ Go(r, ToJoin(q, s))
  BY DEF InsertSeries, Finish, seriesVars
<1>2. /\ RequestsOK /\ DataOK /\ AtWork(q) /\ q \in Query /\ Recalls(q, doc, alive, list)
      /\ q.in.op \in {"edit", "batch update"} /\ Agree(doc, alive, list) /\ WritesSeries(q.in)
      /\ alive \in SUBSET Series /\ list \in [Series -> Seq(Ids)] /\ Active(r)
      /\ unborn \subseteq Series /\ alive \cap unborn = {}
  BY <1>1, AtSeries DEF Assigning, Pulling, DataOK
<1>3. /\ Elems(q.order) \subseteq Touches(q.in) /\ ~Owing(q)
      /\ \A i \in Elems(q.order) : doc[i].path # None /\ q.back[i] = doc[i].series
      /\ q.in.op = "edit" => q.in.id \in Elems(q.order)
  BY <1>1, AtTarget
<1>4. q.placed # <<>> /\ Elems(q.placed) = Elems(q.order)
  BY <1>1, <1>2 DEF Recalls, AtWork, QueryOK, Planned
<1>5. CASE Go(r, Done) /\ UNCHANGED <<alive, list>>
  BY <1>1, <1>2, <1>3, <1>5, ReadSettles DEF Untroubled
<1>6. ASSUME NEW s \in unborn, alive' = alive \cup {s}, list' = [list EXCEPT ![s] = q.placed],
             Go(r, ToJoin(q, s))
      PROVE  Settled'
  <2>1. s \in alive' /\ s \in Series /\ s \notin alive /\ alive' \in SUBSET Series /\ s # None
    BY <1>2, <1>6, CatalogueAssumption
  <2>2. list'[s] = q.placed /\ \A t \in alive : t # s /\ list'[t] = list[t]
    BY <1>2, <1>6, <2>1
  <2>3. {i \in Ids : doc[i].series = s} = {}
    BY <1>2, <2>1 DEF Agree
  <2>4. Elems(list'[s]) = {i \in Ids : doc[i].series = s} \cup Elems(q.order)
    BY <1>4, <2>2, <2>3
  <2>5. \A t \in alive' \ {s} : Elems(list'[t]) = {i \in Ids : doc[i].series = t}
    BY <1>2, <1>6, <2>2 DEF Agree
  <2>6. \A i \in Ids : doc[i].series \in alive' \cup {None}
    BY <1>2, <1>6 DEF Agree
  <2>7. \A t \in alive' : list'[t] # <<>>
    BY <1>2, <1>4, <1>6, <2>2 DEF Agree
  <2> HIDE DEF q
  <2>8. Fits(ToJoin(q, s), doc, alive', list')
    BY <1>2, <1>3, <2>1, <2>4, <2>5, <2>6, <2>7, ToJoinFits
  <2> QED BY <1>1, <1>2, <1>6, <2>8, WriteSettles DEF Untroubled, Settled, q
<1> QED BY <1>1, <1>5, <1>6

(* An existing one. *)
LEMMA SetMembersSettles ==
  ASSUME Untroubled, NEW r \in Requests, SetMembers(r)
  PROVE  Settled'
<1> DEFINE q == req[r]  T == q.target
<1>1. /\ q.pc = "place" /\ T # None /\ doc' = doc /\ alive' = alive
      /\ list' = IF T \in alive THEN [list EXCEPT ![T] = q.placed] ELSE list
      /\ Go(r, ToJoin(q, T))
  BY DEF SetMembers
<1>2. /\ RequestsOK /\ DataOK /\ AtWork(q) /\ q \in Query /\ Recalls(q, doc, alive, list)
      /\ q.in.op \in {"edit", "batch update"} /\ Agree(doc, alive, list) /\ WritesSeries(q.in)
      /\ alive \in SUBSET Series /\ list \in [Series -> Seq(Ids)] /\ Active(r)
  BY <1>1, AtSeries DEF Assigning, Pulling
<1>3. /\ Elems(q.order) \subseteq Touches(q.in)
      /\ \A i \in Elems(q.order) : doc[i].path # None /\ q.back[i] = doc[i].series
      /\ q.in.op = "edit" => q.in.id \in Elems(q.order)
  BY <1>1, AtTarget
<1>4. q.placed # <<>> /\ T \in alive /\ Elems(q.placed) = Elems(list[T]) \cup Elems(q.order)
  BY <1>1, <1>2 DEF Recalls, AtWork, QueryOK, Planned
<1> HIDE DEF q, T
<1>5. list'[T] = q.placed /\ \A t \in alive : t # T => list'[t] = list[t]
  BY <1>1, <1>2, <1>4
<1>6. Elems(list'[T]) = {i \in Ids : doc[i].series = T} \cup Elems(q.order)
  BY <1>2, <1>4, <1>5 DEF Agree
<1>7. \A t \in alive \ {T} : Elems(list'[t]) = {i \in Ids : doc[i].series = t}
  BY <1>2, <1>5 DEF Agree
<1>8. \A t \in alive : list'[t] # <<>>
  BY <1>2, <1>4, <1>5 DEF Agree
<1>9. Fits(ToJoin(q, T), doc, alive, list')
  BY <1>2, <1>3, <1>4, <1>6, <1>7, <1>8, ToJoinFits DEF Agree
<1> QED BY <1>1, <1>2, <1>9, WriteSettles DEF Untroubled, Settled, q

(* What a request recalls in the middle of a _pull. *)
LEMMA AtPull ==
  ASSUME Untroubled, NEW r \in Requests, req[r].pc \in Pulling
  PROVE  LET q == req[r]
         IN  /\ RequestsOK /\ DataOK /\ AtWork(q) /\ q \in Query /\ q.in.op # "list"
             /\ WritesSeries(q.in) /\ Active(r) /\ Between(q, doc, alive, list)
             /\ Pulled(q, alive, list) /\ q.ids \in SUBSET Ids
             /\ alive \in SUBSET Series /\ list \in [Series -> Seq(Ids)]
<1> DEFINE q == req[r]
<1>1. /\ RequestsOK /\ DataOK /\ AtWork(q) /\ q \in Query /\ q.in.op \in Serial
      /\ WritesSeries(q.in) /\ Active(r) /\ Recalls(q, doc, alive, list)
      /\ alive \in SUBSET Series /\ list \in [Series -> Seq(Ids)]
  BY AtSeries DEF Assigning
<1> HIDE DEF q
<1>2. q.pc \in Pulling /\ Owing(q) /\ OwedIds(q) = q.ids
  BY DEF q, Owing, OwedIds, Pulling
<1>3. Between(q, doc, alive, list) /\ Pulled(q, alive, list)
  BY <1>1, <1>2 DEF Recalls, Between
<1>4. q.ids \in SUBSET Ids /\ q.in.op # "list"
  BY <1>1 DEF Query, Serial
<1> QED BY <1>1, <1>3, <1>4 DEF q

(* The next call of a _pull. *)
LEMMA PullFits ==
  ASSUME NEW q, NEW p, p.pc \in Pulling, p.in = q.in, p.ids = q.ids, p.refs = q.refs,
         p.target = q.target, NEW d, NEW a, NEW l, Between(q, d, a, l), Pulled(p, a, l)
  PROVE  Fits(p, d, a, l)
<1>1. Owing(p) /\ OwedIds(p) = q.ids /\ p # Done
  BY DoneIs DEF Owing, OwedIds, Pulling
<1>2. Recalls(p, d, a, l)
  BY <1>1 DEF Recalls, Between, Unset, Assigning, Pulling, Removing
<1> QED BY <1>1, <1>2 DEF Fits

LEMMA FindAffectedSettles ==
  ASSUME Untroubled, NEW r \in Requests, FindAffected(r)
  PROVE  Settled'
<1> DEFINE q == req[r]
           affected == {s \in alive \ {q.target} : Elems(list[s]) \cap q.ids # {}}
           found == [q EXCEPT !.pc = "pull", !.affected = affected]
<1>1. /\ q.pc = "affected" /\ UNCHANGED <<doc, alive, list>>
      /\ \/ affected = {} /\ Go(r, AfterPull(q))
         \/ Go(r, found)
  BY DEF FindAffected, dataVars, seriesVars
<1>2. /\ RequestsOK /\ AtWork(q) /\ q \in Query /\ q.in.op # "list" /\ alive \in SUBSET Series
      /\ Between(q, doc, alive, list) /\ Pulled(q, alive, list)
  BY <1>1, AtPull DEF Pulling
<1>3. affected = Listing(q.ids, q.target, alive, list) /\ Filled(q.target, alive, list)
  BY <1>1, <1>2 DEF Listing, Pulled
<1> HIDE DEF q, affected
<1>4. affected = {} => Fits(AfterPull(q), doc, alive, list)
  BY <1>2, <1>3, AfterPullFits
<1>5. Fits(found, doc, alive, list)
  <2>1. /\ found.pc = "pull" /\ found.in = q.in /\ found.ids = q.ids /\ found.refs = q.refs
        /\ found.target = q.target /\ found.affected = affected
    BY <1>2 DEF Query
  <2> HIDE DEF found
  <2>2. Pulled(found, alive, list)
    BY <1>3, <2>1 DEF Pulled
  <2> QED BY <1>2, <2>1, <2>2, PullFits DEF Pulling
<1> HIDE DEF found
<1> QED BY <1>1, <1>2, <1>4, <1>5, ReadSettles DEF Untroubled, q

LEMMA PullIdsSettles ==
  ASSUME Untroubled, NEW r \in Requests, PullIds(r)
  PROVE  Settled'
<1> DEFINE q == req[r]  T == q.target  p == [q EXCEPT !.pc = "sweep"]
<1>1. /\ q.pc = "pull" /\ doc' = doc /\ alive' = alive /\ Go(r, p)
      /\ list' = [s \in Series |-> IF s \in q.affected THEN Only(list[s], Ids \ q.ids)
                                   ELSE list[s]]
  BY DEF PullIds
<1>2. /\ RequestsOK /\ AtWork(q) /\ q \in Query /\ WritesSeries(q.in) /\ Active(r)
      /\ Between(q, doc, alive, list) /\ Pulled(q, alive, list) /\ q.ids \in SUBSET Ids
      /\ alive \in SUBSET Series /\ list \in [Series -> Seq(Ids)]
  BY <1>1, AtPull DEF Pulling
<1>3. q.affected = Listing(q.ids, T, alive, list) /\ Filled(T, alive, list)
  BY <1>1, <1>2 DEF Pulled
<1>4. /\ p.pc = "sweep" /\ p.in = q.in /\ p.ids = q.ids /\ p.refs = q.refs /\ p.target = T
      /\ p.affected = q.affected
  BY <1>2 DEF Query
<1> HIDE DEF q, T, p
<1>5. ASSUME NEW s \in alive
      PROVE  /\ s \notin q.affected => list'[s] = list[s]
             /\ s \in q.affected => Elems(list'[s]) = Elems(list[s]) \ q.ids
  <2>1. s \in Series /\ list[s] \in Seq(Ids)
    BY <1>2
  <2>2. Elems(Only(list[s], Ids \ q.ids)) = Elems(list[s]) \cap (Ids \ q.ids)
    BY <2>1, OnlyLists
  <2>3. Elems(list[s]) \subseteq Ids
    BY <2>1, ElemsIn
  <2>4. s \notin q.affected => list'[s] = list[s]
    BY <1>1, <2>1
  <2>5. s \in q.affected => list'[s] = Only(list[s], Ids \ q.ids)
    BY <1>1, <2>1
  <2> QED BY <2>2, <2>3, <2>4, <2>5
<1>6. T \notin q.affected
  BY <1>3 DEF Listing
<1>7. Between(q, doc, alive, list')
  <2>1. \A s \in alive \ {T} : Elems(list'[s]) \ q.ids = Elems(list[s]) \ q.ids
    BY <1>5
  <2>2. T \in alive => list'[T] = list[T]
    BY <1>5, <1>6
  <2>3. Owed(q.ids, q.refs, T, doc, alive, list')
    BY <1>2, <2>1, <2>2 DEF Between, Owed, T
  <2> QED BY <1>2, <2>3 DEF Between, T
<1>8. Pulled(p, alive, list')
  <2>1. Listing(q.ids, T, alive, list') = {}
    BY <1>3, <1>5 DEF Listing
  <2>2. \A s \in alive : s # T /\ list'[s] = <<>> => s \in q.affected
    BY <1>3, <1>5 DEF Filled
  <2> QED BY <1>4, <1>6, <2>1, <2>2 DEF Pulled
<1>9. Fits(p, doc', alive', list')
  BY <1>1, <1>4, <1>7, <1>8, PullFits DEF Pulling, T
<1> QED BY <1>1, <1>2, <1>9, WriteSettles DEF Untroubled, Settled, q

(* No video refers to a series that goes. *)
LEMMA SweepSeriesSettles ==
  ASSUME Untroubled, NEW r \in Requests, SweepSeries(r)
  PROVE  Settled'
<1> DEFINE q == req[r]  T == q.target
<1>1. /\ q.pc = "sweep" /\ doc' = doc /\ list' = list /\ Go(r, AfterPull(q))
      /\ alive' = alive \ {s \in q.affected : list[s] = <<>>}
  BY DEF SweepSeries
<1>2. /\ RequestsOK /\ AtWork(q) /\ q \in Query /\ WritesSeries(q.in) /\ Active(r)
      /\ Between(q, doc, alive, list) /\ Pulled(q, alive, list) /\ q.in.op # "list"
      /\ alive \in SUBSET Series
  BY <1>1, AtPull DEF Pulling
<1>3. /\ Listing(q.ids, T, alive, list) = {}
      /\ \A s \in alive : s # T /\ list[s] = <<>> <=> s \in q.affected /\ list[s] = <<>>
  BY <1>1, <1>2 DEF Pulled
<1> HIDE DEF q, T
<1>4. alive' \in SUBSET Series /\ \A s \in alive : s \notin alive' <=> s # T /\ list[s] = <<>>
  BY <1>1, <1>2, <1>3
<1>5. alive' \subseteq alive
  BY <1>1
<1>6. Owed(q.ids, q.refs, T, doc, alive', list)
  <2>1. Owed(q.ids, q.refs, T, doc, alive, list)
    BY <1>2 DEF Between, T
  <2>2. ASSUME NEW i \in Ids \ q.ids PROVE doc[i].series \in alive' \cup {None}
    <3> DEFINE s == doc[i].series
    <3>1. s \in alive \cup {None}
      BY <2>1 DEF Owed
    <3>2. s \in alive /\ s # T => i \in Elems(list[s])
      BY <2>1 DEF Owed
    <3>3. \A t : list[t] = <<>> => Elems(list[t]) = {}
      BY DEF Elems
    <3> HIDE DEF s
    <3>4. s \in alive => s \in alive'
      BY <1>4, <3>2, <3>3
    <3> QED BY <3>1, <3>4 DEF s
  <2>3. T \in alive' \cup {None}
    BY <1>4, <2>1 DEF Owed
  <2> QED BY <1>5, <2>1, <2>2, <2>3 DEF Owed
<1>7. Between(q, doc, alive', list)
  BY <1>2, <1>6 DEF Between, T
<1>8. Listing(q.ids, T, alive', list) = {} /\ Filled(T, alive', list)
  BY <1>3, <1>4, <1>5 DEF Listing, Filled
<1>9. Fits(AfterPull(q), doc, alive', list)
  BY <1>2, <1>4, <1>7, <1>8, AfterPullFits DEF T
<1> QED BY <1>1, <1>2, <1>9, WriteSettles DEF Untroubled, Settled, q

LEMMA ReferSettles ==
  ASSUME Untroubled, NEW r \in Requests, Refer(r)
  PROVE  Settled'
<1> DEFINE q == req[r]  T == q.target
<1>1. /\ q.pc = "refer" /\ alive' = alive /\ list' = list /\ Go(r, AfterSeries(q))
      /\ doc' = [i \in Ids |-> IF i \in q.refs /\ Exists(i)
                               THEN [doc[i] EXCEPT !.series = T] ELSE doc[i]]
  BY DEF Refer, seriesVars
<1>2. /\ RequestsOK /\ AtWork(q) /\ q \in Query /\ WritesSeries(q.in) /\ Active(r) /\ DataOK
      /\ Between(q, doc, alive, list) /\ Pulled(q, alive, list) /\ q.in.op # "list"
      /\ alive \in SUBSET Series /\ q.ids \in SUBSET Ids /\ q.in.id \in Ids
  <2>1. q.in.id \in Ids
    BY <1>1, AtSeries DEF Assigning, Pulling
  <2> QED BY <1>1, <2>1, AtPull DEF Pulling
<1>3. Listing(q.ids, T, alive, list) = {} /\ Filled(T, alive, list)
  BY <1>1, <1>2 DEF Pulled
<1>4. /\ Owed(q.ids, q.refs, T, doc, alive, list) /\ q.refs \subseteq Touches(q.in)
      /\ q.in.op = "edit" => q.in.id \in q.ids \/ doc[q.in.id].series = T
      /\ \A i \in q.refs : Exists(i)
  BY <1>2 DEF Between, Owed, Exists
<1> HIDE DEF q, T
<1>5. \A i \in Ids : /\ doc'[i].series = IF i \in q.refs THEN T ELSE doc[i].series
                     /\ doc'[i].path = doc[i].path
  <2> TAKE i \in Ids
  <2>1. doc[i] \in Rec
    BY <1>2 DEF DataOK
  <2>2. [doc[i] EXCEPT !.series = T].series = T /\ [doc[i] EXCEPT !.series = T].path = doc[i].path
    BY <2>1 DEF Rec
  <2>3. doc'[i] = IF i \in q.refs THEN [doc[i] EXCEPT !.series = T] ELSE doc[i]
    BY <1>1, <1>4
  <2> QED BY <2>2, <2>3
<1>6. Owed(q.ids, {}, T, doc', alive, list)
  BY <1>2, <1>4, <1>5, ReferredTo
<1>7. Agree(doc', alive, list)
  BY <1>2, <1>3, <1>6, NothingOwed
<1>8. q.in.op = "edit" => doc'[q.in.id].series = T
  BY <1>2, <1>4, <1>5, <1>6 DEF Owed
<1>9. Fits(AfterSeries(q), doc', alive, list)
  BY <1>2, <1>7, <1>8, AfterSeriesFits DEF T
<1>10. Unrecorded(doc')
  BY <1>4, <1>5 DEF Unrecorded, Exists, Untroubled, Settled
<1> QED BY <1>1, <1>2, <1>4, <1>5, <1>9, <1>10, WriteSettles DEF Untroubled, q

-----------------------------------------------------------------------------
(* The calls before and after the series. *)

LEMMA AtAny ==
  ASSUME Untroubled, NEW r \in Requests, Active(r)
  PROVE  LET q == req[r]
         IN  /\ RequestsOK /\ DataOK /\ AtWork(q) /\ q \in Query /\ q.in \in Input
             /\ q.in.op \in Ops /\ q.in.id \in Ids /\ q.in.ids \in Seq(Ids)
             /\ q.in.series \in SeriesInputs /\ q.pc \in PcsOf(q.in.op)
             /\ Recalls(q, doc, alive, list) /\ Knows(q, doc, files, move)
             /\ Seen(q) \subseteq Ids /\ Seen(q) \cap fresh = {}
<1>1. RequestsOK /\ DataOK
  BY DEF Untroubled, CatalogueInv, Kept
<1>2. /\ AtWork(req[r]) /\ req[r] \in Query /\ req[r].in \in Input /\ req[r].in.op \in Ops
      /\ req[r].in.id \in Ids /\ req[r].in.series \in SeriesInputs /\ req[r].in.ids \in Seq(Ids)
  BY <1>1, ActiveOne DEF Input, Question
<1>3. Recalls(req[r], doc, alive, list) /\ Knows(req[r], doc, files, move)
  BY DEF Untroubled, Settled, InOrder
<1> QED BY <1>1, <1>2, <1>3 DEF Knows, RequestsOK, Seen

LEMMA StillUnset ==
  ASSUME NEW p, p.target = None, p.refs = {}, NEW d, NEW a, NEW l,
         \/ p.pc \in {"read", "find"}
         \/ p.pc \in {"others", "foreign", "resolve"} /\ WritesSeries(p.in)
  PROVE  Recalls(p, d, a, l) /\ ~Owing(p)
BY DEF Recalls, Owing, Unset, Assigning, Pulling

LEMMA ToSeriesRecalls ==
  ASSUME NEW q \in Query, q.in.op \in {"edit", "batch update"}, q.in.series \in SeriesInputs,
         q.target = None, q.refs = {}, NEW d, NEW a, NEW l,
         q.in.op = "edit" => q.seen[q.in.id].series = d[q.in.id].series
  PROVE  ToSeries(q) = Done \/ Recalls(ToSeries(q), d, a, l)
<1>1. \A c : LET p == [q EXCEPT !.pc = c]
             IN  p.pc = c /\ p.in = q.in /\ p.target = None /\ p.refs = {} /\ p.seen = q.seen
  BY DEF Query
<1>2. ASSUME q.in.series # "keep"
      PROVE  /\ Recalls([q EXCEPT !.pc = "resolve"], d, a, l)
             /\ Recalls([q EXCEPT !.pc = "others"], d, a, l)
  <2> DEFINE resolve == [q EXCEPT !.pc = "resolve"]  others == [q EXCEPT !.pc = "others"]
  <2>1. /\ resolve.pc = "resolve" /\ resolve.in = q.in /\ resolve.target = None /\ resolve.refs = {}
        /\ others.pc = "others" /\ others.in = q.in /\ others.target = None /\ others.refs = {}
    BY DEF Query
  <2>2. WritesSeries(q.in)
    BY <1>2 DEF WritesSeries
  <2> HIDE DEF resolve, others
  <2>3. Recalls(resolve, d, a, l) /\ Recalls(others, d, a, l)
    BY <2>1, <2>2, StillUnset
  <2> QED BY <2>3 DEF resolve, others
<1>3. q.in.op = "edit" => Recalls([q EXCEPT !.pc = "save"], d, a, l)
  BY <1>1 DEF Recalls, Owing, Unset, Assigning, Pulling, Removing
<1>4. ToBulk(q) = Done \/ Recalls(ToBulk(q), d, a, l)
  BY <1>1, NothingRecalled DEF ToBulk
<1>5. CASE q.in.series = "clear"
  BY <1>2, <1>5 DEF ToSeries
<1>6. CASE q.in.series = "assign"
  <2>1. ToSeries(q) = [q EXCEPT !.pc = "others"] \/ ToSeries(q) = [q EXCEPT !.pc = "resolve"]
    BY <1>6 DEF ToSeries
  <2> QED BY <1>2, <1>6, <2>1
<1>7. CASE q.in.series = "keep"
  BY <1>3, <1>4, <1>7 DEF ToSeries
<1> QED BY <1>5, <1>6, <1>7 DEF SeriesInputs

LEMMA CheckLocksSettles ==
  ASSUME Untroubled, NEW r \in Requests, CheckLocks(r)
  PROVE  Settled'
<1> DEFINE q == req[r]
           remove == [q EXCEPT !.pc = "remove"]  read == [q EXCEPT !.pc = "read"]
<1>1. /\ q.pc = "lock" /\ UNCHANGED <<doc, alive, list>>
      /\ \/ Go(r, Done)
         \/ q.in.op = "edit" /\ Go(r, ToSeries(Edited(q)))
         \/ q.in.op = "delete" /\ Go(r, remove)
         \/ Go(r, read)
  BY DEF CheckLocks, dataVars, seriesVars
<1>2. /\ RequestsOK /\ AtWork(q) /\ q \in Query /\ q.in.id \in Ids /\ q.in.series \in SeriesInputs
      /\ Recalls(q, doc, alive, list)
  BY <1>1, AtAny DEF Active
<1>3. q.target = None /\ q.refs = {} /\ ~Owing(q)
      /\ (q.in.op = "edit" => q.seen[q.in.id].series = doc[q.in.id].series)
  BY <1>1, <1>2 DEF Recalls, Unset, Owing, Pulling
<1> HIDE DEF q
<1>4. ASSUME q.in.op = "edit"
      PROVE  ToSeries(Edited(q)) = Done \/ Recalls(ToSeries(Edited(q)), doc, alive, list)
  <2> DEFINE delta == TagDelta(q, [j \in Ids |-> q.in.add])
             e == [q.seen EXCEPT ![q.in.id].tags = q.in.add]
  <2>1. AtWork(Edited(q)) /\ Edited(q) \in Query
    BY <1>1, <1>2, EditedOK DEF AtWork, QueryOK
  <2>2. Edited(q) = [q EXCEPT !.seen = e, !.delta = delta]
    BY <1>2 DEF Edited, Query
  <2>3. e[q.in.id].series = q.seen[q.in.id].series
    BY <1>2 DEF Query, Rec
  <2> HIDE DEF e, delta
  <2>4. /\ Edited(q).seen = e /\ Edited(q).in = q.in /\ Edited(q).target = None
        /\ Edited(q).refs = {}
    BY <1>2, <1>3, <2>2 DEF Query
  <2> QED BY <1>2, <1>3, <1>4, <2>1, <2>3, <2>4, ToSeriesRecalls
<1>5. Recalls(read, doc, alive, list)
  <2>1. read.pc = "read" /\ read.target = None /\ read.refs = {}
    BY <1>2, <1>3 DEF Query
  <2> QED BY <2>1, StillUnset
<1>6. q.in.op = "delete" => Recalls(remove, doc, alive, list)
  <2>1. remove.pc = "remove" /\ remove.target = None /\ remove.refs = {} /\ remove.in = q.in
    BY <1>2, <1>3 DEF Query
  <2> QED BY <2>1 DEF Recalls, Owing, Unset, Assigning, Pulling, Removing
<1> HIDE DEF read, remove
<1> QED BY <1>1, <1>2, <1>3, <1>4, <1>5, <1>6, ReadSettles DEF Untroubled, q

LEMMA CheckOthersSettles ==
  ASSUME Untroubled, NEW r \in Requests, CheckOthers(r) \/ CheckForeign(r) \/ CheckListing(r)
  PROVE  Settled'
<1> DEFINE q == req[r]  back == [i \in Ids |-> doc[i].series]
           foreign == [q EXCEPT !.pc = "foreign", !.back = back]
           resolve == [q EXCEPT !.pc = "resolve"]
           held == {p \in q.found : Locked(p)}
           find == [q EXCEPT !.pc = "find", !.held = held]
<1>1. /\ UNCHANGED <<doc, alive, list>>
      /\ \/ q.pc \in {"others", "foreign"} /\ Go(r, Done)
         \/ q.pc = "others" /\ Go(r, foreign)
         \/ q.pc = "foreign" /\ Go(r, resolve)
         \/ q.pc = "locks" /\ Go(r, find)
  BY DEF CheckOthers, CheckForeign, CheckListing, dataVars, seriesVars
<1>2. RequestsOK /\ q \in Query /\ Recalls(q, doc, alive, list)
  BY <1>1, AtAny DEF Active
<1>3. q.target = None /\ q.refs = {} /\ ~Owing(q)
      /\ (q.pc \in {"others", "foreign"} => WritesSeries(q.in))
  BY <1>1, <1>2 DEF Recalls, Unset, Owing, Pulling
<1> HIDE DEF q, back, held
<1>4. /\ foreign.pc = "foreign" /\ foreign.target = None /\ foreign.refs = {} /\ foreign.in = q.in
      /\ resolve.pc = "resolve" /\ resolve.target = None /\ resolve.refs = {} /\ resolve.in = q.in
      /\ find.pc = "find" /\ find.target = None /\ find.refs = {}
  BY <1>2, <1>3 DEF Query
<1> HIDE DEF foreign, resolve, find
<1>5. /\ q.pc = "others" => Recalls(foreign, doc, alive, list)
      /\ q.pc = "foreign" => Recalls(resolve, doc, alive, list)
      /\ Recalls(find, doc, alive, list)
  BY <1>3, <1>4, StillUnset
<1> QED BY <1>1, <1>2, <1>3, <1>5, ReadSettles DEF Untroubled, q

(* The calls after the series, and the reads before it. *)
LEMMA AfterSettled ==
  ASSUME NEW q \in Query, NEW d, NEW a, NEW l
  PROVE  /\ AfterCount(q) = Done \/ Recalls(AfterCount(q), d, a, l)
         /\ ToCount(q) = Done \/ Recalls(ToCount(q), d, a, l)
         /\ \A c \in {"count", "prune", "bulk", "insert"} : Recalls([q EXCEPT !.pc = c], d, a, l)
<1>1. \A c : LET p == [q EXCEPT !.pc = c] IN p.pc = c /\ p.in = q.in
  BY DEF Query
<1>2. ASSUME NEW c \in {"count", "prune", "bulk", "insert"} PROVE Recalls([q EXCEPT !.pc = c], d, a, l)
  BY <1>1, NothingRecalled
<1>3. q.in.op = "delete" => Recalls([q EXCEPT !.pc = "unlink"], d, a, l)
  BY <1>1, NothingRecalled DEF Removing
<1> QED BY <1>2, <1>3 DEF AfterCount, ToCount

LEMMA CountSettles ==
  ASSUME Untroubled, NEW r \in Requests, CountTags(r) \/ PruneTags(r)
  PROVE  Settled'
<1> DEFINE q == req[r]
<1>1. /\ q.pc \in {"count", "prune"} /\ UNCHANGED <<doc, alive, list>>
      /\ Go(r, [q EXCEPT !.pc = "prune"]) \/ Go(r, AfterCount(q))
  BY DEF CountTags, PruneTags, seriesVars
<1>2. RequestsOK /\ q \in Query
  BY <1>1, AtAny DEF Active
<1>3. ~Owing(q)
  BY <1>1 DEF Owing, Pulling
<1> HIDE DEF q
<1>4. PICK p : Go(r, p) /\ (p = Done \/ Recalls(p, doc, alive, list))
  BY <1>1, <1>2, AfterSettled
<1> QED BY <1>1, <1>2, <1>3, <1>4, ReadSettles DEF Untroubled, q

(* The copy that is saved has the back-reference of the record. *)
LEMMA SaveSettles ==
  ASSUME Untroubled, NEW r \in Requests, Save(r)
  PROVE  Settled'
<1> DEFINE q == req[r]  i == q.in.id
           p == IF q.delta = NoChange THEN Done ELSE [q EXCEPT !.pc = "count"]
<1>1. /\ q.pc = "save" /\ alive' = alive /\ list' = list
      /\ \/ doc' = [doc EXCEPT ![i] = q.seen[i]] /\ Go(r, p)
         \/ doc' = doc /\ Go(r, Done)
  BY DEF Save, Finish, seriesVars
<1>2. /\ RequestsOK /\ DataOK /\ AtWork(q) /\ q \in Query /\ i \in Ids
      /\ Recalls(q, doc, alive, list) /\ Knows(q, doc, files, move)
  BY <1>1, AtAny DEF Active
<1>3. ~Owing(q) /\ q.seen[i].series = doc[i].series /\ q.seen[i].path = doc[i].path
  <2>1. q.in.op \in OneRecord
    BY <1>1, <1>2 DEF AtWork, QueryOK
  <2> QED BY <1>1, <1>2, <2>1 DEF Recalls, Knows, ByOne, Owing, Pulling
<1>4. \A j \in Ids : doc'[j].path = doc[j].path /\ doc'[j].series = doc[j].series
  <2>1. doc \in [Ids -> Rec]
    BY <1>2 DEF DataOK
  <2> HIDE DEF q, i
  <2> QED BY <1>1, <1>2, <1>3, <2>1
<1> HIDE DEF q
<1>5. p = Done \/ Recalls(p, doc', alive, list)
  BY <1>2, AfterSettled
<1> HIDE DEF p
<1>6. PICK o : Go(r, o) /\ (o = Done \/ Recalls(o, doc', alive, list))
  BY <1>1, <1>5
<1> QED BY <1>1, <1>2, <1>3, <1>4, <1>6, CalmSettles DEF Untroubled, q

(* New records refer to no series. *)
LEMMA UpsertSeries ==
  ASSUME DataOK, NEW d, \A i \in Ids : d[i].path = doc[i].path /\ d[i].series = doc[i].series,
         NEW paths, NEW tags, Upsert(d, paths, tags), NEW i \in Ids
  PROVE  /\ doc'[i].series = doc[i].series
         /\ doc[i].path # None => doc'[i].path # None
         /\ doc[i].path = None => doc'[i].path = None \/ i \in fresh
<1>1. PICK ids \in [{p \in paths : At(p) = {}} -> fresh] :
        doc' = [j \in Ids |->
                  IF \E p \in DOMAIN ids : ids[p] = j
                  THEN [path |-> CHOOSE p \in DOMAIN ids : ids[p] = j,
                        tags |-> tags, series |-> None]
                  ELSE d[j]]
  BY DEF Upsert
<1>2. CASE \E p \in DOMAIN ids : ids[p] = i
  <2>1. i \in fresh /\ doc[i] = NoRec
    BY <1>1, <1>2 DEF DataOK
  <2>2. doc'[i].series = None
    BY <1>1, <1>2
  <2> QED BY <2>1, <2>2 DEF NoRec
<1>3. CASE ~\E p \in DOMAIN ids : ids[p] = i
  BY <1>1, <1>3
<1> QED BY <1>2, <1>3

LEMMA BulkWriteSettles ==
  ASSUME Untroubled, NEW r \in Requests, BulkWrite(r)
  PROVE  Settled'
<1> DEFINE q == req[r]
           new == Retagged(q)
           retagged == {i \in Seen(q) : new[i] # q.seen[i].tags}
           source == [i \in Ids |-> IF q.in.op = "batch update" THEN {i} \cap retagged
                                    ELSE {j \in retagged : q.seen[j].path = doc[i].path}]
           d == [i \in Ids |-> IF Exists(i) /\ source[i] # {}
                               THEN [doc[i] EXCEPT !.tags = new[CHOOSE j \in source[i] : TRUE]]
                               ELSE doc[i]]
           paths == IF q.in.op = "batch update" THEN {} ELSE New(q)
<1>1. /\ q.pc = "bulk" /\ Upsert(d, paths, q.in.add) /\ Go(r, ToCount(q))
      /\ alive' = alive /\ list' = list
  BY DEF BulkWrite, seriesVars
<1>2. /\ RequestsOK /\ DataOK /\ q \in Query /\ q.in.op \in Ops /\ q.pc \in PcsOf(q.in.op)
      /\ Active(r) /\ OnePath(doc) /\ q.found \in SUBSET Paths
  BY <1>1, AtAny DEF Active, Untroubled, RowsInv, Query
<1>3. ~Owing(q) /\ q.in.op \in {"batch update", "directory update"}
  BY <1>1, <1>2 DEF Owing, Pulling, PcsOf, Ops, Viewing, Assigning, Counts
<1>4. \A i \in Ids : d[i].path = doc[i].path /\ d[i].series = doc[i].series
  <2>1. \A i \in Ids : \A tags : /\ [doc[i] EXCEPT !.tags = tags].path = doc[i].path
                                 /\ [doc[i] EXCEPT !.tags = tags].series = doc[i].series
    BY <1>2 DEF DataOK, Rec
  <2> HIDE DEF source, new
  <2> QED BY <2>1
<1>5. paths \in SUBSET Paths
  BY <1>2 DEF New
<1> HIDE DEF d, paths
<1>6. \A i \in Ids : /\ doc'[i].series = doc[i].series
                     /\ doc[i].path # None => doc'[i].path # None
                     /\ doc[i].path = None => doc'[i].path = None \/ i \in fresh
  BY <1>1, <1>2, <1>4, UpsertSeries
<1>7. \/ \A i \in Ids : doc'[i].path = doc[i].path
      \/ \A u \in Requests \ {r} : Active(u) => req[u].in.op # "directory delete"
  <2>1. CASE q.in.op = "batch update"
    BY <1>1, <1>2, <1>4, <1>5, <2>1, UpsertPaths DEF paths
  <2>2. CASE q.in.op = "directory update"
    BY <1>2, <2>2, Alone DEF ByDirectory, Untroubled
  <2> QED BY <1>3, <2>1, <2>2
<1> HIDE DEF q
<1>8. ToCount(q) = Done \/ Recalls(ToCount(q), doc', alive, list)
  BY <1>2, AfterSettled
<1> QED BY <1>1, <1>2, <1>3, <1>6, <1>7, <1>8, CalmSettles DEF Untroubled, q

LEMMA InsertListedSettles ==
  ASSUME Untroubled, NEW r \in Requests, InsertListed(r)
  PROVE  Settled'
<1> DEFINE q == req[r]
<1>1. /\ q.pc = "insert" /\ Upsert(doc, Listed(q), {}) /\ Go(r, Done)
      /\ alive' = alive /\ list' = list
  BY DEF InsertListed, Finish, seriesVars
<1>2. /\ RequestsOK /\ DataOK /\ q.in.op \in Ops /\ q.pc \in PcsOf(q.in.op) /\ Active(r)
  BY <1>1, AtAny DEF Active
<1>3. ~Owing(q) /\ q.in.op = "list"
  BY <1>1, <1>2 DEF Owing, Pulling, PcsOf, Ops, Viewing, Assigning, Counts
<1>4. \A u \in Requests \ {r} : ~Active(u)
  BY <1>2, <1>3, Alone DEF ByDirectory, Untroubled
<1>5. \A i \in Ids : /\ doc'[i].series = doc[i].series
                     /\ doc[i].path # None => doc'[i].path # None
                     /\ doc[i].path = None => doc'[i].path = None \/ i \in fresh
  BY <1>1, <1>2, UpsertSeries
<1> QED BY <1>1, <1>2, <1>3, <1>4, <1>5, CalmSettles DEF Untroubled

LEMMA ReadSelectionSettles ==
  ASSUME Untroubled, NEW r \in Requests, ReadSelection(r)
  PROVE  Settled'
<1> DEFINE q == req[r]
           e == ReadIds(Elems(q.in.ids))  f == ReadPaths(q.found)
           byId == [q EXCEPT !.seen = e]  byPath == [q EXCEPT !.seen = f]
           bulk == [Counting(byPath) EXCEPT !.pc = "bulk"]
           removeIds == [byId EXCEPT !.pc = "remove"]
           removePaths == [byPath EXCEPT !.pc = "remove"]
           insert == [byPath EXCEPT !.pc = "insert"]
<1>1. /\ q.pc \in {"read", "find"} /\ UNCHANGED <<doc, alive, list>>
      /\ \/ q.in.op = "batch update" /\ Go(r, ToSeries(Counting(byId)))
         \/ q.in.op = "batch delete" /\ Go(r, removeIds)
         \/ Go(r, Done)
         \/ q.in.op = "directory update" /\ Go(r, bulk)
         \/ q.in.op = "directory delete" /\ Go(r, removePaths)
         \/ Go(r, insert)
  BY DEF ReadSelection, dataVars, seriesVars
<1>2. /\ RequestsOK /\ DataOK /\ AtWork(q) /\ q \in Query /\ q.in.series \in SeriesInputs
      /\ Recalls(q, doc, alive, list) /\ q.found \in SUBSET Paths /\ Active(r)
  BY <1>1, AtAny DEF Active, Query
<1>3. q.target = None /\ q.refs = {} /\ ~Owing(q)
  BY <1>1, <1>2 DEF Recalls, Unset, Owing, Pulling
<1>4. e \in [Ids -> Rec] /\ f \in [Ids -> Rec]
      /\ \A i \in fresh : e[i].path = None /\ f[i].path = None
  BY <1>2, ReadOK
<1>5. \A i \in Ids : f[i].path # None <=> doc[i].path \in q.found
  BY <1>2, CatalogueAssumption DEF ReadPaths, NoRec
<1> HIDE DEF q, e, f
<1>6. /\ byId \in Query /\ byId.in = q.in /\ byId.target = None /\ byId.refs = {} /\ byId.seen = e
      /\ byId.pc = q.pc
      /\ byPath \in Query /\ byPath.in = q.in /\ byPath.target = None /\ byPath.refs = {}
      /\ byPath.seen = f /\ byPath.found = q.found /\ byPath.pc = q.pc
  BY <1>2, <1>3, <1>4 DEF Query
<1>7. q.in.op \notin OneRecord => AtWork(byId) /\ AtWork(byPath)
  BY <1>1, <1>2, <1>4, RereadOK DEF q
<1> HIDE DEF byId, byPath
<1>8. ASSUME q.in.op = "batch update"
      PROVE  ToSeries(Counting(byId)) = Done \/ Recalls(ToSeries(Counting(byId)), doc, alive, list)
  <2>1. AtWork(Counting(byId)) /\ Counting(byId).in = q.in
    BY <1>1, <1>6, <1>7, <1>8, CountingOK DEF OneRecord
  <2>2. Counting(byId).target = None /\ Counting(byId).refs = {}
    BY <1>6 DEF Counting, Query
  <2> QED BY <1>2, <1>8, <2>1, <2>2, ToSeriesRecalls DEF AtWork, QueryOK
<1>9. q.in.op = "directory update" => Recalls(bulk, doc, alive, list)
  <2>1. ASSUME q.in.op = "directory update" PROVE Counting(byPath) \in Query
    BY <1>1, <1>6, <1>7, <2>1, CountingOK DEF OneRecord, AtWork, QueryOK
  <2> QED BY <2>1, AfterSettled
<1>10. Recalls(insert, doc, alive, list)
  BY <1>6, AfterSettled
<1>11. q.in.op = "batch delete" => Recalls(removeIds, doc, alive, list)
  <2>1. removeIds.pc = "remove" /\ removeIds.in = q.in /\ removeIds.target = None
        /\ removeIds.refs = {}
    BY <1>6 DEF Query
  <2> HIDE DEF removeIds
  <2> QED BY <2>1 DEF Recalls, Owing, Unset, Assigning, Pulling
<1>12. Recalls(removePaths, doc, alive, list)
  <2>1. removePaths.pc = "remove" /\ removePaths.in = q.in /\ removePaths.target = None
        /\ removePaths.refs = {} /\ removePaths.seen = f /\ removePaths.found = q.found
    BY <1>6 DEF Query
  <2> HIDE DEF removePaths
  <2>2. Seen(removePaths) = {i \in Ids : doc[i].path \in removePaths.found}
    BY <1>5, <2>1 DEF Seen
  <2> QED BY <2>1, <2>2 DEF Recalls, Owing, Unset, Assigning, Pulling
<1> HIDE DEF bulk, insert, removeIds, removePaths
<1> QED BY <1>1, <1>2, <1>3, <1>8, <1>9, <1>10, <1>11, <1>12, ReadSettles DEF Untroubled, q

-----------------------------------------------------------------------------
(* Deleting. *)

(* Deleted records leave their _ids behind in the lists. *)
LEMMA GoneOwed ==
  ASSUME NEW d, NEW e, NEW a, NEW l, Agree(d, a, l), NEW ids \in SUBSET Ids,
         \A i \in ids : e[i].series = None,
         \A i \in Ids \ ids : e[i].series = d[i].series
  PROVE  Owed(ids, {}, None, e, a, l) /\ Filled(None, a, l)
<1>1. \A s \in a \ {None} : Elems(l[s]) \ ids = {i \in Ids : e[i].series = s} \ ids
  BY DEF Agree
<1>2. \A i \in Ids \ ids : e[i].series \in a \cup {None}
  BY DEF Agree
<1> QED BY <1>1, <1>2 DEF Owed, Filled, Agree

LEMMA RemoveRecordsSettles ==
  ASSUME Untroubled, NEW r \in Requests, RemoveRecords(r)
  PROVE  Settled'
<1> DEFINE q == req[r]
           gone == CASE q.in.op = "delete" -> {q.in.id}
                     [] q.in.op = "batch delete" -> Elems(q.in.ids)
                     [] OTHER -> {i \in Ids : doc[i].path \in q.found}
           delta == [t \in Tags |-> -Cardinality({i \in {q.in.id} : t \in q.seen[i].tags})]
           det == [q EXCEPT !.ids = {q.in.id}, !.delta = delta]
           recheck == [q EXCEPT !.pc = "recheck"]
<1>1. /\ q.pc = "remove" /\ doc' = [i \in Ids |-> IF i \in gone THEN NoRec ELSE doc[i]]
      /\ q.in.op = "delete" => Go(r, ToPull(det))
      /\ q.in.op # "delete" => Go(r, recheck)
      /\ alive' = alive /\ list' = list
  BY DEF RemoveRecords, seriesVars, Detaching
<1>2. /\ RequestsOK /\ DataOK /\ AtWork(q) /\ q \in Query /\ q.in.op \in Ops /\ q.in.id \in Ids
      /\ q.in.ids \in Seq(Ids) /\ Recalls(q, doc, alive, list) /\ Knows(q, doc, files, move)
      /\ q.pc \in PcsOf(q.in.op) /\ Active(r) /\ Seen(q) \subseteq Ids
  BY <1>1, AtAny DEF Active
<1>3. /\ q.in.op \in {"delete", "batch delete", "directory delete"}
      /\ WritesSeries(q.in) /\ ~Owing(q) /\ q.target = None /\ q.refs = {}
  <2>1. q.in.op \in {"delete", "batch delete", "directory delete"}
    BY <1>1, <1>2 DEF PcsOf, Ops, Viewing, Assigning, Pulling, Counts
  <2> QED BY <1>1, <1>2, <2>1 DEF WritesSeries, Owing, Pulling, Recalls, Unset
<1>4. Agree(doc, alive, list) /\ Unrecorded(doc) /\ alive \in SUBSET Series
  BY <1>2, <1>3, OneWrites DEF Untroubled, Settled, DataOK
<1>5. /\ gone \subseteq Touches(q.in)
      /\ \A i \in Ids : i \in gone => doc'[i].path = None /\ doc'[i].series = None
      /\ \A i \in Ids : i \notin gone => doc'[i] = doc[i]
  <2>1. q.in.op = "delete" => gone \subseteq Touches(q.in)
    BY DEF Touches, ByDirectory
  <2>2. q.in.op = "batch delete" => gone \subseteq Touches(q.in)
    BY DEF Touches, ByDirectory
  <2>3. q.in.op = "directory delete" => gone \subseteq Touches(q.in)
    BY DEF Touches, ByDirectory
  <2>4. gone \subseteq Touches(q.in)
    BY <1>3, <2>1, <2>2, <2>3
  <2> HIDE DEF gone
  <2>5. NoRec.path = None /\ NoRec.series = None
    BY DEF NoRec
  <2>6. \A i \in Ids : doc'[i] = IF i \in gone THEN NoRec ELSE doc[i]
    BY <1>1
  <2> QED BY <2>4, <2>5, <2>6
<1>6. ASSUME q.in.op = "delete" PROVE Fits(ToPull(det), doc', alive, list)
  <2>1. AtWork(Detaching(q, {q.in.id}))
    BY <1>1, <1>2, DetachingOK
  <2>2. Detaching(q, {q.in.id}) = det
    BY DEF Detaching
  <2>3. gone = {q.in.id}
    BY <1>6
  <2> HIDE DEF q, gone, delta
  <2>4. /\ det.in = q.in /\ det.ids = {q.in.id} /\ det.refs = {} /\ det.target = None
    BY <1>2, <1>3 DEF Query
  <2>5. Owed(det.ids, {}, None, doc', alive, list) /\ Filled(None, alive, list)
    <3>1. det.ids \in SUBSET Ids /\ det.ids = gone
      BY <1>2, <2>3, <2>4
    <3>2. /\ \A i \in det.ids : doc'[i].series = None
          /\ \A i \in Ids \ det.ids : doc'[i].series = doc[i].series
      BY <1>5, <3>1
    <3> QED BY <1>4, <3>1, <3>2, GoneOwed
  <2> HIDE DEF det
  <2>6. Between(det, doc', alive, list)
    BY <1>3, <1>6, <2>4, <2>5 DEF Between
  <2> QED BY <1>4, <1>6, <2>1, <2>2, <2>4, <2>5, <2>6, ToPullFits
<1>7. ASSUME q.in.op # "delete" PROVE Fits(recheck, doc', alive, list)
  <2>1. /\ Seen(q) \subseteq gone /\ \A i \in gone \ Seen(q) : doc[i].series = None
    <3>1. CASE q.in.op = "batch delete"
      <4>1. gone = Elems(q.in.ids) /\ gone \subseteq Ids
        BY <1>2, <3>1, ElemsIn
      <4>2. /\ Seen(q) \subseteq gone /\ \A i \in gone : doc[i].path = q.seen[i].path
        BY <1>1, <1>2, <3>1, <4>1 DEF Knows
      <4>3. \A i \in gone \ Seen(q) : doc[i].path = None
        BY <4>1, <4>2 DEF Seen
      <4> QED BY <1>4, <4>1, <4>2, <4>3 DEF Unrecorded
    <3>2. CASE q.in.op = "directory delete"
      <4>1. Seen(q) = gone
        BY <1>1, <1>2, <3>2 DEF Recalls
      <4> QED BY <4>1
    <3> QED BY <1>3, <1>7, <3>1, <3>2
  <2>2. /\ recheck.pc = "recheck" /\ recheck.in = q.in /\ recheck.seen = q.seen
        /\ recheck.refs = {} /\ recheck.target = None
    BY <1>2, <1>3 DEF Query
  <2> HIDE DEF q, gone, recheck
  <2>3. Seen(recheck) = Seen(q) /\ Removing(recheck)
    BY <1>3, <1>7, <2>2 DEF Seen, Removing
  <2>4. Owing(recheck) /\ OwedIds(recheck) = Seen(q) /\ recheck # Done
    BY <2>2, <2>3, DoneIs DEF Owing, OwedIds
  <2>5. Owed(Seen(q), {}, None, doc', alive, list) /\ Filled(None, alive, list)
    <3>1. Seen(q) \in SUBSET Ids
      BY <1>2
    <3>2. /\ \A i \in Seen(q) : doc'[i].series = None
          /\ \A i \in Ids \ Seen(q) : doc'[i].series = doc[i].series
      BY <1>5, <2>1, <3>1
    <3> QED BY <1>4, <3>1, <3>2, GoneOwed
  <2>6. Pulled(recheck, alive, list)
    BY <2>2, <2>5 DEF Pulled
  <2>7. \A i \in Seen(q) : doc'[i].path = None
    BY <1>2, <1>5, <2>1
  <2>8. Recalls(recheck, doc', alive, list)
    BY <1>7, <2>2, <2>3, <2>4, <2>5, <2>6, <2>7 DEF Recalls, Assigning, Pulling, Removing
  <2> QED BY <2>4, <2>8 DEF Fits
<1>8. Unrecorded(doc')
  BY <1>4, <1>5 DEF Unrecorded
<1>9. \A i \in Ids \ Touches(q.in) : doc'[i].series = doc[i].series
  BY <1>5
<1> HIDE DEF gone, det, recheck
<1>10. PICK p : Go(r, p) /\ Fits(p, doc', alive, list)
  BY <1>1, <1>6, <1>7
<1> QED BY <1>1, <1>2, <1>3, <1>8, <1>9, <1>10, WriteSettles DEF Untroubled

LEMMA RecheckSettles ==
  ASSUME Untroubled, NEW r \in Requests, Recheck(r)
  PROVE  Settled'
<1> DEFINE q == req[r]
           gone == IF q.in.op = "batch delete" THEN {i \in Seen(q) : ~Exists(i)}
                   ELSE {i \in Seen(q) : At(q.seen[i].path) = {}}
           found == {q.seen[i].path : i \in gone}
           delta == [t \in Tags |-> -Cardinality({i \in gone : t \in q.seen[i].tags})]
           p == [[q EXCEPT !.ids = gone, !.delta = delta] EXCEPT !.pc = "unlink", !.found = found]
<1>1. /\ q.pc = "recheck" /\ UNCHANGED <<doc, alive, list>>
      /\ Go(r, IF gone = {} THEN Done ELSE p)
  BY DEF Recheck, dataVars, seriesVars, Detaching
<1>2. /\ RequestsOK /\ DataOK /\ q \in Query /\ q.in.op \in Ops
      /\ Recalls(q, doc, alive, list) /\ Knows(q, doc, files, move)
      /\ q.pc \in PcsOf(q.in.op) /\ Seen(q) \subseteq Ids /\ alive \in SUBSET Series
  BY <1>1, AtAny DEF Active, DataOK
<1>3. Removing(q)
  BY <1>1, <1>2 DEF PcsOf, Ops, Viewing, Assigning, Pulling, Counts, Removing
<1>4. gone = Seen(q)
  <2>1. CASE q.in.op = "batch delete"
    BY <1>1, <1>2, <2>1 DEF Recalls, Exists
  <2>2. CASE q.in.op = "directory delete"
    <3>1. \A x \in SeenPaths(q) : Holders(doc, x) = {}
      BY <1>1, <1>2, <2>2 DEF Knows, Doomed, Spared, Untroubled
    <3> QED BY <2>2, <3>1 DEF SeenPaths, At, Holders
  <2> QED BY <1>3, <2>1, <2>2 DEF Removing
<1>5. /\ Owed(Seen(q), {}, None, doc, alive, list) /\ Filled(None, alive, list)
      /\ q.target = None /\ q.refs = {}
  <2>1. Owing(q) /\ OwedIds(q) = Seen(q) /\ q.target = None /\ q.refs = {}
    BY <1>1, <1>2, <1>3 DEF Owing, OwedIds, Recalls, Unset
  <2> QED BY <1>1, <1>2, <2>1 DEF Recalls, Pulled
<1> HIDE DEF q, gone, delta, found
<1>6. ASSUME gone = {} PROVE Fits(Done, doc, alive, list)
  <2>1. Listing(Seen(q), None, alive, list) = {}
    BY <1>4, <1>6 DEF Listing
  <2>2. Owed({}, {}, None, doc, alive, list) /\ Listing({}, None, alive, list) = {}
    BY <1>4, <1>5, <1>6, <2>1
  <2> QED BY <1>2, <1>5, <2>2, NothingOwed DEF Fits
<1>7. Fits(p, doc, alive, list)
  <2>1. /\ p.pc = "unlink" /\ p.in = q.in /\ p.ids = Seen(q) /\ p.refs = {} /\ p.target = None
    BY <1>2, <1>4, <1>5 DEF Query
  <2> HIDE DEF p
  <2>2. Removing(p) /\ Owing(p) /\ OwedIds(p) = Seen(q) /\ p # Done
    BY <1>3, <2>1, DoneIs DEF Removing, Owing, OwedIds
  <2>3. Pulled(p, alive, list)
    BY <1>5, <2>1 DEF Pulled
  <2>4. Recalls(p, doc, alive, list)
    BY <1>5, <2>1, <2>2, <2>3 DEF Recalls, Unset, Assigning, Pulling, Removing
  <2> QED BY <2>2, <2>4 DEF Fits
<1> HIDE DEF p
<1> QED BY <1>1, <1>2, <1>6, <1>7, ReadSettles DEF Untroubled

LEMMA UnlinkSettles ==
  ASSUME Untroubled, NEW r \in Requests, UnlinkMany(r) \/ UnlinkOne(r)
  PROVE  Settled'
<1> DEFINE q == req[r]
<1>1. /\ q.pc = "unlink" /\ UNCHANGED <<doc, alive, list>>
      /\ \/ q.in.op # "delete" /\ (q.found \subseteq files => Go(r, ToPull(q)))
         \/ q.in.op = "delete" /\ Go(r, Done)
  BY DEF UnlinkMany, UnlinkOne, Finish, seriesVars
<1>2. /\ RequestsOK /\ DataOK /\ AtWork(q) /\ q \in Query /\ q.in.op \in Ops
      /\ Recalls(q, doc, alive, list) /\ Knows(q, doc, files, move)
      /\ q.pc \in PcsOf(q.in.op) /\ alive \in SUBSET Series
  BY <1>1, AtAny DEF Active, DataOK
<1>3. CASE q.in.op = "delete"
  <2>1. ~Owing(q) /\ Go(r, Done)
    BY <1>1, <1>3 DEF Owing, Removing, Pulling
  <2> QED BY <1>1, <1>2, <2>1, ReadSettles DEF Untroubled
<1>4. CASE q.in.op # "delete"
  <2>1. Removing(q)
    BY <1>1, <1>2, <1>4 DEF PcsOf, Ops, Viewing, Assigning, Pulling, Counts, Removing
  <2>2. q.found \subseteq files
    BY <1>1, <1>2, <2>1 DEF Knows, Doomed, Spared, Untroubled, Removing
  <2>3. /\ Owed(q.ids, q.refs, q.target, doc, alive, list) /\ Filled(q.target, alive, list)
        /\ q.refs = {}
    <3>1. Owing(q) /\ OwedIds(q) = q.ids /\ q.target = None /\ q.refs = {}
      BY <1>1, <1>2, <2>1 DEF Owing, OwedIds, Recalls
    <3> QED BY <1>1, <1>2, <3>1 DEF Recalls, Pulled
  <2>4. Between(q, doc, alive, list)
    BY <2>1, <2>3 DEF Between, WritesSeries, Removing
  <2> HIDE DEF q
  <2>5. Fits(ToPull(q), doc, alive, list)
    BY <1>2, <2>1, <2>3, <2>4, ToPullFits DEF Removing
  <2> QED BY <1>1, <1>2, <1>4, <2>2, <2>5, ReadSettles DEF Untroubled
<1> QED BY <1>3, <1>4

-----------------------------------------------------------------------------
(* The first call of a request. *)

LEMMA AskSettles ==
  ASSUME CatalogueInv, RowsInv, SeriesInv, ~contended', NEW r \in Requests, NEW op, NEW p,
         Asks(r, op, p), p.pc \in {"save", "lock", "locks", "find"}, p.target = None, p.refs = {},
         p.pc = "save" \/ p.in.op = "edit" => p.seen[p.in.id].series = doc[p.in.id].series
  PROVE  Settled'
<1>1. /\ UNCHANGED <<doc, alive, list>> /\ Go(r, p) /\ ~Active(r) /\ ~contended
  BY DEF Asks, dataVars, seriesVars, Active
<1>2. RequestsOK /\ InOrder /\ Settled
  BY <1>1 DEF CatalogueInv, Kept, RowsInv, SeriesInv
<1>3. Recalls(p, doc, alive, list)
  BY DEF Recalls, Owing, Assigning, Pulling
<1> QED BY <1>1, <1>2, <1>3, CalmSettles

LEMMA AskOneSettles ==
  ASSUME CatalogueInv, RowsInv, SeriesInv, ~contended', NEW r \in Requests, NEW op,
         NEW in \in Inputs, NEW c \in {"save", "lock"},
         Asks(r, op, [Fresh EXCEPT !.pc = c, !.in = in, !.seen = ReadIds({in.id})])
  PROVE  Settled'
<1> DEFINE e == ReadIds({in.id})  p == [Fresh EXCEPT !.pc = c, !.in = in, !.seen = e]
<1>1. e[in.id].series = doc[in.id].series
  BY CatalogueAssumption DEF Input, Question, ReadIds
<1>2. Asks(r, op, p)
  OBVIOUS
<1> HIDE DEF e
<1>3. p.pc = c /\ p.in = in /\ p.seen = e /\ p.target = None /\ p.refs = {}
  BY DEF Fresh
<1> HIDE DEF p
<1> QED BY <1>1, <1>2, <1>3, AskSettles

LEMMA AskingSettles ==
  ASSUME CatalogueInv, RowsInv, SeriesInv, ~contended', NEW r \in Requests, Asking(r)
  PROVE  Settled'
<1>1. ASSUME NEW in \in Inputs, NEW op, ReadToSave(r, in, op) PROVE Settled'
  BY <1>1, AskOneSettles DEF ReadToSave
<1>2. CASE RecordView(r) \/ GetThumbnail(r) \/ EnsureDuration(r)
  BY <1>1, <1>2 DEF RecordView, GetThumbnail, EnsureDuration
<1>3. CASE EditVideo(r)
  BY <1>3, AskOneSettles DEF EditVideo
<1>4. CASE DeleteVideo(r)
  BY <1>4, AskOneSettles DEF DeleteVideo
<1>5. CASE AskBatch(r)
  <2>1. PICK in \in Inputs, op \in {"batch update", "batch delete"} :
          Asks(r, op, [Fresh EXCEPT !.pc = "lock", !.in = in, !.seen = ReadIds(Elems(in.ids))])
    BY <1>5 DEF AskBatch
  <2> DEFINE e == ReadIds(Elems(in.ids))
             p == [Fresh EXCEPT !.pc = "lock", !.in = in, !.seen = e]
  <2>2. Asks(r, op, p)
    BY <2>1
  <2> HIDE DEF e
  <2>3. p.pc = "lock" /\ p.target = None /\ p.refs = {}
    BY DEF Fresh
  <2> HIDE DEF p
  <2>4. p.in.op = op
    BY <2>2 DEF Asks
  <2> QED BY <2>2, <2>3, <2>4, AskSettles
<1>6. CASE WalkDirectory(r)
  <2>1. PICK in \in Inputs, op \in {"directory update", "directory delete", "list"} :
          Asks(r, op, [Fresh EXCEPT !.pc = IF op = "list" THEN "locks" ELSE "find",
                         !.in = in, !.found = files \cap Dir])
    BY <1>6 DEF WalkDirectory
  <2> DEFINE c == IF op = "list" THEN "locks" ELSE "find"  paths == files \cap Dir
             p == [Fresh EXCEPT !.pc = c, !.in = in, !.found = paths]
  <2>2. Asks(r, op, p) /\ c \in {"locks", "find"}
    BY <2>1
  <2> HIDE DEF c, paths
  <2>3. p.pc = c /\ p.target = None /\ p.refs = {}
    BY DEF Fresh
  <2> HIDE DEF p
  <2>4. p.in.op = op
    BY <2>2 DEF Asks
  <2> QED BY <2>2, <2>3, <2>4, AskSettles
<1> QED BY <1>2, <1>3, <1>4, <1>5, <1>6 DEF Asking

-----------------------------------------------------------------------------
(* The migration, where it replaces nobody. *)

LEMMA StillSettled ==
  ASSUME DataOK, Settled, req' = req, alive' = alive, list' = list,
         RequestsOK, \A i \in Ids : doc'[i].series = doc[i].series /\
                                    (doc'[i].path # None <=> doc[i].path # None),
         \A r \in Requests : Active(r) /\ req[r].in.op = "directory delete" =>
           \A i \in Ids : doc'[i].path = doc[i].path
  PROVE  Settled'
<1>1. \A r \in Requests : Active(r)' <=> Active(r)
  BY DEF Active
<1>2. Unrecorded(doc')
  BY DEF Settled, Unrecorded
<1>3. ASSUME NEW r \in Requests, Active(r) PROVE Recalls(req'[r], doc', alive', list')
  <2>1. req[r] \in Query /\ req[r].in.id \in Ids /\ Recalls(req[r], doc, alive, list)
        /\ Seen(req[r]) \subseteq Ids
    BY <1>3, ActiveOne DEF Settled, Seen
  <2> QED BY <1>3, <2>1, RecallsCalm
<1>4. ASSUME \A r \in Requests : Active(r)' => ~Owing(req'[r]) PROVE Agree(doc', alive', list')
  <2>1. Agree(doc, alive, list)
    BY <1>1, <1>4 DEF Settled
  <2> QED BY <2>1, AgreeCalm
<1> QED BY <1>1, <1>2, <1>3, <1>4 DEF Settled, Unrecorded, Recalls, Agree

LEMMA MoveSettles ==
  ASSUME CatalogueInv, RowsInv, SeriesInv, ~move.overwrite, ~contended', MoveStep
  PROVE  Settled'
<1>1. Interrupts /\ req' = req
  BY DEF MoveStep, BeginMove, CopyMove, FailMove, RepointMove, FinishMove
<1>2. ~contended /\ RequestsOK /\ DataOK /\ InOrder /\ Settled /\ MoveOK
  BY <1>1, Undisturbed DEF CatalogueInv, Kept, RowsInv, SeriesInv
<1>3. CASE UNCHANGED <<doc, alive, list>>
  BY <1>1, <1>2, <1>3, StillSettled
<1>4. CASE RepointMove
  <2> DEFINE moved == [i \in Ids |-> CASE i \in At(move.src) -> [doc[i] EXCEPT !.path = move.tgt]
                                       [] i \in {} -> NoRec
                                       [] OTHER -> doc[i]]
             left == [s \in Series |-> Only(list[s], Ids \ {})]
  <2>1. /\ move.phase = "copied"
        /\ \/ UNCHANGED <<doc, list, alive>>
           \/ /\ doc' = moved /\ list' = left
              /\ alive' = alive \ {s \in alive : left[s] = <<>> /\ list[s] # <<>>}
    BY <1>4 DEF RepointMove
  <2>2. left = list
    <3>1. \A s \in Series : list[s] \in Seq(Ids) /\ Only(list[s], Ids \ {}) = list[s]
      BY <1>2, ElemsIn, OnlyWhole DEF DataOK
    <3> QED BY <1>2, <3>1 DEF DataOK
  <2>3. move.tgt # None /\ move.src # None /\ UnderWay(move)
    BY <2>1, CatalogueAssumption DEF CatalogueInv, MoveSet, UnderWay
  <2>4. \A i \in Ids : /\ moved[i].series = doc[i].series
                       /\ moved[i].path # None <=> doc[i].path # None
    <3> TAKE i \in Ids
    <3>1. doc[i] \in Rec
      BY <1>2 DEF DataOK
    <3>2. /\ [doc[i] EXCEPT !.path = move.tgt].path = move.tgt
          /\ [doc[i] EXCEPT !.path = move.tgt].series = doc[i].series
      BY <3>1 DEF Rec
    <3>3. moved[i] = IF doc[i].path = move.src THEN [doc[i] EXCEPT !.path = move.tgt] ELSE doc[i]
      BY DEF At
    <3> HIDE DEF moved
    <3> QED BY <2>3, <3>2, <3>3
  <2>5. \A r \in Requests : Active(r) => req[r].in.op # "directory delete"
    BY <1>2, <2>3 DEF InOrder, Knows, WholeDir
  <2> HIDE DEF moved, left
  <2>6. CASE /\ doc' = moved /\ list' = left
             /\ alive' = alive \ {s \in alive : left[s] = <<>> /\ list[s] # <<>>}
    <3>1. alive' = alive /\ list' = list
      BY <2>2, <2>6
    <3> QED BY <1>1, <1>2, <2>4, <2>5, <2>6, <3>1, StillSettled
  <2> QED BY <1>3, <2>1, <2>6
<1> QED BY <1>3, <1>4 DEF MoveStep, BeginMove, CopyMove, FailMove, FinishMove, dataVars, seriesVars

-----------------------------------------------------------------------------
(* The memberships, always. *)

LEMMA SeriesInitially == CatalogueInit => SeriesInv
<1> SUFFICES ASSUME CatalogueInit PROVE Settled
  BY DEF SeriesInv
<1> DEFINE back(i) == IF \E s \in Series : i \in Elems(list[s])
                      THEN CHOOSE s \in Series : i \in Elems(list[s]) ELSE None
<1>1. \A r \in Requests : ~Active(r)
  BY DEF CatalogueInit, Active, Fresh
<1>2. list \in Start /\ alive = {s \in Series : list[s] # <<>>}
  BY DEF CatalogueInit
<1>3. /\ list \in [Series -> Seq({i \in Ids : Home[i] # None})]
      /\ \A s, u \in Series : s # u /\ list[s] # <<>> /\ list[u] # <<>> =>
           Elems(list[s]) \cap Elems(list[u]) = {}
  BY <1>2, CatalogueAssumption
<1>4. \A s \in Series : /\ Elems(list[s]) \subseteq {i \in Ids : Home[i] # None}
                        /\ list[s] = <<>> <=> Elems(list[s]) = {}
  <2> DEFINE X == {i \in Ids : Home[i] # None}
  <2>1. \A s \in Series : list[s] \in Seq(X)
    BY <1>3
  <2> HIDE DEF X
  <2>2. \A s \in Series : Elems(list[s]) \subseteq X
    BY <2>1 DEF Elems
  <2>3. \A s \in Series : list[s] = <<>> <=> Elems(list[s]) = {}
    BY <2>1, EmptyElems
  <2> QED BY <2>2, <2>3 DEF X
<1>5. ASSUME NEW i \in Ids
      PROVE  /\ doc[i].path = None <=> Home[i] = None
             /\ doc[i].series = IF Home[i] = None THEN None ELSE back(i)
  <2>1. doc[i] = IF Home[i] = None THEN NoRec
                 ELSE [path |-> Home[i], tags |-> Tagged[i], series |-> back(i)]
    BY DEF CatalogueInit
  <2> HIDE DEF back
  <2> QED BY <2>1 DEF NoRec
<1>6. ASSUME NEW i \in Ids, NEW s \in Series, i \in Elems(list[s]) PROVE back(i) = s
  <2>1. back(i) \in Series /\ i \in Elems(list[back(i)])
    BY <1>6
  <2> HIDE DEF back
  <2> QED BY <1>3, <1>4, <1>6, <2>1
<1>7. ASSUME NEW i \in Ids
      PROVE  back(i) = None \/ (back(i) \in Series /\ i \in Elems(list[back(i)]))
  OBVIOUS
<1> HIDE DEF back
<1>8. ASSUME NEW s \in alive PROVE Elems(list[s]) = {i \in Ids : doc[i].series = s}
  <2>1. s \in Series /\ s # None
    BY <1>2, CatalogueAssumption
  <2>2. ASSUME NEW i \in Elems(list[s]) PROVE i \in Ids /\ doc[i].series = s
    BY <1>4, <1>5, <1>6, <2>1
  <2>3. ASSUME NEW i \in Ids, doc[i].series = s PROVE i \in Elems(list[s])
    BY <1>5, <1>7, <2>1, <2>3
  <2> QED BY <2>2, <2>3
<1>9. \A i \in Ids : doc[i].series \in alive \cup {None}
  BY <1>2, <1>4, <1>5, <1>7
<1>10. Agree(doc, alive, list)
  BY <1>2, <1>8, <1>9 DEF Agree
<1> QED BY <1>1, <1>5, <1>10 DEF Settled, Unrecorded

LEMMA SeriesSteps ==
  CatalogueInv /\ RowsInv /\ SeriesInv /\ ~move.overwrite /\ [CatalogueNext]_vars => SeriesInv'
<1> SUFFICES ASSUME CatalogueInv, RowsInv, SeriesInv, ~move.overwrite, [CatalogueNext]_vars,
                    ~contended'
             PROVE  Settled'
  BY DEF SeriesInv
<1>1. ASSUME NEW r \in Requests, SeriesStep(r) \/ RecordStep(r) \/ TagStep(r) PROVE Settled'
  <2>1. contended' = contended
    BY <1>1 DEF SeriesStep, Resolve, FindTarget, InsertSeries, SetMembers, FindAffected, PullIds,
       SweepSeries, Refer, RecordStep, Save, CheckLocks, CheckOthers, CheckForeign, CheckListing,
       ReadSelection, BulkWrite, InsertListed, RemoveRecords, Recheck, UnlinkMany, UnlinkOne,
       TagStep, CountTags, PruneTags, Zenon
  <2>2. Untroubled
    BY <2>1 DEF Untroubled, RowsInv, SeriesInv
  <2>3. CASE SeriesStep(r)
    BY <2>2, <2>3, ResolveSettles, FindTargetSettles, InsertSeriesSettles, SetMembersSettles,
       FindAffectedSettles, PullIdsSettles, SweepSeriesSettles, ReferSettles DEF SeriesStep
  <2>4. CASE RecordStep(r)
    BY <2>2, <2>4, SaveSettles, CheckLocksSettles, CheckOthersSettles, ReadSelectionSettles,
       BulkWriteSettles, InsertListedSettles, RemoveRecordsSettles, RecheckSettles, UnlinkSettles
       DEF RecordStep
  <2>5. CASE TagStep(r)
    BY <2>2, <2>5, CountSettles DEF TagStep
  <2> QED BY <1>1, <2>3, <2>4, <2>5
<1>2. CASE \E r \in Requests : Asking(r)
  BY <1>2, AskingSettles
<1>3. CASE MoveStep
  BY <1>3, MoveSettles
<1>4. CASE UNCHANGED vars
  <2>1. UNCHANGED <<doc, alive, list, req, contended>>
    BY <1>4 DEF vars, dataVars, seriesVars
  <2> QED BY <2>1, StillSettled DEF CatalogueInv, Kept, SeriesInv
<1> QED BY <1>1, <1>2, <1>3, <1>4 DEF CatalogueNext

(* The videos a series lists and the videos that refer to it are the same, *)
(* at rest: assign, clear, detach and the _pull they share take several    *)
(* database calls (series_service.py), and between them so do an edit that *)
(* saves an old copy, a batch, a delete and a listing (catalog_service.py, *)
(* batch_operation_service.py).  As above, nothing is overwritten: the     *)
(* file of a replaced video may be missing, and a batch delete that misses *)
(* a file ends before it comes to the series.                              *)
THEOREM MembershipsAgree == ASSUME NothingIsReplaced PROVE CatalogueSpec => []MembershipAgrees
<1>1. CatalogueSpec => []SeriesInv
  <2>1. CatalogueInit => SeriesInv
    BY SeriesInitially
  <2>2. CatalogueInv /\ RowsInv /\ SeriesInv /\ ~move.overwrite /\ [CatalogueNext]_vars => SeriesInv'
    BY SeriesSteps
  <2> QED BY <2>1, <2>2, RowsAlways, NeverReplacing, PTL DEF CatalogueSpec
<1>2. SeriesInv => MembershipAgrees
  BY DEF SeriesInv, Settled, MembershipAgrees, Quiet
<1> QED BY <1>1, <1>2, PTL
=============================================================================
