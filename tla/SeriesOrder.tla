----------------------------- MODULE SeriesOrder -----------------------------
(***************************************************************************)
(* Where videos land in a series (SeriesService._place, features/catalog/  *)
(* series_service.py): a selection put into a list of members takes the    *)
(* places it held there, plus one at the end for each video that joins,    *)
(* and fills them in the order asked for.  Everyone else stays in line.    *)
(* The positions are 1..n here and 0..n-1 in the code.                     *)
(***************************************************************************)
EXTENDS Naturals, Sequences, FiniteSets

Elems(s) == {s[i] : i \in 1..Len(s)}
IsInjectiveSeq(s) == \A i, j \in 1..Len(s) : s[i] = s[j] => i = j

(* How many members of S are at most i, and the k-th member of S. *)
Rank(S, i) == Cardinality({j \in S : j <= i})
Nth(S, k) == CHOOSE i \in S : Rank(S, i) = k

(* What stands at some places of a list, in its order. *)
AtPlaces(s, places) == [k \in 1..Cardinality(places) |-> s[Nth(places, k)]]

(* The places of the chosen among the members, and of all the others. *)
Occupied(members, chosen) == {i \in 1..Len(members) : members[i] \in chosen}
Leftover(members, chosen) == (1..Len(members)) \ Occupied(members, chosen)

(* The chosen ones of a list, and the same where the list may repeat some: *)
(* the first of each (_resolve).                                           *)
Only(members, chosen) == AtPlaces(members, Occupied(members, chosen))
Resolved(ids, chosen) ==
  AtPlaces(ids, {i \in Occupied(ids, chosen) : \A j \in 1..(i - 1) : ids[j] # ids[i]})

(* How long the series is once the selection is in it. *)
PlacedLen(members, selection) ==
  Cardinality(Leftover(members, Elems(selection))) + Len(selection)

(* Bug: the selection is put at the front. *)
Slots_Front(members, selection) == 1..Len(selection)

(* The places the selection takes: those it held, and the new ones at the end. *)
Slots(members, selection) ==
  Occupied(members, Elems(selection))
    \cup ((Len(members) + 1)..PlacedLen(members, selection))

(* Bug: the selection is appended although some of it is there already. *)
Place_Append(members, selection) == members \o selection

Place(members, selection) ==
  LET chosen == Elems(selection)
      slots == Slots(members, selection)
      free == (1..PlacedLen(members, selection)) \ slots
  IN [i \in 1..PlacedLen(members, selection) |->
        IF i \in slots
        THEN selection[Rank(slots, i)]
        ELSE members[Nth(Leftover(members, chosen), Rank(free, i))]]
=============================================================================
