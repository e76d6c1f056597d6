---------------------------- MODULE MCCatalogue ----------------------------
(***************************************************************************)
(* Instances of Catalogue: which requests meet.                            *)
(***************************************************************************)
EXTENDS Catalogue, TLC

CONSTANTS v1, v2, n1, n2, a, b, c, d, s1, s2, s3, x

MCNameOf == [s \in Series |-> IF s = s3 THEN "B" ELSE "A"]
MCHome == [i \in Ids |-> CASE i = v1 -> a [] i = v2 -> b [] OTHER -> None]
MCTagged == [i \in Ids |-> IF i = v1 THEN Tags ELSE {}]

(* Both videos apart, in one series, in two. *)
Lists(in1, in3) ==
  [s \in Series |-> CASE s = s1 -> in1 [] s = s3 -> in3 [] OTHER -> <<>>]
MCStart ==
  {Lists(<<>>, <<>>), Lists(<<v2>>, <<>>), Lists(<<v1, v2>>, <<>>), Lists(<<v2>>, <<v1>>)}

Ask(op, ids) ==
  [op |-> op, id |-> ids[1], ids |-> ids, series |-> "keep", name |-> None,
   add |-> {}, remove |-> {}]
Into(in, n) == [in EXCEPT !.series = "assign", !.name = n]

MCInputs ==
  {Ask("view", <<v1>>), Ask("thumbnail", <<v1>>), Ask("duration", <<v2>>),
   [Ask("edit", <<v1>>) EXCEPT !.series = "clear"],
   Into(Ask("edit", <<v2, v1>>), "A"),
   [Into(Ask("edit", <<v2>>), "B") EXCEPT !.add = Tags],
   [Into(Ask("batch update", <<v2, v1, v2>>), "A") EXCEPT !.add = Tags],
   [Ask("batch update", <<v1, v2>>) EXCEPT !.series = "clear", !.remove = Tags],
   Ask("delete", <<v1>>), Ask("batch delete", <<v1, v2>>),
   [Ask("directory update", <<v1>>) EXCEPT !.add = Tags],
   Ask("directory delete", <<v1>>), Ask("list", <<v1>>)}

(* Two requests differ in nothing but their name. *)
Alike == Permutations(Requests)

MCMoves == {[id |-> v1, tgt |-> c, overwrite |-> FALSE]}
=============================================================================
