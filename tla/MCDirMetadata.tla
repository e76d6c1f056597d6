--------------------------- MODULE MCDirMetadata ---------------------------
(* An instance of DirMetadata: a root with two directories in it, one of   *)
(* them with a third inside.  c holds a file that is not a video.          *)
EXTENDS DirMetadata, TLC

CONSTANTS m, a, b, c

MCUp == m :> <<m>> @@ a :> <<a, m>> @@ b :> <<b, a, m>> @@ c :> <<c, m>>
MCStart == m :> 0 @@ a :> 0 @@ b :> 1 @@ c :> 1
Nothing == [d \in Dirs |-> "none"]
MCMarks == {Nothing, [Nothing EXCEPT ![c] = "deleted"]}
MCKnown == {Dirs, {}}

Ask(op, d, e) == [op |-> op, dir |-> d, to |-> e]
MCInputs ==
  {Ask("list", m, m), Ask("refresh", m, m), Ask("recount", m, m), Ask("measure", a, a),
   Ask("find", c, c), Ask("delete", b, b), Ask("move", c, b), Ask("update", a, c),
   Ask("keep folder", a, a), Ask("delete folder", b, b),
   Ask("delete folder", a, a), Ask("delete folder", c, c), Ask("create", b, b), Ask("create", c, c)}

Alike == Permutations(Requests)
=============================================================================
