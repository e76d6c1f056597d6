----------------------------- MODULE Placement -----------------------------
(***************************************************************************)
(* What moving videos around promises, whoever moves them and however      *)
(* often a move is interrupted, refused, retried or cancelled: the path in *)
(* a video's record always holds the whole bytes of that video.  A copy    *)
(* is added, the record is pointed at it, a copy nothing points at is      *)
(* dropped, and never in another order.                                    *)
(***************************************************************************)
CONSTANTS Videos, Paths

VARIABLES
  at,     \* the path in each video's record
  copies  \* the paths that hold the whole bytes of each video

Init ==
  /\ at \in [Videos -> Paths]
  /\ copies = [v \in Videos |-> {at[v]}]

(* The bytes become whole at a path that held no other of these videos. *)
Copy(v, p) ==
  /\ \A u \in Videos : p \notin copies[u]
  /\ copies' = [copies EXCEPT ![v] = @ \cup {p}]
  /\ UNCHANGED at

Repoint(v, p) ==
  /\ p \in copies[v]
  /\ at' = [at EXCEPT ![v] = p]
  /\ UNCHANGED copies

Drop(v, p) ==
  /\ p \in copies[v] \ {at[v]}
  /\ copies' = [copies EXCEPT ![v] = @ \ {p}]
  /\ UNCHANGED at

Next ==
  \E v \in Videos, p \in Paths : Copy(v, p) \/ Repoint(v, p) \/ Drop(v, p)

Spec == Init /\ [][Next]_<<at, copies>>
=============================================================================
