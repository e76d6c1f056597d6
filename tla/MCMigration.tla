---------------------------- MODULE MCMigration ----------------------------
(* Instances of Migration: two tasks over two videos and four paths.  The  *)
(* first two paths hold the videos at the start, the other two are free.   *)
EXTENDS Migration, TLC

CONSTANTS t1, t2, v1, v2, a, b, c, d

Move(v, p, s) == [video |-> v, dest |-> p, strategy |-> s]

HomeAB == v1 :> a @@ v2 :> b
VariantD == [p \in Paths |-> d]

(* Two videos for two free paths. *)
Apart == t1 :> Move(v1, c, "none") @@ t2 :> Move(v2, d, "none")
(* Two videos for one free name: the later request is given a variant. *)
SameName == t1 :> Move(v1, c, "rename") @@ t2 :> Move(v2, c, "rename")
(* One video over another, or to a free path. *)
Replace == t1 :> Move(v1, b, "overwrite") @@ t2 :> Move(v1, c, "none")
(* One video over another that is asked to move as well. *)
Onto == t1 :> Move(v1, b, "overwrite") @@ t2 :> Move(v2, c, "none")
=============================================================================
