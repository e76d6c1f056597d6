------------------------------ MODULE MCMedia ------------------------------
(***************************************************************************)
(* The instance of Media that TLC checks.  Reads of two bytes and parts of *)
(* three make transfers of several reads and uploads of several parts out  *)
(* of a file of five bytes, or of six, which leaves no shorter last part;  *)
(* sizes 0 and 1 are the boundaries of the range arithmetic.  One permit   *)
(* for two requests makes one of them wait.                                *)
(***************************************************************************)
EXTENDS Media

MCSizes == {0, 1, 5, 6}

MCBounds == {0, 1, 5}
=============================================================================
