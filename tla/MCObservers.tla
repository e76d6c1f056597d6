---------------------------- MODULE MCObservers ----------------------------
(* Instances of Observers: the configurations give every constant its      *)
(* value.                                                                  *)
EXTENDS Observers
=============================================================================
