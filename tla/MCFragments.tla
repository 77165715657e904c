---------------------------- MODULE MCFragments ----------------------------
(* Fragments with messages of none to three packets, some of them full to the  *)
(* last unit.                                                                  *)
EXTENDS Fragments
=============================================================================
