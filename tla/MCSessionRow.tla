---------------------------- MODULE MCSessionRow ----------------------------
(* SessionRow, with one accounting request and one re-authentication at a time *)
(* beside the two timers.                                                      *)
EXTENDS SessionRow
=============================================================================
