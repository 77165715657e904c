---------------------------- MODULE MCJobRunner ----------------------------
(* A job or a bulk operation of three sessions, two of which may run at once.  *)
EXTENDS JobRunner
=============================================================================
