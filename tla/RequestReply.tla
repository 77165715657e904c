---------------------------- MODULE RequestReply ----------------------------
(* What a session expects of RADIUS (TEAPSession._radius_exchange): its calls  *)
(* are answered one at a time.  The server takes each call as new once, in the *)
(* order of the calls, a call returns only when it has, and a session that     *)
(* fails makes no more calls.  RadiusExchange implements this.                 *)
EXTENDS Naturals

CONSTANT Callers

VARIABLES calls,   \* the number of calls each caller has made
          served,  \* the number of its calls that the server has taken
          phase    \* idle, pending: the last call has not returned, or failed

vars == <<calls, served, phase>>

Init == /\ calls = [c \in Callers |-> 0]
        /\ served = [c \in Callers |-> 0]
        /\ phase = [c \in Callers |-> "idle"]

Call(c) == /\ phase[c] = "idle"
           /\ calls' = [calls EXCEPT ![c] = @ + 1]
           /\ phase' = [phase EXCEPT ![c] = "pending"]
           /\ UNCHANGED served

(* Also after the caller has given up: its request may still be on its way. *)
Serve(c) == /\ served[c] < calls[c]
            /\ served' = [served EXCEPT ![c] = @ + 1]
            /\ UNCHANGED <<calls, phase>>

Return(c) == /\ phase[c] = "pending"
             /\ served[c] = calls[c]
             /\ phase' = [phase EXCEPT ![c] = "idle"]
             /\ UNCHANGED <<calls, served>>

Fail(c) == /\ phase[c] = "pending"
           /\ phase' = [phase EXCEPT ![c] = "failed"]
           /\ UNCHANGED <<calls, served>>

Next == \E c \in Callers : Call(c) \/ Serve(c) \/ Return(c) \/ Fail(c)

Spec == Init /\ [][Next]_vars
=============================================================================
