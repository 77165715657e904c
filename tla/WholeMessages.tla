--------------------------- MODULE WholeMessages ---------------------------
(* What the TLS layers above TEAP rely on, and TeapPeer and TeapConversation   *)
(* take as one step: the two sides hand each other whole messages in turn, the *)
(* client the odd ones, the server the even ones, each once and in full, until *)
(* the conversation is over.  Fragments implements this.                       *)
EXTENDS Naturals, Sequences

CONSTANT Lengths   \* the lengths a message may have

VARIABLES delivered,   \* the data handed on so far, by either side
          over         \* the conversation has ended

vars == <<delivered, over>>

(* Message k of len units; a unit knows its message and its place in it. *)
Whole(k, len) == [i \in 1 .. len |-> <<k, i>>]

Init == delivered = <<>> /\ over = FALSE

Deliver == /\ ~over
           /\ \E len \in Lengths :
                 delivered' = Append(delivered, Whole(Len(delivered) + 1, len))
           /\ UNCHANGED over

End == /\ ~over
       /\ over' = TRUE
       /\ UNCHANGED delivered

Next == Deliver \/ End

Spec == Init /\ [][Next]_vars
=============================================================================
