------------------------------ MODULE AuthRun ------------------------------
(* What one TEAP run promises whoever started it (run_teap_test): it succeeds  *)
(* only when the server has proved the inner methods' keys (a Crypto-Binding), *)
(* the protected Result has been acknowledged after it, and the client has     *)
(* refused nothing.  What is proved or refused stays so.  TeapPeer implements  *)
(* this.                                                                       *)
VARIABLES phase,    \* idle, running, success or failure
          bound,    \* a Crypto-Binding has been verified
          acked,    \* the protected Result has been acknowledged
          refused   \* the client has decided that the run fails

vars == <<phase, bound, acked, refused>>

Init == /\ phase = "idle"
        /\ bound = FALSE
        /\ acked = FALSE
        /\ refused = FALSE

Begin == /\ phase = "idle"
         /\ phase' = "running"
         /\ UNCHANGED <<bound, acked, refused>>

(* One message of the server: it may prove the keys, and then conclude; and it *)
(* may be refused whatever else it did.                                        *)
Converse == /\ phase = "running"
            /\ ~refused
            /\ phase' \in {"running", "failure"}
            /\ bound' \in {bound, TRUE}
            /\ acked' \in {acked, bound'}
            /\ refused' \in BOOLEAN

Succeed == /\ phase = "running"
           /\ acked /\ ~refused
           /\ phase' = "success"
           /\ UNCHANGED <<bound, acked, refused>>

GiveUp == /\ phase = "running"
          /\ phase' = "failure"
          /\ UNCHANGED <<bound, acked, refused>>

Next == Begin \/ Converse \/ Succeed \/ GiveUp

Spec == Init /\ [][Next]_vars
=============================================================================
