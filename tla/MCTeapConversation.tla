------------------------- MODULE MCTeapConversation -------------------------
(* TeapConversation on small instances. *)
EXTENDS TeapConversation

Credentials(uc, up, mc, mp) ==
    [userCert |-> uc, userPwd |-> up, machCert |-> mc, machPwd |-> mp]

(* Certificates for both, one certificate and one password either way, and a   *)
(* single identity of each kind.                                               *)
SomeConfigs == {Credentials(TRUE, FALSE, TRUE, FALSE), Credentials(TRUE, FALSE, FALSE, TRUE),
                Credentials(FALSE, TRUE, TRUE, FALSE), Credentials(FALSE, TRUE, FALSE, FALSE),
                Credentials(FALSE, FALSE, TRUE, FALSE)}
BothForUser == {Credentials(TRUE, TRUE, FALSE, FALSE)}

SomePolicies == {<<>>, <<"user">>, <<"machine">>, <<"machine", "user">>}
UserPolicy == {<<"user">>}

Plan(e, n) == [ending |-> e, refusals |-> n]

(* A server that repeats its binding after a refused method is the case of     *)
(* RepeatAfterRefusal.                                                         *)
SomePlans == {Plan("repeated", 0)} \cup {Plan(e, 2) : e \in EndingForms \ {"repeated"}}
RepeatAfterRefusal == {Plan("repeated", 1)}
RefuseOnce == {Plan("with-result", 1)}
Retyped == {TRUE}
Untyped == {FALSE}
=============================================================================
