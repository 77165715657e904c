----------------------------- MODULE MCTeapPeer -----------------------------
(* TeapPeer on small instances: which credentials a run may hold and which TLV *)
(* messages the server may send.                                               *)
EXTENDS TeapPeer

None == [unsup |-> FALSE, res |-> "none", ir |-> "none", pac |-> FALSE, cb |-> "none",
         msk |-> "absent", emsk |-> "absent", idt |-> "none", eap |-> "none"]

GoodBinding == [None EXCEPT !.cb = "request", !.msk = "good"]
BadBinding  == [None EXCEPT !.cb = "request", !.msk = "bad"]

(* Binding Requests: the MSK MAC alone, to accept or to refuse, one whose EMSK *)
(* MAC is wrong, and one that cannot be read.                                  *)
Bindings == {GoodBinding, BadBinding, [GoodBinding EXCEPT !.emsk = "bad"],
             [None EXCEPT !.cb = "invalid"]}

(* Inner methods, alone, with an Identity-Type, or behind a binding. *)
Inner == {[None EXCEPT !.eap = e] :
             e \in {"success", "tls-start", "tls-data", "mschap-challenge", "mschap-success-good"}}
Typed == {[None EXCEPT !.idt = t, !.eap = "identity"] : t \in {"user", "machine"}}
Chained == {[GoodBinding EXCEPT !.ir = "success", !.idt = t, !.eap = "identity"] :
               t \in {"none", "machine"}}

(* Results of one method and of the whole conversation, with and without a     *)
(* binding.                                                                    *)
Results == {[GoodBinding EXCEPT !.ir = i, !.res = r] :
               i \in {"none", "success"}, r \in {"success", "failure"}}
           \cup {[None EXCEPT !.res = r] : r \in {"success", "failure"}}
           \cup {[None EXCEPT !.ir = "failure"]}

(* Messages at the edge of the dispatch order. *)
Odd == {[None EXCEPT !.unsup = TRUE, !.res = r] : r \in {"none", "success"}}
       \cup {[BadBinding EXCEPT !.ir = "success", !.res = "success"],
             [BadBinding EXCEPT !.pac = TRUE, !.res = "success"]}

AnyMessages == Bindings \cup Inner \cup Typed \cup Chained \cup Results \cup Odd

(* One inner method of each kind, with a binding before and after it. *)
MethodMessages == {[None EXCEPT !.idt = "user", !.eap = e] :
                      e \in {"tls-start", "mschap-challenge"}}
                  \cup {[None EXCEPT !.eap = e] : e \in {"tls-data", "mschap-success-good"}}
                  \cup {[GoodBinding EXCEPT !.ir = "success"],
                        [GoodBinding EXCEPT !.res = "success"],
                        [None EXCEPT !.res = "success"]}

(* A user password with a machine certificate, the reverse, and no credential  *)
(* at all; and a user password alone.                                          *)
Credentials(uc, up, mc, mp) ==
    [userCert |-> uc, userPwd |-> up, machCert |-> mc, machPwd |-> mp]

SomeConfigs == {Credentials(FALSE, TRUE, TRUE, FALSE), Credentials(TRUE, FALSE, FALSE, TRUE),
                Credentials(FALSE, FALSE, FALSE, FALSE)}
UserPwdOnly == {Credentials(FALSE, TRUE, FALSE, FALSE)}
=============================================================================
