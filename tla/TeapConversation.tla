-------------------------- MODULE TeapConversation --------------------------
(* The client of TeapPeer talking to a server that follows RFC 9930, in the    *)
(* forms the client's comments name: hostapd puts the last binding and the     *)
(* final Result in one message and may start the next inner method behind a    *)
(* binding; ISE repeats the binding with the final Result.  TEAP is lock-step, *)
(* so one action is a server message and the client's handling of it.  The     *)
(* server is not part of the repository; what it holds is only what the wire   *)
(* lets it know: the client's last packet, and the keys the two share.         *)
EXTENDS Naturals, Sequences

CONSTANTS Configs,      \* credential configurations, as in TeapPeer
          Policies,     \* sequences of identity types the server may ask for
          Plans,        \* how a server closes, and how many inner methods it may refuse
          Retypes,      \* whether a retry starts with an Identity-Type: subset of BOOLEAN
          MaxLegs, MaxKeys

VARIABLES cfg, peer, out, outcome,
          srv           \* the server

P == INSTANCE TeapPeer WITH Messages <- {}, MaxTunnels <- 1

vars == <<cfg, peer, out, outcome, srv>>

EndingForms == {"combined", "with-result", "repeated", "alone"}

ASSUME ConfigsAssumption  == Configs \subseteq P!Config
ASSUME BoundsAssumption   == MaxLegs \in Nat /\ MaxKeys \in Nat
ASSUME PlansAssumption    == Plans \subseteq [ending : EndingForms, refusals : Nat]
ASSUME PoliciesAssumption == Policies \subseteq Seq({"user", "machine"})
ASSUME RetypesAssumption  == Retypes \subseteq BOOLEAN

(* The server's phase; todo, the identity types still to authenticate; ending, *)
(* its way to close; refusals, the inner methods it may still refuse; via, the *)
(* method being run or last run ("tls", "mschap"); and its own S-IMCK chains.  *)
Init == /\ P!Init
        /\ \E policy \in Policies, plan \in Plans :
              srv = [phase |-> "start", todo |-> policy, ending |-> plan.ending,
                     refusals |-> plan.refusals, via |-> "none",
                     mskChain |-> <<>>, emskChain |-> <<>>]

None == [unsup |-> FALSE, res |-> "none", ir |-> "none", pac |-> FALSE, cb |-> "none",
         msk |-> "absent", emsk |-> "absent", idt |-> "none", eap |-> "none"]

-----------------------------------------------------------------------------
(* Keys *)

MethodKey == IF srv.via = "tls" THEN peer.inner.key
             ELSE IF srv.via = "mschap" THEN peer.mschap.key ELSE 0

(* The server after mixing in the keys of the method just judged good. *)
Mixed == [srv EXCEPT !.mskChain  = Append(@, MethodKey),
                     !.emskChain = IF srv.via = "tls" THEN Append(@, MethodKey) ELSE @]

(* A Binding Request under the chains of s: a MAC verifies exactly when the    *)
(* client's chain, once it has derived, is the server's.                       *)
BindingOf(s) ==
    LET msk  == \A q \in P!Derived(peer) : q.mskChain = s.mskChain
        emsk == \A q \in P!Derived(peer) : q.emskCmk => q.emskChain = s.emskChain
    IN  [None EXCEPT !.cb = "request",
                     !.msk = IF msk THEN "good" ELSE "bad",
                     !.emsk = IF s.via # "tls" THEN "absent"
                              ELSE IF emsk THEN "good" ELSE "bad"]

(* The TLS library exports the keys of an established inner tunnel. *)
ExportsSucceed ==
    /\ peer'.legs # peer.legs => peer'.innerMsk # 0
    /\ peer'.rounds # peer.rounds => peer'.emskCmk = peer.inner.up

-----------------------------------------------------------------------------
(* The server's side of the conversation *)

Say(m, s) == /\ IF peer.outer = "established" THEN P!TunnelData(m) ELSE P!EarlyData(m)
             /\ srv' = s
             /\ ExportsSucceed

BeginRun == P!SendIdentity /\ UNCHANGED srv

StartTunnel == /\ srv.phase = "start"
               /\ P!TeapStart
               /\ srv' = [srv EXCEPT !.phase = "hello"]

Handshake == /\ srv.phase = "hello"
             /\ \/ P!HandshakeContinue /\ UNCHANGED srv
                \/ P!HandshakeDone /\ srv' = [srv EXCEPT !.phase = "ready"]

(* With the flight that finishes the handshake, or once the tunnel is up. *)
TunnelReady == srv.phase = "ready" \/ (srv.phase = "hello" /\ out = {"tls"})

NextIdentity(m) == [m EXCEPT !.idt = Head(srv.todo), !.eap = "identity"]

AskIdentity == /\ TunnelReady
               /\ srv.todo # <<>>
               /\ Say(NextIdentity(None), [srv EXCEPT !.phase = "identity"])

(* The client offered an identity type, perhaps not the one asked for; the     *)
(* server takes it and proposes a method.  EAP-TLS only to a client with a     *)
(* certificate for it: what a client without one does is TeapPeer's            *)
(* OtherMethodsAreNaked.                                                       *)
Propose ==
    /\ srv.phase = "identity"
    /\ "eap-identity" \in out
    /\ \/ /\ P!TlsCred(peer.idType) # "none"
          /\ Say([None EXCEPT !.eap = "tls-start"], [srv EXCEPT !.phase = "method", !.via = "tls"])
       \/ Say([None EXCEPT !.eap = "mschap-challenge"],
              [srv EXCEPT !.phase = "method", !.via = "mschap"])

RunMethod ==
    /\ srv.phase = "method"
    /\ \/ "eap-nak" \in out
          /\ Say([None EXCEPT !.eap = "tls-start"], [srv EXCEPT !.via = "tls"])
       \/ "eap-tls" \in out /\ ~peer.inner.up
          /\ Say([None EXCEPT !.eap = "tls-data"], srv)
       \/ "eap-mschap-response" \in out
          /\ Say([None EXCEPT !.eap = "mschap-success-good"], srv)

(* The method is complete on the wire: the server has its verdict to give. *)
MethodComplete == /\ srv.phase = "method"
                  /\ \/ "eap-tls" \in out /\ peer.inner.up
                     \/ "eap-mschap-success" \in out

(* Intermediate-Result(Failure): for instance the account is not authorized. *)
RefuseMethod ==
    /\ MethodComplete
    /\ srv.refusals > 0
    /\ Say([None EXCEPT !.ir = "failure"],
           [srv EXCEPT !.phase = "failed", !.refusals = @ - 1])

RetryMethod ==
    /\ srv.phase = "failed"
    /\ "ir-" \in out
    /\ \E retype \in Retypes :
          IF retype THEN Say(NextIdentity(None), [srv EXCEPT !.phase = "identity"])
          ELSE Say([None EXCEPT !.eap = "identity"], [srv EXCEPT !.phase = "identity"])

(* The method is good and not the last: its binding, alone or with the next    *)
(* identity request behind it.                                                 *)
BindAndContinue ==
    /\ MethodComplete
    /\ Len(srv.todo) > 1
    /\ LET s == [Mixed EXCEPT !.todo = Tail(@)]
           b == [BindingOf(s) EXCEPT !.ir = "success"]
       IN  \/ Say(b, [s EXCEPT !.phase = "ready"])
           \/ Say([b EXCEPT !.idt = Head(s.todo), !.eap = "identity"],
                  [s EXCEPT !.phase = "identity"])

BindLast ==
    /\ MethodComplete
    /\ Len(srv.todo) = 1
    /\ LET s == [Mixed EXCEPT !.todo = <<>>]
           b == BindingOf(s)
       IN  CASE srv.ending = "combined" ->
                  Say([b EXCEPT !.ir = "success", !.res = "success"], [s EXCEPT !.phase = "result"])
             [] srv.ending = "with-result" ->
                  Say([b EXCEPT !.res = "success"], [s EXCEPT !.phase = "result"])
             [] OTHER ->
                  Say([b EXCEPT !.ir = "success"], [s EXCEPT !.phase = "bound"])

(* The final Result after a binding of its own: with the binding repeated, or  *)
(* alone.                                                                      *)
FinalResult ==
    /\ srv.phase = "bound"
    /\ "cb" \in out
    /\ LET m == IF srv.ending = "repeated" THEN BindingOf(srv) ELSE None
       IN  Say([m EXCEPT !.res = "success"], [srv EXCEPT !.phase = "result"])

(* The policy asks for no inner method: a binding over the all-zero IMSK. *)
NoInnerMethod ==
    /\ TunnelReady
    /\ srv.todo = <<>>
    /\ srv.mskChain = <<>>
    /\ LET s == [srv EXCEPT !.mskChain = <<0>>]
       IN  Say([BindingOf(s) EXCEPT !.res = "success"], [s EXCEPT !.phase = "result"])

Accept == /\ srv.phase = "result"
          /\ "res+" \in out
          /\ P!AcceptSuccess
          /\ UNCHANGED srv

(* The server gives up after a refused method: Result(Failure), which the      *)
(* client acknowledges, then Access-Reject.                                    *)
GiveUp == /\ srv.phase = "failed"
          /\ "ir-" \in out
          /\ Say([None EXCEPT !.res = "failure"], [srv EXCEPT !.phase = "rejected"])

Reject == /\ srv.phase = "rejected"
          /\ "res-" \in out
          /\ P!LastReply
          /\ UNCHANGED srv

Next == \/ BeginRun
        \/ StartTunnel
        \/ Handshake
        \/ AskIdentity
        \/ Propose
        \/ RunMethod
        \/ RefuseMethod
        \/ RetryMethod
        \/ BindAndContinue
        \/ BindLast
        \/ FinalResult
        \/ NoInnerMethod
        \/ Accept
        \/ GiveUp
        \/ Reject

Spec == Init /\ [][Next]_vars

(* Each side answers: the server by assumption, the client because every       *)
(* handler ends in an exchange or a return.  A handshake has finitely many     *)
(* flights, so finishing one is strongly fair.                                 *)
FairSpec == /\ Spec
            /\ WF_vars(Next)
            /\ SF_vars(Handshake /\ srv'.phase = "ready")
            /\ SF_vars(RunMethod /\ peer'.inner.up)

-----------------------------------------------------------------------------
(* Properties *)

(* Both sides have mixed the same keys in the same order whenever a binding    *)
(* has just been answered: retries, identities offered instead of the one      *)
(* asked for, and methods chained behind a binding included.                   *)
ChainsAgree == "cb" \in out => peer.mskChain = srv.mskChain

(* A server that follows the protocol is never told the tunnel is compromised  *)
(* or its TLVs unexpected (_fatal).                                            *)
NeverRefused == "err" \notin out

(* What a successful run reports as bound legs is exactly what the server has  *)
(* bound, in order (the crypto_binding flags of the session's legs).           *)
(* With no inner method the all-zero key is bound, and no leg reported.        *)
Reports(legs, chain) ==
    \E f \in [DOMAIN chain -> DOMAIN legs] :
        /\ \A i, j \in DOMAIN chain : i < j => f[i] < f[j]
        /\ \A i \in DOMAIN chain : legs[f[i]].key = chain[i]
        /\ \A n \in DOMAIN legs : legs[n].bound <=> \E i \in DOMAIN chain : f[i] = n

ReportIsTrue ==
    outcome = "success" => \/ Reports(peer.legs, srv.mskChain)
                           \/ peer.legs = <<>> /\ srv.mskChain = <<0>>

(* What these rest on, for a server that announces an identity type with every *)
(* retry and does not repeat its binding when it has refused a method (what    *)
(* happens otherwise, the runs that expect a violation show).                  *)
Server == [phase : {"start", "hello", "ready", "identity", "method", "failed", "bound",
                    "result", "rejected"},
           todo : Seq({"user", "machine"}), ending : EndingForms, refusals : Nat,
           via : {"none", "tls", "mschap"}, mskChain : Seq(Nat), emskChain : Seq(Nat)]

Untroubled == /\ Retypes \subseteq {TRUE}
              /\ \A plan \in Plans : plan.ending = "repeated" => plan.refusals = 0

(* There is an identity type left while one is being authenticated. *)
ServerFits ==
    srv \in Server /\ (srv.phase \in {"identity", "method", "failed"} => srv.todo # <<>>)

KeysAgree == peer.mskChain = srv.mskChain /\ peer.emskChain = srv.emskChain

(* Nothing of an inner method is left before the first one. *)
StartsClean ==
    srv.phase \in {"start", "hello", "ready"} /\ srv.mskChain = <<>>
        => peer.innerMsk = 0 /\ peer.inner = P!NoInner /\ peer.legs = <<>> /\ srv.via = "none"

LastLeg == peer.legs[Len(peer.legs)]

(* The legs marked as bound are at every moment those whose keys are mixed in. *)
LegsMatch == \/ Reports(peer.legs, srv.mskChain)
             \/ srv.phase = "result" /\ peer.legs = <<>> /\ srv.mskChain = <<0>>

(* A method the client has recorded is the one the server runs, and its keys   *)
(* are the ones the next binding mixes in.                                     *)
MethodIsShared ==
    /\ srv.phase = "identity" \/ (srv.phase = "method" /\ "eap-tls" \notin out)
          => peer.inner = P!NoInner
    /\ srv.phase = "method" =>
          /\ out \in {{"eap-nak"}, {"eap-tls"}, {"eap-mschap-response"}, {"eap-mschap-success"}}
          /\ "eap-tls" \in out => srv.via = "tls" /\ peer.inner.key # 0
          /\ "eap-mschap-response" \in out => srv.via = "mschap" /\ peer.mschap.key # 0
          /\ "eap-mschap-success" \in out => srv.via = "mschap"
    /\ MethodComplete => /\ peer.innerMsk = MethodKey
                         /\ Len(peer.legs) > peer.rounds
                         /\ ~LastLeg.bound /\ LastLeg.key = MethodKey

(* A repeated binding finds every recorded method bound. *)
RepeatsAreBound ==
    srv.ending = "repeated" =>
        /\ srv.refusals = 0 /\ srv.phase # "failed"
        /\ srv.phase # "result" =>
              Len(peer.legs) = IF MethodComplete THEN peer.rounds + 1 ELSE peer.rounds

Going == outcome \in {"idle", "running"} /\ peer.state # "FAILED"

InStep ==
    /\ KeysAgree
    /\ LegsMatch
    /\ outcome = "idle" => srv.phase = "start"
    /\ Going => /\ StartsClean
                /\ MethodIsShared
                /\ RepeatsAreBound
                /\ srv.phase # "result" => peer.rounds <= Len(peer.legs)
                /\ srv.phase = "bound" => peer.cbDone /\ peer.legs # <<>> /\ LastLeg.bound

InductiveInv == P!InductiveInv /\ ServerFits /\ InStep /\ NeverRefused

(* Every conversation with such a server comes to its end, and the run fails   *)
(* only where the server gave up: no exchange leaves both sides waiting.       *)
Completes == <>(\/ outcome = "success"
                \/ outcome = "failure" /\ srv.phase = "rejected")

(* _derive_binding_keys: a method with no EMSK leaves the EMSK chain where it  *)
(* was and its binding carries no EMSK Compound MAC.                           *)
NoEmskFromMschapv2 == ("cb" \in out /\ srv.via = "mschap" /\ srv.phase = "result") => ~peer.emskCmk
=============================================================================
