------------------------------ MODULE TeapPeer ------------------------------
(* The EAP-TEAP client of teap_tester (TEAPSession in state_machine.py, with   *)
(* the inner methods of inner_tls.py and inner_mschapv2.py) against a server   *)
(* that may answer anything.  A step is one turn of the run loop: the reply to *)
(* the last RADIUS exchange is processed by one handler, up to the next        *)
(* exchange (Answer) or the handler's return without one (Return).             *)
(*                                                                             *)
(* The handlers are action operators over a peer value p, so that a handler    *)
(* that calls another (a binding followed by the next method's first packet)   *)
(* passes on the state it has already changed and the TLVs it already owes.    *)
(*                                                                             *)
(* Definitions named for a fault (MskMacUnchecked before MacsVerify) are the   *)
(* variants of the next definition that the checks must tell from it.          *)
EXTENDS Naturals, Sequences

CONSTANTS Configs,      \* the credential configurations a run may have
          Messages,     \* the TLV messages the server may send in the tunnel
          MaxLegs,      \* bound: inner methods recorded in one run
          MaxTunnels,   \* bound: TEAP-Starts in one run
          MaxKeys       \* bound: inner tunnels and MS-CHAPv2 responses in one run

VARIABLES cfg,      \* which credentials are configured (TEAPTestConfig)
          peer,     \* the attributes of the TEAPSession
          out,      \* what the peer sent in its last exchange
          outcome   \* what run_teap_test has returned, if it has

vars == <<cfg, peer, out, outcome>>

-----------------------------------------------------------------------------
(* Data *)

Config == [userCert : BOOLEAN, userPwd : BOOLEAN, machCert : BOOLEAN, machPwd : BOOLEAN]

IdTypes == {"none", "user", "machine"}
Creds   == {"none", "user-cert", "machine-cert", "user-pwd", "machine-pwd"}
Verdict == {"none", "success", "failure"}
EapPackets ==
    {"none", "success", "failure", "response", "identity", "tls-start", "tls-data",
     "mschap-challenge", "mschap-bad-challenge", "mschap-success-good",
     "mschap-success-bad", "mschap-failure", "mschap-other", "other-method"}

(* What dispatch tells apart in a decrypted TLV message.  cb is the            *)
(* Crypto-Binding TLV; msk and emsk say whether that Compound MAC is present   *)
(* and whether it verifies under the keys the peer holds once it has derived.  *)
TlvMessage ==
    [unsup : BOOLEAN, res : Verdict, ir : Verdict, pac : BOOLEAN,
     cb : {"none", "invalid", "request"},
     msk : {"absent", "good", "bad"}, emsk : {"absent", "good", "bad"},
     idt : IdTypes, eap : EapPackets]

States == {"INIT", "TLS_HANDSHAKE", "TUNNEL_UP", "INNER_IDENTITY", "INNER_TLS_HANDSHAKE",
           "INNER_TLS_DONE", "CRYPTO_BINDING", "RESULT_PAC", "DONE", "FAILED"}

(* A recorded inner method.  key, which run of the method it was, is history:  *)
(* the code stores identity_type, method and crypto_binding.                   *)
Leg == [idType : {"user", "machine"}, method : {"EAP-TLS", "MS-CHAPv2"},
        bound : BOOLEAN, key : Nat]

Tags == {"identity", "hello", "tls", "ack", "alert", "nak", "ir+", "ir-", "cb",
         "res+", "res-", "err", "idt-user", "idt-machine", "eap-identity", "eap-tls",
         "eap-tls-ack", "eap-mschap-response", "eap-mschap-success", "eap-nak"}

(* Keys are named by the run of the inner method that made them; 0 is the      *)
(* all-zero IMSK.  An S-IMCK chain is the sequence of the keys mixed into it,  *)
(* and each CMK is cut from the same IMCK as the S-IMCK, so the sequence       *)
(* stands for both.  keys and tunnels count, and so name and bound, those runs *)
(* and the outer tunnels.                                                      *)
Peer ==
    [state : States, outer : {"none", "handshake", "established", "refused"},
     inner : [key : Nat, up : BOOLEAN, cred : Creds], idType : IdTypes,
     mschap : [key : Nat, cred : Creds], innerMsk : Nat, legs : Seq(Leg),
     rounds : Nat, cbDone : BOOLEAN, resultAck : BOOLEAN,
     mskChain : Seq(Nat), emskChain : Seq(Nat), emskCmk : BOOLEAN,
     keys : Nat, tunnels : Nat]

ASSUME ConfigsAssumption  == Configs \subseteq Config
ASSUME MessagesAssumption == Messages \subseteq TlvMessage
ASSUME BoundsAssumption   == MaxLegs \in Nat /\ MaxTunnels \in Nat /\ MaxKeys \in Nat

NoInner  == [key |-> 0, up |-> FALSE, cred |-> "none"]
NoMschap == [key |-> 0, cred |-> "none"]

InitPeer ==
    [state |-> "INIT", outer |-> "none", inner |-> NoInner, idType |-> "none",
     mschap |-> NoMschap, innerMsk |-> 0, legs |-> <<>>, rounds |-> 0,
     cbDone |-> FALSE, resultAck |-> FALSE, mskChain |-> <<>>, emskChain |-> <<>>,
     emskCmk |-> FALSE, keys |-> 0, tunnels |-> 0]

Init == /\ cfg \in Configs
        /\ peer = InitPeer
        /\ out = {}
        /\ outcome = "idle"

-----------------------------------------------------------------------------
(* How a handler ends *)

Terminal == {"DONE", "FAILED"}

(* The handler sends tags in one RADIUS exchange; the run goes on when the     *)
(* server's reply to it arrives.                                               *)
Answer(p, tags) == /\ peer' = p
                   /\ out' = tags
                   /\ outcome' = "running"
                   /\ UNCHANGED cfg

(* The handler returns None: the run loop ends, successfully only from DONE.   *)
Return(p) == /\ peer' = p
             /\ out' = {}
             /\ outcome' = IF p.state = "DONE" THEN "success" ELSE "failure"
             /\ UNCHANGED cfg

Fail(p) == Return([p EXCEPT !.state = "FAILED"])

Fatal(p) == Answer([p EXCEPT !.state = "FAILED"], {"res-", "err"})

AnswerFailureAndGoOn(p) == Answer(p, {"res-"})

AnswerFailure(p) == Answer([p EXCEPT !.state = "FAILED"], {"res-"})

-----------------------------------------------------------------------------
(* Credentials *)

HasCredentialFor(t) == IF t = "machine" THEN cfg.machCert \/ cfg.machPwd
                                        ELSE cfg.userCert \/ cfg.userPwd

AnyPasswordFor(t) == cfg.machPwd \/ cfg.userPwd

PasswordFor(t) == IF t = "machine" THEN cfg.machPwd ELSE cfg.userPwd

PasswordCred(t) == IF t = "machine" THEN "machine-pwd" ELSE "user-pwd"

(* A machine leg with no certificate of its own presents the user's. *)
TlsCred(t) == IF t = "machine" /\ cfg.machCert THEN "machine-cert"
              ELSE IF cfg.userCert THEN "user-cert" ELSE "none"

Other(t) == IF t = "machine" THEN "user" ELSE "machine"

IdTag(t) == IF t = "machine" THEN "idt-machine" ELSE "idt-user"

LegTypeAsAnnounced(t) == t

LegType(t) == IF t = "machine" THEN "machine" ELSE "user"

(* An inner method completed for the current identity type: its leg, not yet   *)
(* bound, and the MSK the next binding will use (zero when the export failed). *)
RecordLeg(p, method, key, msk) ==
    [p EXCEPT !.legs = Append(@, [idType |-> LegType(p.idType), method |-> method,
                                  bound |-> FALSE, key |-> key]),
              !.innerMsk = msk]

-----------------------------------------------------------------------------
(* Inner methods.  extra is what the reply carries before the EAP-Payload.     *)

(* No inner tunnel: one is opened for the identity type's certificate and the  *)
(* ClientHello sent.  Otherwise an empty body is an ACK, and data drives the   *)
(* handshake; whenever the tunnel is up after data, a leg is recorded.         *)
InnerTls(p, m, extra) ==
    LET send(q) == Answer(q, extra \cup {"eap-tls"})
    IN  \/ /\ p.inner.key = 0
           /\ p.keys < MaxKeys
           /\ send([p EXCEPT !.state = "INNER_TLS_HANDSHAKE",
                             !.keys  = @ + 1,
                             !.inner = [key |-> p.keys + 1, up |-> FALSE,
                                        cred |-> TlsCred(p.idType)]])
        \/ /\ p.inner.key # 0
           /\ m.eap = "tls-start"
           /\ Answer(p, extra \cup {"eap-tls-ack"})
        \/ /\ p.inner.key # 0
           /\ m.eap = "tls-data"
           /\ ~p.inner.up
           /\ send(p)
        \/ /\ p.inner.key # 0
           /\ m.eap = "tls-data"
           /\ Len(p.legs) < MaxLegs
           /\ \E msk \in {p.inner.key, 0} :
                 send([RecordLeg(p, "EAP-TLS", p.inner.key, msk)
                         EXCEPT !.state = "INNER_TLS_DONE", !.inner.up = TRUE])

(* A Challenge is answered with the current identity's password and remembered; *)
(* a Success is checked against what was remembered, if anything was.           *)
InnerMschapv2(p, m, extra) ==
    \/ /\ m.eap = "mschap-challenge"
       /\ p.keys < MaxKeys
       /\ Answer([p EXCEPT !.keys = @ + 1,
                           !.mschap = [key |-> p.keys + 1, cred |-> PasswordCred(p.idType)]],
                 extra \cup {"eap-mschap-response"})
    \/ /\ m.eap \in {"mschap-success-good", "mschap-success-bad"}
       /\ p.mschap.key = 0
       /\ Answer(p, extra \cup {"eap-mschap-success"})
    \/ /\ m.eap = "mschap-success-good"
       /\ p.mschap.key # 0
       /\ Len(p.legs) < MaxLegs
       /\ Answer(RecordLeg(p, "MS-CHAPv2", p.mschap.key, p.mschap.key),
                 extra \cup {"eap-mschap-success"})
    \/ /\ m.eap = "mschap-success-bad"
       /\ p.mschap.key # 0
       /\ Fail(p)
    \/ /\ m.eap \in {"mschap-bad-challenge", "mschap-failure", "mschap-other"}
       /\ Fail(p)

MschapPackets == {"mschap-challenge", "mschap-bad-challenge", "mschap-success-good",
                  "mschap-success-bad", "mschap-failure", "mschap-other"}

(* Not a method this identity runs: the Nak names the configured one. *)
MustNak(p, m) == \/ m.eap = "other-method"
                 \/ m.eap \in MschapPackets /\ ~PasswordFor(p.idType)

HandleInnerEap(p, m, extra) ==
    \/ /\ m.eap = "success"
       /\ Answer([p EXCEPT !.state = "INNER_TLS_DONE"],
                 IF extra = {} THEN {"ack"} ELSE extra)
    \/ /\ m.eap \in {"failure", "response"}
       /\ Fail(p)
    \/ /\ m.eap = "identity"
       /\ Answer([p EXCEPT !.state = "INNER_IDENTITY"], extra \cup {"eap-identity"})
    \/ /\ m.eap \in {"tls-start", "tls-data"}
       /\ InnerTls(p, m, extra)
    \/ /\ m.eap \in MschapPackets
       /\ PasswordFor(p.idType)
       /\ InnerMschapv2(p, m, extra)
    \/ /\ MustNak(p, m)
       /\ Answer(p, extra \cup {"eap-nak"})

(* Faulty: the TLVs owed are dropped; the inner tunnel is kept. *)
ProceedWithoutOwed(p, m, t, extra) ==
    LET q == [p EXCEPT !.state = "INNER_IDENTITY", !.idType = t, !.inner = NoInner]
    IN  IF m.eap # "none" THEN HandleInnerEap(q, m, {IdTag(t)}) ELSE Answer(q, {IdTag(t)})

ProceedInSameTunnel(p, m, t, extra) ==
    LET q    == [p EXCEPT !.state = "INNER_IDENTITY", !.idType = t]
        tags == extra \cup {IdTag(t)}
    IN  IF m.eap # "none" THEN HandleInnerEap(q, m, tags) ELSE Answer(q, tags)

(* The identity type the peer goes on with, t, is announced and the inner      *)
(* tunnel dropped; an EAP-Payload in the same message is answered as t.        *)
ProceedAs(p, m, t, extra) ==
    LET q    == [p EXCEPT !.state = "INNER_IDENTITY", !.idType = t, !.inner = NoInner]
        tags == extra \cup {IdTag(t)}
    IN  IF m.eap # "none" THEN HandleInnerEap(q, m, tags) ELSE Answer(q, tags)

(* A type with no credential is answered with an offer of the other one. *)
HandleIdentityType(p, m, extra) ==
    \/ /\ HasCredentialFor(m.idt)
       /\ ProceedAs(p, m, m.idt, extra)
    \/ /\ ~HasCredentialFor(m.idt)
       /\ HasCredentialFor(Other(m.idt))
       /\ ProceedAs(p, m, Other(m.idt), extra)
    \/ /\ ~HasCredentialFor(m.idt)
       /\ ~HasCredentialFor(Other(m.idt))
       /\ Fail([p EXCEPT !.idType = m.idt])

-----------------------------------------------------------------------------
(* Crypto-Binding *)

(* Advance both S-IMCK chains: the MSK chain always, the EMSK chain when the   *)
(* current inner tunnel exports an EMSK (emsk); without one there is no EMSK   *)
(* CMK and that chain stays where it was.                                      *)
DeriveBindingKeys(p, emsk) ==
    [p EXCEPT !.mskChain  = Append(@, p.innerMsk),
              !.emskChain = IF emsk THEN Append(@, p.inner.key) ELSE @,
              !.emskCmk   = emsk,
              !.rounds    = @ + 1]

DeriveAlways(p) == TRUE
DeriveOnce(p)   == p.rounds = 0

MustDerive(p) == Len(p.legs) > p.rounds \/ p.rounds = 0

(* The peer after the derivation a Binding Request calls for, if any.  Only    *)
(* an established inner tunnel can export, and the export may fail.            *)
Derived(p) ==
    IF MustDerive(p)
    THEN {DeriveBindingKeys(p, e) : e \in {FALSE} \cup (IF p.inner.up THEN {TRUE} ELSE {})}
    ELSE {p}

MskMacUnchecked(q, m) == m.emsk = "bad" => ~q.emskCmk

(* Every Compound MAC the server sent that the peer can compute verifies, and  *)
(* the response will carry at least one.                                       *)
MacsVerify(q, m) == /\ m.msk # "bad"
                    /\ m.emsk = "bad" => ~q.emskCmk
                    /\ m.msk = "absent" => m.emsk # "absent" /\ q.emskCmk

BindFirstLeg(p) == IF p.legs = <<>> THEN p ELSE [p EXCEPT !.legs[1].bound = TRUE]

BindCurrentLeg(p) ==
    IF p.legs = <<>> THEN p ELSE [p EXCEPT !.legs[Len(p.legs)].bound = TRUE]

Bound(q) == [BindCurrentLeg(q) EXCEPT !.cbDone = TRUE]

BoundWithoutKeys(p, m) ==
    {Bound(p) : q \in {r \in Derived(p) : m.cb = "request" /\ MacsVerify(r, m)}}

(* _bind: the peers it may return with, each bound ... *)
BoundPeers(p, m) ==
    {Bound(q) : q \in {r \in Derived(p) : m.cb = "request" /\ MacsVerify(r, m)}}

(* ... or a BindingError, which every caller answers with a fatal error. *)
RefuseBinding(p, m) ==
    \/ m.cb = "invalid" /\ Fatal(p)
    \/ /\ m.cb = "request"
       /\ \E q \in Derived(p) : ~MacsVerify(q, m) /\ Fatal(q)

-----------------------------------------------------------------------------
(* Dispatch: one handler per combination of TLVs, the first that applies *)

(* An unsupported mandatory TLV: NAKed, unless a Result came with it. *)
UnsupportedTlv(p, m) == IF m.res # "none" THEN Fatal(p) ELSE Answer(p, {"nak"})

HandleResultPac(p, m) ==
    IF m.res = "success" THEN Answer([p EXCEPT !.state = "RESULT_PAC"], {"res+"})
                         ELSE AnswerFailure(p)

HandleLastBindingAndResult(p, m) ==
    \/ RefuseBinding(p, m)
    \/ \E q \in BoundPeers(p, m) :
          IF m.ir = "success" /\ m.res = "success"
          THEN Answer([q EXCEPT !.resultAck = TRUE], {"ir+", "cb", "res+"})
          ELSE AnswerFailure(q)

HandleFinalResult(p, m) ==
    \/ RefuseBinding(p, m)
    \/ \E q \in BoundPeers(p, m) :
          IF m.res = "success"
          THEN Answer([q EXCEPT !.resultAck = TRUE], {"res+", "cb"})
          ELSE AnswerFailure(q)

(* The binding is answered first; the next method, when the same message       *)
(* starts it, is answered in the same reply.                                   *)
HandleCryptoBinding(p, m) ==
    \/ RefuseBinding(p, m)
    \/ \E q \in BoundPeers(p, m) :
          LET reply == {"cb", "ir+"}
          IN  IF m.idt # "none" THEN HandleIdentityType(q, m, reply)
              ELSE IF m.eap # "none" THEN HandleInnerEap(q, m, reply)
              ELSE Answer([q EXCEPT !.state = "CRYPTO_BINDING"], reply)

HandleIntermediateResultCrypto(p, m) ==
    IF m.ir = "success" THEN HandleCryptoBinding(p, m) ELSE Fatal(p)

HandleIntermediateFailure(p, m) ==
    IF m.ir = "success" THEN Fatal(p) ELSE Answer(p, {"ir-"})

ResultAloneUnchecked(p, m) == Answer([p EXCEPT !.resultAck = TRUE], {"res+"})

HandleResultAlone(p, m) ==
    \/ m.res = "failure" /\ AnswerFailure(p)
    \/ m.res = "success" /\ ~p.cbDone /\ Fatal(p)
    \/ m.res = "success" /\ p.cbDone /\ Answer([p EXCEPT !.resultAck = TRUE], {"res+"})

DispatchTlvs(p, m) ==
    LET res == m.res # "none"
        ir  == m.ir # "none"
        cb  == m.cb # "none"
    IN  IF m.unsup                THEN UnsupportedTlv(p, m)
        ELSE IF res /\ m.pac      THEN HandleResultPac(p, m)
        ELSE IF ir /\ res /\ cb   THEN HandleLastBindingAndResult(p, m)
        ELSE IF res /\ cb         THEN HandleFinalResult(p, m)
        ELSE IF ir /\ cb          THEN HandleIntermediateResultCrypto(p, m)
        ELSE IF ir /\ ~res        THEN HandleIntermediateFailure(p, m)
        ELSE IF cb                THEN HandleCryptoBinding(p, m)
        ELSE IF m.idt # "none"    THEN HandleIdentityType(p, m, {})
        ELSE IF m.eap # "none"    THEN HandleInnerEap(p, m, {})
        ELSE IF res               THEN HandleResultAlone(p, m)
        ELSE Answer(p, {"ack"})

-----------------------------------------------------------------------------
(* The run: the reply to the last exchange arrives and is processed *)

SendIdentity == /\ outcome = "idle"
                /\ Answer(peer, {"identity"})

(* The loop condition holds and no alert is being sent on the way out. *)
Processing == /\ outcome = "running"
              /\ peer.state \notin Terminal
              /\ peer.outer # "refused"

AcceptAnySuccess == Processing /\ Return([peer EXCEPT !.state = "DONE"])

(* Access-Accept, or an EAP-Success inside an Access-Challenge. *)
AcceptSuccess ==
    /\ Processing
    /\ Return([peer EXCEPT !.state = IF peer.resultAck THEN "DONE" ELSE "FAILED"])

(* Access-Reject, EAP-Failure, or a reply the peer has no use for. *)
RejectOrUnusable == Processing /\ Fail(peer)

IdentityRequest == Processing /\ Answer(peer, {"identity"})

(* A TEAP-Start opens a new outer tunnel; nothing else is reset. *)
TeapStart ==
    /\ Processing
    /\ peer.tunnels < MaxTunnels
    /\ Answer([peer EXCEPT !.state = "TLS_HANDSHAKE", !.outer = "handshake",
                           !.tunnels = @ + 1], {"hello"})

(* A fragment of a longer server message is acknowledged. *)
FragmentAck == Processing /\ Answer(peer, {"ack"})

HandshakeContinue ==
    /\ Processing
    /\ peer.outer = "handshake"
    /\ \E tag \in {"tls", "ack"} : Answer(peer, {tag})

(* The server's certificate is refused: an alert is sent and its reply awaited *)
(* before the error ends the run.                                              *)
HandshakeRefused ==
    /\ Processing
    /\ peer.outer = "handshake"
    /\ Answer([peer EXCEPT !.outer = "refused"], {"alert"})

Established == [peer EXCEPT !.outer = "established", !.state = "TUNNEL_UP"]

HandshakeDone ==
    /\ Processing
    /\ peer.outer = "handshake"
    /\ \E tag \in {"tls", "ack"} : Answer(Established, {tag})

(* The flight that finishes the handshake already carries TLVs. *)
EarlyData(m) ==
    /\ Processing
    /\ peer.outer = "handshake"
    /\ DispatchTlvs(Established, m)

TunnelEmpty == /\ Processing
               /\ peer.outer = "established"
               /\ Answer(peer, {"ack"})

TunnelData(m) ==
    /\ Processing
    /\ peer.outer = "established"
    /\ DispatchTlvs(peer, m)

(* The reply to the exchange that carried Result(Failure) or the alert. *)
LastReply == /\ outcome = "running"
             /\ ~Processing
             /\ Return(peer)

(* An exchange times out, or decoding, TLS or anything else raises: run() turns *)
(* it into a failure result, with the session as it was left.                   *)
RunRaises == /\ outcome = "running"
             /\ outcome' = "failure"
             /\ out' = {}
             /\ UNCHANGED <<cfg, peer>>

NoOverallTimeout == FALSE

(* run_teap_test gives the whole run a limit (wait_for), whatever it is doing. *)
OverallTimeout == /\ outcome = "running"
                  /\ outcome' = "failure"
                  /\ out' = {}
                  /\ UNCHANGED <<cfg, peer>>

Next ==
    \/ SendIdentity
    \/ AcceptSuccess
    \/ RejectOrUnusable
    \/ IdentityRequest
    \/ TeapStart
    \/ FragmentAck
    \/ HandshakeContinue
    \/ HandshakeRefused
    \/ HandshakeDone
    \/ \E m \in Messages : EarlyData(m) \/ TunnelData(m)
    \/ TunnelEmpty
    \/ LastReply
    \/ RunRaises
    \/ OverallTimeout

Spec == Init /\ [][Next]_vars

(* wait_for fires its timer whatever the server does; no reply is assumed. *)
FairSpec == Spec /\ WF_vars(OverallTimeout)

-----------------------------------------------------------------------------
(* Properties *)

TypeOK == /\ cfg \in Configs
          /\ peer \in Peer
          /\ out \subseteq Tags
          /\ outcome \in {"idle", "running", "success", "failure"}

(* A run that succeeds has verified a Crypto-Binding and acknowledged the      *)
(* protected Result (_accept_success and the Result-alone branch of dispatch): *)
(* no order of legal or illegal server messages gets an EAP-Success accepted   *)
(* before both.                                                                *)
SuccessIsProtected ==
    outcome = "success" => peer.cbDone /\ peer.resultAck /\ peer.rounds > 0

(* The S-IMCK chains advance at most once per recorded inner method, or once   *)
(* with the all-zero IMSK when there is none (_bind): a binding the server     *)
(* repeats never advances them again.                                          *)
ChainsFollowLegs(p) ==
    /\ Len(p.mskChain) = p.rounds
    /\ Len(p.emskChain) <= p.rounds
    /\ p.rounds <= (IF p.legs = <<>> THEN 1 ELSE Len(p.legs))

OneRoundPerMethod == ChainsFollowLegs(peer)

(* What every handler keeps of the peer it works on: the facts above, and      *)
(* those SuccessIsProtected rests on.                                          *)
ResultFollowsBinding(p) ==
    /\ p.cbDone => p.rounds > 0
    /\ p.resultAck => p.cbDone
    /\ p.state = "DONE" => p.resultAck

(* The passwords used are configured, the open inner tunnel belongs to the     *)
(* current identity type, and what is offered can be kept.                     *)
PasswordFits(p) == /\ p.mschap.cred = "user-pwd" => cfg.userPwd
                   /\ p.mschap.cred = "machine-pwd" => cfg.machPwd

TunnelFits(p) == p.inner.cred = "machine-cert" => p.idType = "machine"

OffersFit(tags) == /\ "idt-user" \in tags => HasCredentialFor("user")
                   /\ "idt-machine" \in tags => HasCredentialFor("machine")

(* What the invariants and the step properties below rest on. *)
InductiveInv ==
    /\ TypeOK
    /\ ChainsFollowLegs(peer)
    /\ ResultFollowsBinding(peer)
    /\ PasswordFits(peer)
    /\ outcome \in {"idle", "running"} => TunnelFits(peer)
    /\ OffersFit(out)
    /\ "res-" \in out => peer.state = "FAILED"
    /\ outcome = "idle" => peer.state = "INIT"
    /\ outcome = "success" <=> peer.state = "DONE"

(* A credential is only ever used on the leg it is configured for: no          *)
(* password answers for the other leg (_password_for_current_identity), the    *)
(* machine's certificate is not presented as the user's (the inner tunnel is   *)
(* dropped when the identity type changes), and an identity type is announced  *)
(* only if a credential of that type exists (_handle_identity_type), whatever  *)
(* the server asks for and in what order.                                      *)
NoBorrowedIdentity ==
    /\ PasswordFits(peer)
    /\ outcome = "running" => TunnelFits(peer)
    /\ OffersFit(out)

(* Once the peer has sent Result(Failure), or failed otherwise, whatever the   *)
(* server answers, the run does not succeed (_fatal and _answer_failure leave  *)
(* the state FAILED, and the run loop reads one more reply).                   *)
RefusalIsFinal ==
    [][("res-" \in out \/ peer.state = "FAILED")
          => peer'.state = "FAILED" /\ outcome' # "success"]_vars

(* Whether one of these messages reaches dispatch in this step. *)
Dispatches(messages) == \E m \in messages : EarlyData(m) \/ TunnelData(m)

BindingRequests == {m \in Messages : ~m.unsup /\ m.cb # "none" /\ ~(m.pac /\ m.res # "none")}
BadMacs         == {m \in Messages : m.cb = "request" /\ m.msk = "bad"}
ServerFailures  == {m \in Messages : m.res = "failure" /\ m.idt = "none" /\ m.eap = "none"}

(* Every Binding Request the peer takes up is answered with a Binding Response *)
(* in the very next packet or ends the run, also when the same message starts  *)
(* the next inner method (extra_response): a handler that forgot the TLVs it   *)
(* owes would leave the server waiting.                                        *)
BindingIsAnswered ==
    [][("cb" \notin out' /\ peer'.state # "FAILED") => ~Dispatches(BindingRequests)]_vars

(* A Compound MAC that does not verify under the MSK CMK is never accepted,    *)
(* whatever else the message holds: the request goes unanswered and the run    *)
(* fails, unless another rule keeps the binding from being read at all.        *)
BadMacEndsRun ==
    [][(/\ peer'.state # "FAILED"
        /\ \/ peer'.rounds # peer.rounds
           \/ peer'.legs # peer.legs
           \/ peer'.resultAck # peer.resultAck
           \/ "cb" \in out')
          => ~Dispatches(BadMacs)]_vars

(* Result(Failure) from the server always ends the run in failure, unless the  *)
(* message is taken as the start of a next method.                             *)
ServerFailureIsHeeded ==
    [][peer'.state # "FAILED" => ~Dispatches(ServerFailures)]_vars

(* To its caller the whole conversation is one run of AuthRun. *)
Run == INSTANCE AuthRun WITH
          phase   <- outcome,
          bound   <- peer.cbDone,
          acked   <- peer.resultAck,
          refused <- peer.state = "FAILED"

ImplementsRun == Run!Spec

(* wait_for ends every run, even one the server keeps busy with ACKs. *)
Termination == (outcome = "running") ~> (outcome \in {"success", "failure"})

-----------------------------------------------------------------------------
(* What the documentation and the comments say, and the code does not do *)

CertFor(t) == IF t = "machine" THEN cfg.machCert ELSE cfg.userCert

(* README: a leg with a password runs MS-CHAPv2 and any other method the       *)
(* server proposes is NAKed toward the configured one.  _handle_inner_eap      *)
(* runs EAP-TLS whenever it is proposed.                                       *)
OtherMethodsAreNaked == "eap-tls" \in out => CertFor(peer.idType)
=============================================================================
