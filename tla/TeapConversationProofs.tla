----------------------- MODULE TeapConversationProofs -----------------------
(* Proofs about the conversation of TeapPeer's client with a server that       *)
(* follows the protocol, for every policy, credential configuration and bound. *)
EXTENDS TeapConversation, SequenceTheorems, TLAPS

(* What TeapPeerProofs says of the client, whatever the server sends. *)
PP == INSTANCE TeapPeerProofs WITH Messages <- P!TlvMessage, MaxTunnels <- 1

LEMMA ClientAssumptions ==
    PP!ConfigsAssumption /\ PP!MessagesAssumption /\ PP!BoundsAssumption
<1>1. PP!TlvMessage = P!TlvMessage
  BY DEF P!TlvMessage, PP!TlvMessage, P!Verdict, PP!Verdict, P!IdTypes, PP!IdTypes,
         P!EapPackets, PP!EapPackets
<1>2. PP!Config = P!Config
  BY DEF PP!Config, P!Config
<1> QED
  BY ConfigsAssumption, BoundsAssumption, <1>1, <1>2
  DEF PP!ConfigsAssumption, PP!MessagesAssumption, PP!BoundsAssumption

-----------------------------------------------------------------------------
(* The client is the one of TeapPeerProofs *)

LEMMA SameInvariant == P!InductiveInv <=> PP!InductiveInv
  BY DEF P!InductiveInv, PP!InductiveInv, P!TypeOK, PP!TypeOK, P!Peer, PP!Peer,
         P!States, PP!States, P!Leg, PP!Leg, P!IdTypes, PP!IdTypes, P!Creds, PP!Creds,
         P!Tags, PP!Tags, P!ChainsFollowLegs, PP!ChainsFollowLegs,
         P!ResultFollowsBinding, PP!ResultFollowsBinding, P!PasswordFits, PP!PasswordFits,
         P!TunnelFits, PP!TunnelFits, P!OffersFit, PP!OffersFit,
         P!HasCredentialFor, PP!HasCredentialFor

LEMMA SameInvariantNext == P!InductiveInv' <=> PP!InductiveInv'
  BY DEF P!InductiveInv, PP!InductiveInv, P!TypeOK, PP!TypeOK, P!Peer, PP!Peer,
         P!States, PP!States, P!Leg, PP!Leg, P!IdTypes, PP!IdTypes, P!Creds, PP!Creds,
         P!Tags, PP!Tags, P!ChainsFollowLegs, PP!ChainsFollowLegs,
         P!ResultFollowsBinding, PP!ResultFollowsBinding, P!PasswordFits, PP!PasswordFits,
         P!TunnelFits, PP!TunnelFits, P!OffersFit, PP!OffersFit,
         P!HasCredentialFor, PP!HasCredentialFor

LEMMA SameDispatch ==
    ASSUME NEW p, NEW m, P!DispatchTlvs(p, m)
    PROVE  PP!DispatchTlvs(p, m)
  BY Zenon
  DEF P!DispatchTlvs, PP!DispatchTlvs, P!UnsupportedTlv, PP!UnsupportedTlv,
      P!HandleResultPac, PP!HandleResultPac,
      P!HandleLastBindingAndResult, PP!HandleLastBindingAndResult,
      P!HandleFinalResult, PP!HandleFinalResult,
      P!HandleIntermediateResultCrypto, PP!HandleIntermediateResultCrypto,
      P!HandleIntermediateFailure, PP!HandleIntermediateFailure,
      P!HandleCryptoBinding, PP!HandleCryptoBinding,
      P!HandleIdentityType, PP!HandleIdentityType, P!HandleResultAlone, PP!HandleResultAlone,
      P!RefuseBinding, PP!RefuseBinding, P!BoundPeers, PP!BoundPeers, P!Derived, PP!Derived,
      P!MacsVerify, PP!MacsVerify, P!MustDerive, PP!MustDerive,
      P!DeriveBindingKeys, PP!DeriveBindingKeys, P!Bound, PP!Bound,
      P!BindCurrentLeg, PP!BindCurrentLeg, P!ProceedAs, PP!ProceedAs, P!NoInner, PP!NoInner,
      P!IdTag, PP!IdTag, P!Other, PP!Other, P!HasCredentialFor, PP!HasCredentialFor,
      P!Fatal, PP!Fatal, P!AnswerFailure, PP!AnswerFailure,
      P!HandleInnerEap, PP!HandleInnerEap, P!InnerTls, PP!InnerTls,
      P!InnerMschapv2, PP!InnerMschapv2, P!MustNak, PP!MustNak,
      P!MschapPackets, PP!MschapPackets, P!PasswordFor, PP!PasswordFor,
      P!Answer, PP!Answer, P!Fail, PP!Fail, P!Return, PP!Return, P!TlsCred, PP!TlsCred,
      P!RecordLeg, PP!RecordLeg, P!LegType, PP!LegType, P!PasswordCred, PP!PasswordCred

(* A message of the server's is a step of the client's, and so are the others. *)
LEMMA SayIsAPeerStep ==
    ASSUME NEW m \in P!TlvMessage, NEW s, Say(m, s)
    PROVE  PP!Next
<1>1. PP!EarlyData(m) \/ PP!TunnelData(m)
  BY SameDispatch DEF Say, P!EarlyData, PP!EarlyData, P!TunnelData, PP!TunnelData,
     P!Processing, PP!Processing, P!Terminal, PP!Terminal, P!Established, PP!Established
<1> QED
  BY <1>1 DEF PP!Next

OuterStep == \/ P!SendIdentity \/ P!TeapStart \/ P!HandshakeContinue \/ P!HandshakeDone
             \/ P!AcceptSuccess \/ P!LastReply

LEMMA OuterIsAPeerStep ==
    ASSUME OuterStep
    PROVE  PP!Next
  BY DEF OuterStep, PP!Next, P!SendIdentity, PP!SendIdentity, P!TeapStart, PP!TeapStart,
         P!HandshakeContinue, PP!HandshakeContinue, P!HandshakeDone, PP!HandshakeDone,
         P!AcceptSuccess, PP!AcceptSuccess, P!LastReply, PP!LastReply,
         P!Processing, PP!Processing, P!Terminal, PP!Terminal, P!Established, PP!Established,
         P!Answer, PP!Answer, P!Return, PP!Return

LEMMA PeerStepKeeps ==
    ASSUME P!InductiveInv, PP!Next
    PROVE  P!InductiveInv'
  BY SameInvariant, SameInvariantNext, ClientAssumptions, PP!NextIsInductive

-----------------------------------------------------------------------------
(* The peer *)

LEMMA PeerFields ==
    ASSUME NEW p \in P!Peer
    PROVE  /\ p.innerMsk \in Nat /\ p.rounds \in Nat /\ Len(p.legs) \in Nat
           /\ p.mskChain \in Seq(Nat) /\ p.emskChain \in Seq(Nat)
           /\ p.inner.key \in Nat /\ p.inner.up \in BOOLEAN /\ p.mschap.key \in Nat
           /\ p.keys \in Nat /\ p.emskCmk \in BOOLEAN
<1>1. p.legs \in Seq(P!Leg)
  BY DEF P!Peer
<1> QED
  BY <1>1, LenProperties DEF P!Peer

(* What bindings depend on, and what inner methods do. *)
SameKeys(p, q) == /\ q.mskChain = p.mskChain /\ q.emskChain = p.emskChain
                  /\ q.emskCmk = p.emskCmk /\ q.rounds = p.rounds
                  /\ Len(q.legs) = Len(p.legs) /\ q.innerMsk = p.innerMsk

SameMethod(p, q) == q.inner = p.inner /\ q.mschap = p.mschap /\ q.idType = p.idType

(* The peer a message is handled by. *)
Hears(p) == /\ p \in P!Peer /\ SameKeys(peer, p) /\ SameMethod(peer, p)
            /\ p.legs = peer.legs /\ p.cbDone = peer.cbDone

LEMMA SomebodyHears ==
    ASSUME P!InductiveInv, NEW m, NEW s, Say(m, s)
    PROVE  /\ \E p : Hears(p) /\ P!DispatchTlvs(p, m)
           /\ srv' = s /\ ExportsSucceed
           /\ outcome = "running" /\ peer.state # "FAILED" /\ Going
<1>1. peer \in P!Peer
  BY DEF P!InductiveInv, P!TypeOK
<1>2. Hears(peer)
  BY <1>1 DEF Hears, SameKeys, SameMethod
<1>3. Hears(P!Established)
  BY <1>1 DEF Hears, SameKeys, SameMethod, P!Established, P!Peer, P!States
<1>4. P!Processing
  BY DEF Say, P!TunnelData, P!EarlyData
<1> QED
  BY <1>2, <1>3, <1>4 DEF Say, P!TunnelData, P!EarlyData, P!Processing, P!Terminal, Going

LEMMA DerivedFacts ==
    ASSUME NEW p \in P!Peer, NEW q \in P!Derived(p)
    PROVE  /\ q \in P!Peer /\ SameMethod(p, q) /\ q.legs = p.legs /\ q.innerMsk = p.innerMsk
           /\ P!MustDerive(p) =>
                 /\ q.mskChain = Append(p.mskChain, p.innerMsk) /\ q.rounds = p.rounds + 1
                 /\ q.emskChain = IF q.emskCmk THEN Append(p.emskChain, p.inner.key)
                                  ELSE p.emskChain
           /\ ~P!MustDerive(p) => q = p
<1>1. CASE ~P!MustDerive(p)
  BY <1>1 DEF P!Derived, SameMethod
<1>2. CASE P!MustDerive(p)
  <2>1. PICK e \in BOOLEAN : q = P!DeriveBindingKeys(p, e)
    BY <1>2 DEF P!Derived
  <2>2. /\ Append(p.mskChain, p.innerMsk) \in Seq(Nat)
        /\ Append(p.emskChain, p.inner.key) \in Seq(Nat)
        /\ p.rounds + 1 \in Nat
    BY PeerFields, AppendProperties
  <2>3. q = [p EXCEPT !.mskChain  = Append(p.mskChain, p.innerMsk),
                      !.emskChain = IF e THEN Append(p.emskChain, p.inner.key)
                                    ELSE p.emskChain,
                      !.emskCmk   = e,
                      !.rounds    = p.rounds + 1]
    BY <2>1 DEF P!DeriveBindingKeys
  <2>4. (IF e THEN Append(p.emskChain, p.inner.key) ELSE p.emskChain) \in Seq(Nat)
    BY <2>2, PeerFields
  <2> QED
    BY <1>2, <2>2, <2>3, <2>4 DEF P!Peer, SameMethod
<1> QED
  BY <1>1, <1>2

LEMMA SomethingIsDerived ==
    ASSUME NEW p \in P!Peer
    PROVE  \E q : q \in P!Derived(p)
  BY DEF P!Derived

LastBound(legs) == IF legs = <<>> THEN legs ELSE [legs EXCEPT ![Len(legs)].bound = TRUE]

LEMMA BoundFacts ==
    ASSUME NEW p \in P!Peer
    PROVE  /\ P!Bound(p).legs = LastBound(p.legs)
           /\ P!Bound(p) \in P!Peer /\ SameKeys(p, P!Bound(p)) /\ SameMethod(p, P!Bound(p))
           /\ P!Bound(p).cbDone
<1> DEFINE b == P!BindCurrentLeg(p)
<1>1. p.legs \in Seq(P!Leg) /\ Len(p.legs) \in Nat
  BY LenProperties DEF P!Peer
<1>2. b \in P!Peer /\ SameKeys(p, b) /\ SameMethod(p, b) /\ b.legs = LastBound(p.legs)
  <2>1. CASE p.legs = <<>>
    BY <2>1 DEF P!BindCurrentLeg, SameKeys, SameMethod, LastBound
  <2>2. CASE p.legs # <<>>
    <3> DEFINE n == Len(p.legs)
               leg == [p.legs[n] EXCEPT !.bound = TRUE]
               legs == [p.legs EXCEPT ![n] = leg]
    <3>1. n \in 1 .. Len(p.legs)
      BY <1>1, <2>2, EmptySeq
    <3>0. p.legs[n] \in P!Leg
      BY <1>1, <3>1, ElementOfSeq
    <3>2. leg \in P!Leg
      BY <3>0 DEF P!Leg
    <3> HIDE DEF leg, n
    <3>3. legs \in Seq(P!Leg) /\ Len(legs) = Len(p.legs)
      BY <1>1, <3>1, <3>2, ExceptSeq
    <3>4. b = [p EXCEPT !.legs = legs]
      BY <2>2 DEF P!BindCurrentLeg, leg, n
    <3>5. legs = LastBound(p.legs)
      BY <2>2 DEF LastBound, leg, n
    <3> HIDE DEF legs
    <3> QED
      BY <3>3, <3>4, <3>5 DEF P!Peer, SameKeys, SameMethod
  <2> QED
    BY <2>1, <2>2
<1>3. P!Bound(p) = [b EXCEPT !.cbDone = TRUE]
  BY DEF P!Bound
<1> HIDE DEF b
<1> QED
  BY <1>2, <1>3 DEF P!Peer, SameKeys, SameMethod

-----------------------------------------------------------------------------
(* What the client makes of the messages of this server *)

LEMMA AnswerFacts ==
    ASSUME NEW p, NEW tags, P!Answer(p, tags)
    PROVE  peer' = p /\ out' = tags /\ outcome' = "running"
  BY DEF P!Answer

LEMMA FailFacts ==
    ASSUME NEW p \in P!Peer, P!Fail(p)
    PROVE  /\ SameKeys(p, peer') /\ out' = {} /\ peer'.state = "FAILED"
           /\ outcome' = "failure" /\ peer'.legs = p.legs /\ peer'.cbDone = p.cbDone
  BY DEF P!Fail, P!Return, P!Peer, SameKeys

(* An identity request is answered for a credential the client has, the inner  *)
(* tunnel dropped, or ends the run.                                            *)
LEMMA IdentityIsAnswered ==
    ASSUME NEW p \in P!Peer, NEW m, m.eap = "identity", NEW extra,
           P!HandleIdentityType(p, m, extra)
    PROVE  /\ SameKeys(p, peer') /\ peer'.legs = p.legs
           /\ outcome' # "idle" /\ ("err" \in out' => "err" \in extra)
           /\ "cb" \in out' => "cb" \in extra
           /\ peer'.state # "FAILED" => peer'.inner = P!NoInner
<1>1. ASSUME NEW t \in {m.idt, P!Other(m.idt)}, P!ProceedAs(p, m, t, extra)
      PROVE  /\ SameKeys(p, peer') /\ peer'.legs = p.legs
             /\ peer'.inner = P!NoInner /\ outcome' = "running"
             /\ out' = extra \cup {P!IdTag(t)} \cup {"eap-identity"}
  <2> DEFINE q == [p EXCEPT !.state = "INNER_IDENTITY", !.idType = t, !.inner = P!NoInner]
  <2>1. P!HandleInnerEap(q, m, extra \cup {P!IdTag(t)})
    BY <1>1 DEF P!ProceedAs
  <2>2. P!Answer([q EXCEPT !.state = "INNER_IDENTITY"],
                 extra \cup {P!IdTag(t)} \cup {"eap-identity"})
    BY <2>1 DEF P!HandleInnerEap, P!MschapPackets, P!MustNak
  <2>3. /\ SameKeys(p, [q EXCEPT !.state = "INNER_IDENTITY"])
        /\ [q EXCEPT !.state = "INNER_IDENTITY"].inner = P!NoInner
        /\ [q EXCEPT !.state = "INNER_IDENTITY"].legs = p.legs
    BY DEF SameKeys, P!Peer
  <2> HIDE DEF q
  <2> QED
    BY <2>2, <2>3, AnswerFacts
<1>2. CASE P!Fail([p EXCEPT !.idType = m.idt])
  <2> DEFINE q == [p EXCEPT !.idType = m.idt]
  <2>1. peer' = [q EXCEPT !.state = "FAILED"] /\ out' = {} /\ outcome' = "failure"
    BY <1>2 DEF P!Fail, P!Return, P!Peer
  <2> QED
    BY <2>1 DEF SameKeys, P!Peer
<1>3. P!IdTag(m.idt) # "err" /\ P!IdTag(P!Other(m.idt)) # "err"
      /\ P!IdTag(m.idt) # "cb" /\ P!IdTag(P!Other(m.idt)) # "cb"
  BY DEF P!IdTag
<1> QED
  BY <1>1, <1>2, <1>3 DEF P!HandleIdentityType

(* A binding the server may send: none of its other TLVs is a failure, and     *)
(* behind it there is the next identity request or nothing.                    *)
IsBinding(m) == /\ ~m.unsup /\ ~m.pac /\ m.cb = "request"
                /\ m.res \in {"none", "success"} /\ m.ir \in {"none", "success"}
                /\ m.res # "none" \/ m.ir # "none"
                /\ \/ m.idt = "none" /\ m.eap = "none"
                   \/ m.idt # "none" /\ m.eap = "identity" /\ m.res = "none"

LEMMA BindingIsHandled ==
    ASSUME NEW p, NEW m, IsBinding(m), P!DispatchTlvs(p, m)
    PROVE  \/ P!RefuseBinding(p, m)
           \/ \E q \in P!BoundPeers(p, m) :
                 \/ \E tags \in {{"ir+", "cb", "res+"}, {"res+", "cb"}} :
                        /\ m.idt = "none"
                        /\ P!Answer([q EXCEPT !.resultAck = TRUE], tags)
                 \/ m.idt # "none" /\ P!HandleIdentityType(q, m, {"cb", "ir+"})
                 \/ m.idt = "none" /\ P!Answer([q EXCEPT !.state = "CRYPTO_BINDING"], {"cb", "ir+"})
<1>1. CASE m.res # "none"
  BY <1>1 DEF IsBinding, P!DispatchTlvs, P!HandleLastBindingAndResult, P!HandleFinalResult
<1>2. CASE m.res = "none"
  BY <1>2 DEF IsBinding, P!DispatchTlvs, P!HandleIntermediateResultCrypto, P!HandleCryptoBinding
<1> QED
  BY <1>1, <1>2

(* Refused, or taken into the chains and answered. *)
LEMMA BindingIsTaken ==
    ASSUME NEW p \in P!Peer, NEW m, IsBinding(m), P!DispatchTlvs(p, m)
    PROVE  \/ /\ \E q \in P!Derived(p) : ~P!MacsVerify(q, m)
              /\ "cb" \notin out' /\ outcome' # "idle"
           \/ /\ \E q \in P!Derived(p) : P!MacsVerify(q, m) /\ SameKeys(q, peer')
              /\ peer'.legs = LastBound(p.legs)
              /\ "err" \notin out' /\ outcome' # "idle"
              /\ m.idt = "none" => peer'.cbDone
              /\ m.idt # "none" /\ peer'.state # "FAILED" => peer'.inner = P!NoInner
<1>1. CASE P!RefuseBinding(p, m)
  BY <1>1 DEF P!RefuseBinding, P!Fatal, P!Answer, IsBinding
<1>2. ASSUME NEW b \in P!BoundPeers(p, m),
             \/ \E tags \in {{"ir+", "cb", "res+"}, {"res+", "cb"}} :
                    /\ m.idt = "none"
                    /\ P!Answer([b EXCEPT !.resultAck = TRUE], tags)
             \/ m.idt # "none" /\ P!HandleIdentityType(b, m, {"cb", "ir+"})
             \/ m.idt = "none" /\ P!Answer([b EXCEPT !.state = "CRYPTO_BINDING"], {"cb", "ir+"})
      PROVE  /\ \E q \in P!Derived(p) : P!MacsVerify(q, m) /\ SameKeys(q, peer')
             /\ peer'.legs = LastBound(p.legs)
             /\ "err" \notin out' /\ outcome' # "idle"
             /\ m.idt = "none" => peer'.cbDone
             /\ m.idt # "none" /\ peer'.state # "FAILED" => peer'.inner = P!NoInner
  <2>1. PICK q \in P!Derived(p) : P!MacsVerify(q, m) /\ b = P!Bound(q)
    BY DEF P!BoundPeers
  <2>2. q \in P!Peer /\ q.legs = p.legs
    BY DerivedFacts
  <2>3. b \in P!Peer /\ SameKeys(q, b) /\ b.cbDone /\ b.legs = LastBound(p.legs)
    BY <2>1, <2>2, BoundFacts
  <2>4. CASE \E tags \in {{"ir+", "cb", "res+"}, {"res+", "cb"}} :
                /\ m.idt = "none"
                /\ P!Answer([b EXCEPT !.resultAck = TRUE], tags)
    <3>1. peer' = [b EXCEPT !.resultAck = TRUE] /\ "err" \notin out' /\ outcome' = "running"
      BY <2>4 DEF P!Answer
    <3>2. SameKeys(b, peer') /\ peer'.cbDone /\ peer'.legs = b.legs
      BY <2>3, <3>1 DEF SameKeys, P!Peer
    <3> QED
      BY <2>1, <2>3, <2>4, <3>1, <3>2 DEF SameKeys
  <2>5. CASE m.idt # "none" /\ P!HandleIdentityType(b, m, {"cb", "ir+"})
    <3>1. m.eap = "identity"
      BY <2>5 DEF IsBinding
    <3>2. /\ SameKeys(b, peer') /\ peer'.legs = b.legs
          /\ outcome' # "idle" /\ "err" \notin out'
          /\ peer'.state # "FAILED" => peer'.inner = P!NoInner
      BY <2>3, <2>5, <3>1, IdentityIsAnswered
    <3> QED
      BY <2>1, <2>3, <2>5, <3>2 DEF SameKeys
  <2>6. CASE m.idt = "none" /\ P!Answer([b EXCEPT !.state = "CRYPTO_BINDING"], {"cb", "ir+"})
    <3>1. /\ peer' = [b EXCEPT !.state = "CRYPTO_BINDING"] /\ "err" \notin out'
          /\ outcome' = "running"
      BY <2>6 DEF P!Answer
    <3>2. SameKeys(b, peer') /\ peer'.cbDone /\ peer'.legs = b.legs
      BY <2>3, <3>1 DEF SameKeys, P!Peer
    <3> QED
      BY <2>1, <2>3, <2>6, <3>1, <3>2 DEF SameKeys
  <2> QED
    BY <1>2, <2>4, <2>5, <2>6
<1> QED
  BY <1>1, <1>2, BindingIsHandled

EapOnly(e) == [None EXCEPT !.eap = e]

LEMMA EapIsHandled ==
    ASSUME NEW e \in P!EapPackets \ {"none"}, NEW p, P!DispatchTlvs(p, EapOnly(e))
    PROVE  P!HandleInnerEap(p, EapOnly(e), {}) /\ EapOnly(e).eap = e
  BY DEF P!DispatchTlvs, EapOnly, None

(* A method is recorded with its key, not yet bound; msk is what its next      *)
(* binding mixes in.  Nothing of the chains changes.                           *)
NewLeg(p, method, key) == [idType |-> P!LegType(p.idType), method |-> method,
                           bound |-> FALSE, key |-> key]

Records(p, key, msk) ==
    /\ peer'.mskChain = p.mskChain /\ peer'.emskChain = p.emskChain
    /\ peer'.rounds = p.rounds /\ peer'.legs # p.legs
    /\ Len(peer'.legs) = Len(p.legs) + 1 /\ peer'.innerMsk = msk
    /\ \E method \in {"EAP-TLS", "MS-CHAPv2"} :
          peer'.legs = Append(p.legs, NewLeg(p, method, key))

LEMMA RecordFacts ==
    ASSUME NEW p \in P!Peer, NEW method, NEW key, NEW msk
    PROVE  LET r == P!RecordLeg(p, method, key, msk)
           IN  /\ r.mskChain = p.mskChain /\ r.emskChain = p.emskChain
               /\ r.rounds = p.rounds /\ r.legs # p.legs
               /\ Len(r.legs) = Len(p.legs) + 1 /\ r.innerMsk = msk
               /\ SameMethod(p, r) /\ r.inner = p.inner
               /\ r.legs = Append(p.legs, NewLeg(p, method, key))
<1> DEFINE leg == NewLeg(p, method, key)
<1>1. p.legs \in Seq(P!Leg) /\ Len(p.legs) \in Nat
  BY LenProperties DEF P!Peer
<1>2. P!RecordLeg(p, method, key, msk) = [p EXCEPT !.legs = Append(p.legs, leg), !.innerMsk = msk]
  BY DEF P!RecordLeg, NewLeg
<1> HIDE DEF leg
<1>3. Len(Append(p.legs, leg)) = Len(p.legs) + 1
  BY <1>1
<1>4. Append(p.legs, leg) # p.legs
  BY <1>1, <1>3
<1>5. Append(p.legs, leg) = Append(p.legs, NewLeg(p, method, key))
  BY DEF leg
<1> QED
  BY <1>2, <1>3, <1>4, <1>5 DEF P!Peer, SameMethod

LEMMA TlsIsStarted ==
    ASSUME NEW p \in P!Peer, p.inner = P!NoInner, NEW m, m.eap = "tls-start",
           P!HandleInnerEap(p, m, {})
    PROVE  /\ SameKeys(p, peer') /\ peer'.legs = p.legs /\ peer'.cbDone = p.cbDone
           /\ out' = {"eap-tls"} /\ outcome' = "running"
           /\ peer'.inner.key # 0 /\ ~peer'.inner.up
<1>1. p.inner.key = 0
  BY DEF P!NoInner
<1>2. P!InnerTls(p, m, {})
  BY DEF P!HandleInnerEap, P!MustNak, P!MschapPackets
<1> DEFINE q == [p EXCEPT !.state = "INNER_TLS_HANDSHAKE",
                          !.keys  = @ + 1,
                          !.inner = [key |-> p.keys + 1, up |-> FALSE, cred |-> P!TlsCred(p.idType)]]
<1>3. P!Answer(q, {} \cup {"eap-tls"})
  BY <1>1, <1>2 DEF P!InnerTls
<1>4. /\ SameKeys(p, q) /\ q.legs = p.legs /\ q.cbDone = p.cbDone
      /\ q.inner.key = p.keys + 1 /\ ~q.inner.up
  BY DEF SameKeys, P!Peer
<1> HIDE DEF q
<1>5. p.keys + 1 # 0
  BY PeerFields
<1> QED
  BY <1>3, <1>4, <1>5, AnswerFacts

LEMMA TlsGoesOn ==
    ASSUME NEW p \in P!Peer, p.inner.key # 0, NEW m, m.eap = "tls-data",
           P!HandleInnerEap(p, m, {})
    PROVE  /\ out' = {"eap-tls"} /\ outcome' = "running"
           /\ peer'.inner.key = p.inner.key
           /\ \/ peer' = p /\ ~p.inner.up
              \/ /\ peer'.inner.up /\ peer'.cbDone = p.cbDone
                 /\ \E msk \in {p.inner.key, 0} : Records(p, p.inner.key, msk)
<1>1. P!InnerTls(p, m, {})
  BY DEF P!HandleInnerEap, P!MustNak, P!MschapPackets
<1>2. \/ P!Answer(p, {} \cup {"eap-tls"}) /\ ~p.inner.up
      \/ \E msk \in {p.inner.key, 0} :
            P!Answer([P!RecordLeg(p, "EAP-TLS", p.inner.key, msk)
                        EXCEPT !.state = "INNER_TLS_DONE", !.inner.up = TRUE],
                     {} \cup {"eap-tls"})
  BY <1>1 DEF P!InnerTls
<1>3. CASE P!Answer(p, {} \cup {"eap-tls"}) /\ ~p.inner.up
  BY <1>3, AnswerFacts
<1>4. ASSUME NEW msk \in {p.inner.key, 0},
             P!Answer([P!RecordLeg(p, "EAP-TLS", p.inner.key, msk)
                         EXCEPT !.state = "INNER_TLS_DONE", !.inner.up = TRUE],
                      {} \cup {"eap-tls"})
      PROVE  /\ out' = {"eap-tls"} /\ outcome' = "running"
             /\ peer'.inner.key = p.inner.key /\ peer'.inner.up /\ peer'.cbDone = p.cbDone
             /\ Records(p, p.inner.key, msk)
  <2> DEFINE r == P!RecordLeg(p, "EAP-TLS", p.inner.key, msk)
             q == [r EXCEPT !.state = "INNER_TLS_DONE", !.inner.up = TRUE]
  <2>1. /\ r.mskChain = p.mskChain /\ r.emskChain = p.emskChain
        /\ r.rounds = p.rounds /\ r.legs # p.legs
        /\ Len(r.legs) = Len(p.legs) + 1 /\ r.innerMsk = msk /\ r.inner = p.inner
        /\ r.legs = Append(p.legs, NewLeg(p, "EAP-TLS", p.inner.key))
    BY RecordFacts
  <2>2. /\ q.mskChain = r.mskChain /\ q.emskChain = r.emskChain /\ q.rounds = r.rounds
        /\ q.legs = r.legs /\ q.innerMsk = r.innerMsk
        /\ q.inner.key = p.inner.key /\ q.inner.up /\ q.cbDone = p.cbDone
    BY DEF P!RecordLeg, P!Peer
  <2> HIDE DEF r
  <2>3. P!Answer(q, {} \cup {"eap-tls"})
    BY <1>4 DEF r
  <2> HIDE DEF q
  <2> QED
    BY <2>1, <2>2, <2>3, AnswerFacts DEF Records
<1> QED
  BY <1>2, <1>3, <1>4

LEMMA ChallengeIsAnswered ==
    ASSUME NEW p \in P!Peer, NEW m, m.eap = "mschap-challenge", P!HandleInnerEap(p, m, {})
    PROVE  /\ SameKeys(p, peer') /\ peer'.legs = p.legs /\ peer'.cbDone = p.cbDone
           /\ outcome' = "running" /\ peer'.inner = p.inner
           /\ \/ out' = {"eap-nak"}
              \/ out' = {"eap-mschap-response"} /\ peer'.mschap.key # 0
<1>1. \/ P!InnerMschapv2(p, m, {})
      \/ P!Answer(p, {} \cup {"eap-nak"})
  BY DEF P!HandleInnerEap, P!MustNak, P!MschapPackets
<1>2. CASE P!Answer(p, {} \cup {"eap-nak"})
  BY <1>2, AnswerFacts DEF SameKeys
<1>3. CASE P!InnerMschapv2(p, m, {})
  <2> DEFINE q == [p EXCEPT !.keys = @ + 1,
                            !.mschap = [key |-> p.keys + 1, cred |-> P!PasswordCred(p.idType)]]
  <2>1. P!Answer(q, {} \cup {"eap-mschap-response"})
    BY <1>3 DEF P!InnerMschapv2
  <2>2. /\ SameKeys(p, q) /\ q.legs = p.legs /\ q.cbDone = p.cbDone
        /\ q.inner = p.inner /\ q.mschap.key = p.keys + 1
    BY DEF SameKeys, P!Peer
  <2> HIDE DEF q
  <2>3. p.keys + 1 # 0
    BY PeerFields
  <2> QED
    BY <2>1, <2>2, <2>3, AnswerFacts
<1> QED
  BY <1>1, <1>2, <1>3

LEMMA SuccessIsAnswered ==
    ASSUME NEW p \in P!Peer, p.mschap.key # 0, NEW m, m.eap = "mschap-success-good",
           P!HandleInnerEap(p, m, {})
    PROVE  /\ outcome' = "running" /\ peer'.inner = p.inner /\ peer'.cbDone = p.cbDone
           /\ \/ out' = {"eap-nak"} /\ peer' = p
              \/ /\ out' = {"eap-mschap-success"} /\ peer'.mschap = p.mschap
                 /\ Records(p, p.mschap.key, p.mschap.key)
<1>1. \/ P!InnerMschapv2(p, m, {})
      \/ P!Answer(p, {} \cup {"eap-nak"})
  BY DEF P!HandleInnerEap, P!MustNak, P!MschapPackets
<1>2. CASE P!Answer(p, {} \cup {"eap-nak"})
  BY <1>2, AnswerFacts
<1>3. CASE P!InnerMschapv2(p, m, {})
  <2> DEFINE r == P!RecordLeg(p, "MS-CHAPv2", p.mschap.key, p.mschap.key)
  <2>1. P!Answer(r, {} \cup {"eap-mschap-success"})
    BY <1>3 DEF P!InnerMschapv2
  <2>2. r.cbDone = p.cbDone
    BY DEF P!RecordLeg, P!Peer
  <2>3. /\ r.mskChain = p.mskChain /\ r.emskChain = p.emskChain
        /\ r.rounds = p.rounds /\ r.legs # p.legs
        /\ Len(r.legs) = Len(p.legs) + 1 /\ r.innerMsk = p.mschap.key
        /\ r.legs = Append(p.legs, NewLeg(p, "MS-CHAPv2", p.mschap.key))
        /\ SameMethod(p, r)
    BY RecordFacts
  <2> HIDE DEF r
  <2> QED
    BY <2>1, <2>2, <2>3, AnswerFacts DEF Records, SameMethod
<1> QED
  BY <1>1, <1>2, <1>3

-----------------------------------------------------------------------------
(* Every step of the conversation is a step of the client of TeapPeer *)

LEMMA NoneIsAMessage == None \in P!TlvMessage
  BY DEF None, P!TlvMessage, P!Verdict, P!IdTypes, P!EapPackets

LEMMA PlainMessages ==
    ASSUME NEW e \in P!EapPackets
    PROVE  /\ EapOnly(e) \in P!TlvMessage
           /\ [None EXCEPT !.ir = "failure"] \in P!TlvMessage
           /\ [None EXCEPT !.res = "success"] \in P!TlvMessage
           /\ [None EXCEPT !.res = "failure"] \in P!TlvMessage
  BY DEF EapOnly, None, P!TlvMessage, P!Verdict, P!IdTypes, P!EapPackets

LEMMA BindingFields ==
    ASSUME NEW s
    PROVE  LET b == BindingOf(s)
               chainsAgree == \A q \in P!Derived(peer) : q.mskChain = s.mskChain
               emskAgree == \A q \in P!Derived(peer) : q.emskCmk => q.emskChain = s.emskChain
           IN  /\ b \in P!TlvMessage
               /\ ~b.unsup /\ ~b.pac /\ b.cb = "request" /\ b.res = "none" /\ b.ir = "none"
               /\ b.idt = "none" /\ b.eap = "none"
               /\ b.msk = IF chainsAgree THEN "good" ELSE "bad"
               /\ b.emsk = IF s.via # "tls" THEN "absent"
                           ELSE IF emskAgree THEN "good" ELSE "bad"
<1> DEFINE msk == IF \A q \in P!Derived(peer) : q.mskChain = s.mskChain
                  THEN "good" ELSE "bad"
           emsk == IF s.via # "tls" THEN "absent"
                   ELSE IF \A q \in P!Derived(peer) : q.emskCmk => q.emskChain = s.emskChain
                        THEN "good" ELSE "bad"
<1>1. BindingOf(s) = [None EXCEPT !.cb = "request", !.msk = msk, !.emsk = emsk]
  BY DEF BindingOf
<1>2. msk \in {"good", "bad"} /\ emsk \in {"absent", "good", "bad"}
  OBVIOUS
<1> HIDE DEF msk, emsk
<1>3. LET b == BindingOf(s)
      IN  /\ b.msk = msk /\ b.emsk = emsk
          /\ ~b.unsup /\ ~b.pac /\ b.cb = "request" /\ b.res = "none" /\ b.ir = "none"
          /\ b.idt = "none" /\ b.eap = "none"
  BY <1>1 DEF None
<1>4. BindingOf(s) \in P!TlvMessage
  BY <1>1, <1>2 DEF None, P!TlvMessage, P!Verdict, P!IdTypes, P!EapPackets
<1> QED
  BY <1>1, <1>3, <1>4 DEF msk, emsk

(* A binding with what may come with it is such a message too. *)
Bears(m, b) == m \in P!TlvMessage /\ IsBinding(m) /\ m.msk = b.msk /\ m.emsk = b.emsk

LEMMA BindingsAreMessages ==
    ASSUME NEW s, NEW b, b = BindingOf(s), NEW t \in {"user", "machine"}
    PROVE  /\ Bears([b EXCEPT !.ir = "success"], b)
           /\ Bears([[b EXCEPT !.ir = "success"] EXCEPT !.idt = t, !.eap = "identity"], b)
           /\ Bears([b EXCEPT !.ir = "success", !.res = "success"], b)
           /\ Bears([b EXCEPT !.res = "success"], b)
           /\ [b EXCEPT !.ir = "success"].idt = "none"
           /\ [[b EXCEPT !.ir = "success"] EXCEPT !.idt = t, !.eap = "identity"].idt # "none"
           /\ [b EXCEPT !.ir = "success", !.res = "success"].idt = "none"
           /\ [b EXCEPT !.res = "success"].idt = "none"
<1>1. b \in P!TlvMessage
  BY BindingFields
<1>2. [b EXCEPT !.ir = "success"] \in P!TlvMessage
  BY <1>1 DEF P!TlvMessage, P!Verdict
<1>3. [[b EXCEPT !.ir = "success"] EXCEPT !.idt = t, !.eap = "identity"] \in P!TlvMessage
  <2>1. t \in P!IdTypes /\ "identity" \in P!EapPackets
    BY DEF P!IdTypes, P!EapPackets
  <2> DEFINE c == [b EXCEPT !.ir = "success"]
  <2> HIDE DEF c
  <2>2. [c EXCEPT !.idt = t, !.eap = "identity"] \in P!TlvMessage
    <3>1. c \in P!TlvMessage
      BY <1>2 DEF c
    <3> QED
      BY <2>1, <3>1 DEF P!TlvMessage
  <2> QED
    BY <2>2 DEF c
<1>4. [b EXCEPT !.ir = "success", !.res = "success"] \in P!TlvMessage
  BY <1>1 DEF P!TlvMessage, P!Verdict
<1>5. [b EXCEPT !.res = "success"] \in P!TlvMessage
  BY <1>1 DEF P!TlvMessage, P!Verdict
<1>6. /\ ~b.unsup /\ ~b.pac /\ b.cb = "request" /\ b.res = "none" /\ b.ir = "none"
      /\ b.idt = "none" /\ b.eap = "none"
  BY BindingFields
<1> QED
  BY <1>1, <1>2, <1>3, <1>4, <1>5, <1>6 DEF Bears, IsBinding, P!TlvMessage

LEMMA IdentityMessage ==
    ASSUME ServerFits, srv.todo # <<>>
    PROVE  /\ Head(srv.todo) \in {"user", "machine"}
           /\ NextIdentity(None) \in P!TlvMessage
           /\ NextIdentity(None) = [None EXCEPT !.idt = Head(srv.todo), !.eap = "identity"]
<1>1. Head(srv.todo) \in {"user", "machine"}
  BY HeadTailProperties DEF ServerFits, Server
<1> QED
  BY <1>1 DEF NextIdentity, None, P!TlvMessage, P!Verdict, P!IdTypes, P!EapPackets

SameButPhase(s, r) == r \in Server /\ r.todo = s.todo /\ r.ending = s.ending
                      /\ r.mskChain = s.mskChain /\ r.emskChain = s.emskChain

LEMMA PhaseUpdate ==
    ASSUME NEW s \in Server,
           NEW phase \in {"start", "hello", "ready", "identity", "method", "failed", "bound",
                          "result", "rejected"}
    PROVE  LET r == [s EXCEPT !.phase = phase]
           IN  SameButPhase(s, r) /\ r.phase = phase /\ r.via = s.via /\ r.refusals = s.refusals
  BY DEF Server, SameButPhase

LEMMA MethodUpdate ==
    ASSUME NEW s \in Server, NEW via \in {"tls", "mschap"}
    PROVE  LET r == [s EXCEPT !.phase = "method", !.via = via]
           IN  SameButPhase(s, r) /\ r.phase = "method" /\ r.via = via /\ r.refusals = s.refusals
  BY DEF Server, SameButPhase

LEMMA NakUpdate ==
    ASSUME NEW s \in Server
    PROVE  LET r == [s EXCEPT !.via = "tls"]
           IN  SameButPhase(s, r) /\ r.phase = s.phase /\ r.via = "tls" /\ r.refusals = s.refusals
  BY DEF Server, SameButPhase

LEMMA RefusalUpdate ==
    ASSUME NEW s \in Server, s.refusals > 0
    PROVE  LET r == [s EXCEPT !.phase = "failed", !.refusals = @ - 1]
           IN  SameButPhase(s, r) /\ r.phase = "failed"
<1>1. s.refusals - 1 \in Nat
  BY DEF Server
<1> QED
  BY <1>1 DEF Server, SameButPhase

(* The server that has mixed in the keys of the method. *)
IsMixed(t) == /\ t \in Server /\ t.via = srv.via /\ t.ending = srv.ending
              /\ t.refusals = srv.refusals
              /\ t.mskChain = Append(srv.mskChain, MethodKey)
              /\ t.emskChain = IF srv.via = "tls" THEN Append(srv.emskChain, MethodKey)
                               ELSE srv.emskChain

LEMMA MixedFacts ==
    ASSUME P!InductiveInv, ServerFits, NEW todo \in Seq({"user", "machine"})
    PROVE  /\ IsMixed([Mixed EXCEPT !.todo = todo]) /\ [Mixed EXCEPT !.todo = todo].todo = todo
           /\ Mixed.todo = srv.todo
<1> DEFINE msk == Append(srv.mskChain, MethodKey)
           emsk == IF srv.via = "tls" THEN Append(srv.emskChain, MethodKey) ELSE srv.emskChain
<1>1. srv \in Server
  BY DEF ServerFits
<1>2. msk \in Seq(Nat) /\ emsk \in Seq(Nat)
  <2>1. MethodKey \in Nat
    BY PeerFields DEF P!InductiveInv, P!TypeOK, MethodKey
  <2>2. srv.mskChain \in Seq(Nat) /\ srv.emskChain \in Seq(Nat)
    BY <1>1 DEF Server
  <2> QED
    BY <2>1, <2>2, AppendProperties
<1>3. Mixed = [srv EXCEPT !.mskChain = msk, !.emskChain = emsk]
  BY DEF Mixed
<1> HIDE DEF msk, emsk
<1>4. /\ Mixed \in Server /\ Mixed.mskChain = msk /\ Mixed.emskChain = emsk
      /\ Mixed.via = srv.via /\ Mixed.ending = srv.ending /\ Mixed.refusals = srv.refusals
      /\ Mixed.todo = srv.todo
  BY <1>1, <1>2, <1>3 DEF Server
<1> DEFINE t == [Mixed EXCEPT !.todo = todo]
<1>5. /\ t \in Server /\ t.todo = todo /\ t.mskChain = Mixed.mskChain
      /\ t.emskChain = Mixed.emskChain /\ t.via = Mixed.via /\ t.ending = Mixed.ending
      /\ t.refusals = Mixed.refusals
  BY <1>4 DEF Server
<1> HIDE DEF t
<1>6. IsMixed(t) /\ t.todo = todo
  BY <1>4, <1>5 DEF IsMixed, msk, emsk
<1> QED
  BY <1>4, <1>6 DEF t

(* Without a binding in the message there is none in the reply. *)
LEMMA NoBindingNoResponse ==
    ASSUME NEW m, m.cb = "none", NEW p, P!DispatchTlvs(p, m)
    PROVE  "cb" \notin out'
<1>1. ASSUME NEW q, NEW extra, "cb" \notin extra, P!HandleInnerEap(q, m, extra)
      PROVE  "cb" \notin out'
  BY <1>1 DEF P!HandleInnerEap, P!InnerTls, P!InnerMschapv2, P!Answer, P!Fail, P!Return
<1>2. ASSUME P!HandleIdentityType(p, m, {})
      PROVE  "cb" \notin out'
  <2>1. ASSUME NEW t, P!ProceedAs(p, m, t, {})
        PROVE  "cb" \notin out'
    <3>1. P!IdTag(t) # "cb"
      BY DEF P!IdTag
    <3> QED
      BY <1>1, <2>1, <3>1 DEF P!ProceedAs, P!Answer
  <2> QED
    BY <1>2, <2>1 DEF P!HandleIdentityType, P!Fail, P!Return
<1> QED
  BY <1>1, <1>2
  DEF P!DispatchTlvs, P!UnsupportedTlv, P!HandleResultPac, P!HandleIntermediateFailure,
      P!HandleResultAlone, P!AnswerFailure, P!Fatal, P!Answer

(* A binding is only answered by a client whose chain is the server's. *)
LEMMA AnsweredBindingAgrees ==
    ASSUME P!InductiveInv, NEW t, NEW m, Bears(m, BindingOf(t)), NEW s, Say(m, s),
           s.mskChain = t.mskChain
    PROVE  ChainsAgree'
<1>1. PICK p : Hears(p) /\ P!DispatchTlvs(p, m) /\ srv' = s
  BY SomebodyHears
<1>2. p \in P!Peer /\ peer \in P!Peer
  BY <1>1 DEF Hears, P!InductiveInv, P!TypeOK
<1>3. CASE "cb" \notin out'
  BY <1>3 DEF ChainsAgree
<1>4. ASSUME NEW q \in P!Derived(p), P!MacsVerify(q, m), SameKeys(q, peer')
      PROVE  peer'.mskChain = srv'.mskChain
  <2>1. PICK r \in P!Derived(peer) : TRUE
    BY <1>2, SomethingIsDerived
  <2>2. q.mskChain = r.mskChain
    <3>1. P!MustDerive(p) <=> P!MustDerive(peer)
      BY <1>1 DEF P!MustDerive, Hears, SameKeys
    <3> QED
      BY <1>1, <1>2, <2>1, <3>1, DerivedFacts DEF Hears, SameKeys
  <2>3. BindingOf(t).msk # "bad"
    BY <1>4 DEF P!MacsVerify, Bears
  <2>4. r.mskChain = t.mskChain
    BY <2>1, <2>3, BindingFields
  <2> QED
    BY <1>1, <1>4, <2>2, <2>4 DEF SameKeys
<1> QED
  BY <1>1, <1>2, <1>3, <1>4, BindingIsTaken DEF ChainsAgree, Bears

-----------------------------------------------------------------------------
(* For every plan: the typing of both sides, and the agreement of the chains   *)

Follows == PP!Next /\ ServerFits' /\ ChainsAgree'

Authenticating == {"identity", "method", "failed"}

LEMMA OuterStepsFollow ==
    ASSUME P!InductiveInv, ServerFits, BeginRun \/ StartTunnel \/ Handshake \/ Accept \/ Reject
    PROVE  Follows
<1>1. OuterStep
  BY DEF OuterStep, BeginRun, StartTunnel, Handshake, Accept, Reject
<1>2. "cb" \notin out'
  BY <1>1 DEF OuterStep, P!SendIdentity, P!TeapStart, P!HandshakeContinue, P!HandshakeDone,
              P!AcceptSuccess, P!LastReply, P!Answer, P!Return
<1>3. ServerFits'
  <2>1. \/ srv' = srv
        \/ srv' = [srv EXCEPT !.phase = "hello"] \/ srv' = [srv EXCEPT !.phase = "ready"]
    BY DEF BeginRun, StartTunnel, Handshake, Accept, Reject
  <2> QED
    BY <2>1 DEF ServerFits, Server
<1> QED
  BY <1>1, <1>2, <1>3, OuterIsAPeerStep DEF Follows, ChainsAgree

LEMMA SayFollows ==
    ASSUME P!InductiveInv, NEW m \in P!TlvMessage, m.cb = "none", NEW s \in Server,
           s.phase \in Authenticating => s.todo # <<>>, Say(m, s)
    PROVE  Follows
<1>1. (\E p : P!DispatchTlvs(p, m)) /\ srv' = s
  BY SomebodyHears
<1>2. "cb" \notin out'
  BY <1>1, NoBindingNoResponse
<1> QED
  BY <1>1, <1>2, SayIsAPeerStep DEF Follows, ServerFits, ChainsAgree, Authenticating

LEMMA BindingFollows ==
    ASSUME P!InductiveInv, NEW t, NEW m, Bears(m, BindingOf(t)), NEW s \in Server,
           s.phase \in Authenticating => s.todo # <<>>, Say(m, s), s.mskChain = t.mskChain
    PROVE  Follows
<1>1. ChainsAgree'
  BY AnsweredBindingAgrees
<1>2. srv' = s
  BY DEF Say
<1> QED
  BY <1>1, <1>2, SayIsAPeerStep DEF Bears, Follows, ServerFits, Authenticating

LEMMA EapFollows ==
    ASSUME P!InductiveInv, NEW e \in P!EapPackets, NEW s \in Server,
           s.phase \in Authenticating => s.todo # <<>>, Say([None EXCEPT !.eap = e], s)
    PROVE  Follows
  BY PlainMessages, SayFollows DEF EapOnly, None

LEMMA IdentityFollows ==
    ASSUME P!InductiveInv, ServerFits, srv.todo # <<>>,
           Say(NextIdentity(None), [srv EXCEPT !.phase = "identity"])
    PROVE  Follows
<1> DEFINE s == [srv EXCEPT !.phase = "identity"]
<1>1. s \in Server /\ s.todo # <<>>
  BY DEF ServerFits, Server
<1>2. NextIdentity(None).cb = "none" /\ NextIdentity(None) \in P!TlvMessage
  BY IdentityMessage DEF None
<1> HIDE DEF s
<1>3. Say(NextIdentity(None), s)
  BY DEF s
<1> QED
  BY <1>1, <1>2, <1>3, SayFollows

LEMMA PlainStepsFollow ==
    ASSUME P!InductiveInv, ServerFits,
           AskIdentity \/ Propose \/ RunMethod \/ RefuseMethod \/ RetryMethod \/ GiveUp
    PROVE  Follows
<1> USE DEF MethodComplete
<1>1. CASE AskIdentity
  BY <1>1, IdentityFollows DEF AskIdentity
<1>2. CASE Propose
  <2>1. srv \in Server /\ srv.todo # <<>>
    BY <1>2 DEF Propose, ServerFits
  <2>2. \E via \in {"tls", "mschap"}, e \in {"tls-start", "mschap-challenge"} :
           Say([None EXCEPT !.eap = e], [srv EXCEPT !.phase = "method", !.via = via])
    BY <1>2 DEF Propose
  <2>3. \A via \in {"tls", "mschap"} :
           /\ [srv EXCEPT !.phase = "method", !.via = via] \in Server
           /\ [srv EXCEPT !.phase = "method", !.via = via].todo # <<>>
    BY <2>1, MethodUpdate DEF SameButPhase
  <2> QED
    BY <2>2, <2>3, EapFollows DEF P!EapPackets
<1>3. CASE RunMethod
  <2>1. srv \in Server /\ srv.todo # <<>>
    BY <1>3 DEF RunMethod, ServerFits
  <2>2. \E s \in {srv, [srv EXCEPT !.via = "tls"]},
           e \in {"tls-start", "tls-data", "mschap-success-good"} :
           Say([None EXCEPT !.eap = e], s)
    BY <1>3 DEF RunMethod
  <2>3. [srv EXCEPT !.via = "tls"] \in Server /\ [srv EXCEPT !.via = "tls"].todo # <<>>
    BY <2>1, NakUpdate DEF SameButPhase
  <2> QED
    BY <2>1, <2>2, <2>3, EapFollows DEF P!EapPackets
<1>4. CASE RefuseMethod
  <2> DEFINE s == [srv EXCEPT !.phase = "failed", !.refusals = @ - 1]
             m == [None EXCEPT !.ir = "failure"]
  <2>1. srv \in Server /\ srv.todo # <<>> /\ srv.refusals > 0 /\ Say(m, s)
    BY <1>4 DEF RefuseMethod, ServerFits
  <2>2. s \in Server /\ s.todo # <<>>
    BY <2>1, RefusalUpdate DEF SameButPhase
  <2>3. m \in P!TlvMessage /\ m.cb = "none"
    BY PlainMessages DEF None, P!EapPackets
  <2> HIDE DEF s, m
  <2> QED
    BY <2>1, <2>2, <2>3, SayFollows
<1>5. CASE RetryMethod
  <2>1. srv \in Server /\ srv.todo # <<>>
    BY <1>5 DEF RetryMethod, ServerFits
  <2>2. CASE Say(NextIdentity(None), [srv EXCEPT !.phase = "identity"])
    BY <2>1, <2>2, IdentityFollows
  <2>3. CASE Say([None EXCEPT !.eap = "identity"], [srv EXCEPT !.phase = "identity"])
    <3>1. /\ [srv EXCEPT !.phase = "identity"] \in Server
          /\ [srv EXCEPT !.phase = "identity"].todo # <<>>
      BY <2>1 DEF Server
    <3> QED
      BY <2>3, <3>1, EapFollows DEF P!EapPackets
  <2> QED
    BY <1>5, <2>2, <2>3 DEF RetryMethod
<1>6. CASE GiveUp
  <2> DEFINE s == [srv EXCEPT !.phase = "rejected"]
             m == [None EXCEPT !.res = "failure"]
  <2>1. srv \in Server /\ Say(m, s)
    BY <1>6 DEF GiveUp, ServerFits
  <2>2. s \in Server /\ s.phase \notin Authenticating
    BY <2>1 DEF Server, Authenticating
  <2>3. m \in P!TlvMessage /\ m.cb = "none"
    BY PlainMessages DEF None, P!EapPackets
  <2> HIDE DEF s, m
  <2> QED
    BY <2>1, <2>2, <2>3, SayFollows
<1> QED
  BY <1>1, <1>2, <1>3, <1>4, <1>5, <1>6

(* What the server says when it binds, and what it has then become. *)
OnlyPhase(t, s) == SameButPhase(t, s) /\ s.via = t.via /\ s.refusals = t.refusals

LEMMA ChainedBinding ==
    ASSUME P!InductiveInv, ServerFits, BindAndContinue
    PROVE  \E t, m, s :
              /\ IsMixed(t) /\ OnlyPhase(t, s) /\ Bears(m, BindingOf(t)) /\ Say(m, s)
              /\ \/ m.idt = "none" /\ s.phase = "ready"
                 \/ m.idt # "none" /\ s.phase = "identity" /\ s.todo # <<>>
<1> DEFINE t == [Mixed EXCEPT !.todo = Tail(srv.todo)]
           b == BindingOf(t)
           c == [b EXCEPT !.ir = "success"]
<1>1. srv.todo \in Seq({"user", "machine"}) /\ Len(srv.todo) > 1
  BY DEF BindAndContinue, ServerFits, Server
<1>2. Tail(srv.todo) \in Seq({"user", "machine"}) /\ Tail(srv.todo) # <<>>
  <2>1. srv.todo # <<>>
    BY <1>1
  <2>2. Tail(srv.todo) \in Seq({"user", "machine"}) /\ Len(Tail(srv.todo)) = Len(srv.todo) - 1
    BY <1>1, <2>1, HeadTailProperties
  <2>3. Len(srv.todo) \in Nat
    BY <1>1, LenProperties
  <2>4. Len(Tail(srv.todo)) # 0
    <3>1. \A n \in Nat : n > 1 => n - 1 # 0
      OBVIOUS
    <3> QED
      BY <1>1, <2>2, <2>3, <3>1, Zenon
  <2>5. Len(<<>>) = 0
    OBVIOUS
  <2> QED
    BY <2>2, <2>4, <2>5, Zenon
<1>3. IsMixed(t) /\ t.todo = Tail(srv.todo) /\ t = [Mixed EXCEPT !.todo = Tail(Mixed.todo)]
  BY <1>2, MixedFacts
<1>4. Head(t.todo) \in {"user", "machine"}
  BY <1>2, <1>3, HeadTailProperties
<1>5. \/ Say(c, [t EXCEPT !.phase = "ready"])
      \/ Say([c EXCEPT !.idt = Head(t.todo), !.eap = "identity"], [t EXCEPT !.phase = "identity"])
  BY <1>3, Zenon DEF BindAndContinue
<1> HIDE DEF t
<1>6. t \in Server
  BY <1>3 DEF IsMixed
<1>7. CASE Say(c, [t EXCEPT !.phase = "ready"])
  <2>1. Bears(c, b) /\ c.idt = "none"
    BY BindingsAreMessages
  <2>2. OnlyPhase(t, [t EXCEPT !.phase = "ready"]) /\ [t EXCEPT !.phase = "ready"].phase = "ready"
    BY <1>6, PhaseUpdate DEF OnlyPhase
  <2> HIDE DEF b
  <2> QED
    BY <1>3, <1>7, <2>1, <2>2 DEF b
<1>8. CASE Say([c EXCEPT !.idt = Head(t.todo), !.eap = "identity"], [t EXCEPT !.phase = "identity"])
  <2>1. /\ Bears([c EXCEPT !.idt = Head(t.todo), !.eap = "identity"], b)
        /\ [c EXCEPT !.idt = Head(t.todo), !.eap = "identity"].idt # "none"
    BY <1>4, BindingsAreMessages
  <2> DEFINE s == [t EXCEPT !.phase = "identity"]
  <2>2. OnlyPhase(t, s) /\ s.phase = "identity"
    BY <1>6, PhaseUpdate DEF OnlyPhase
  <2>3. s.todo # <<>>
    BY <1>2, <1>3, <2>2 DEF OnlyPhase, SameButPhase
  <2> QED
    BY <1>3, <1>8, <2>1, <2>2, <2>3, Zenon
<1> QED
  BY <1>5, <1>7, <1>8

LEMMA LastBinding ==
    ASSUME P!InductiveInv, ServerFits, BindLast
    PROVE  \E t, m, s :
              /\ IsMixed(t) /\ OnlyPhase(t, s) /\ Bears(m, BindingOf(t)) /\ Say(m, s)
              /\ m.idt = "none" /\ s.phase \in {"result", "bound"}
<1> DEFINE t == [Mixed EXCEPT !.todo = <<>>]
           b == BindingOf(t)
<1>1. IsMixed(t)
  BY MixedFacts, EmptySeq
<1>2. \E phase \in {"result", "bound"},
         m \in {[b EXCEPT !.ir = "success", !.res = "success"], [b EXCEPT !.res = "success"],
                [b EXCEPT !.ir = "success"]} :
         Say(m, [t EXCEPT !.phase = phase])
  <2> HIDE DEF t, b
  <2> QED
    BY DEF BindLast, t, b
<1> HIDE DEF t
<1>3. \A m \in {[b EXCEPT !.ir = "success", !.res = "success"], [b EXCEPT !.res = "success"],
                [b EXCEPT !.ir = "success"]} : Bears(m, b) /\ m.idt = "none"
  BY BindingsAreMessages
<1> HIDE DEF b
<1>4. /\ OnlyPhase(t, [t EXCEPT !.phase = "result"])
      /\ [t EXCEPT !.phase = "result"].phase = "result"
  BY <1>1, PhaseUpdate DEF OnlyPhase, IsMixed
<1>5. /\ OnlyPhase(t, [t EXCEPT !.phase = "bound"])
      /\ [t EXCEPT !.phase = "bound"].phase = "bound"
  BY <1>1, PhaseUpdate DEF OnlyPhase, IsMixed
<1>6. ASSUME NEW m, NEW s, Say(m, s), Bears(m, b), m.idt = "none", OnlyPhase(t, s),
             s.phase \in {"result", "bound"}
      PROVE  \E u, n, r :
                /\ IsMixed(u) /\ OnlyPhase(u, r) /\ Bears(n, BindingOf(u)) /\ Say(n, r)
                /\ n.idt = "none" /\ r.phase \in {"result", "bound"}
  BY <1>1, <1>6, Zenon DEF b
<1> QED
  BY <1>2, <1>3, <1>4, <1>5, <1>6

(* An empty policy is bound over the all-zero key. *)
IsUnmixed(t) == /\ t \in Server /\ t.via = srv.via /\ t.ending = srv.ending
                /\ t.refusals = srv.refusals /\ t.mskChain = <<0>>
                /\ t.emskChain = srv.emskChain

LEMMA EmptyBinding ==
    ASSUME P!InductiveInv, ServerFits, NoInnerMethod
    PROVE  \E t, m, s :
              /\ IsUnmixed(t) /\ OnlyPhase(t, s) /\ Bears(m, BindingOf(t)) /\ Say(m, s)
              /\ m.idt = "none" /\ s.phase = "result"
<1> DEFINE t == [srv EXCEPT !.mskChain = <<0>>]
           s == [t EXCEPT !.phase = "result"]
           m == [BindingOf(t) EXCEPT !.res = "success"]
<1>1. Say(m, s)
  BY DEF NoInnerMethod
<1>2. IsUnmixed(t)
  <2> DEFINE zero == <<0>>
  <2>1. zero \in Seq(Nat)
    OBVIOUS
  <2> HIDE DEF zero
  <2>2. t = [srv EXCEPT !.mskChain = zero]
    BY DEF zero
  <2> HIDE DEF t
  <2>3. t \in Server /\ t.mskChain = zero
        /\ t.via = srv.via /\ t.ending = srv.ending /\ t.refusals = srv.refusals
        /\ t.emskChain = srv.emskChain
    BY <2>1, <2>2 DEF ServerFits, Server
  <2> QED
    BY <2>3 DEF IsUnmixed, zero
<1> HIDE DEF t
<1>3. OnlyPhase(t, s) /\ s.phase = "result"
  BY <1>2, PhaseUpdate DEF OnlyPhase, IsUnmixed
<1>4. Bears(m, BindingOf(t)) /\ m.idt = "none"
  BY BindingsAreMessages
<1> QED
  BY <1>1, <1>2, <1>3, <1>4, Zenon

LEMMA FinalMessage ==
    ASSUME P!InductiveInv, ServerFits, FinalResult
    PROVE  \E s : /\ OnlyPhase(srv, s) /\ s.phase = "result"
                  /\ \/ /\ srv.ending = "repeated"
                        /\ \E m : Bears(m, BindingOf(srv)) /\ m.idt = "none" /\ Say(m, s)
                     \/ /\ srv.ending # "repeated"
                        /\ Say([None EXCEPT !.res = "success"], s)
<1> DEFINE s == [srv EXCEPT !.phase = "result"]
           m == [BindingOf(srv) EXCEPT !.res = "success"]
<1>1. OnlyPhase(srv, s) /\ s.phase = "result"
  BY PhaseUpdate DEF OnlyPhase, ServerFits
<1>2. CASE srv.ending = "repeated"
  <2>1. Say(m, s)
    BY <1>2 DEF FinalResult
  <2>2. Bears(m, BindingOf(srv)) /\ m.idt = "none"
    BY BindingsAreMessages
  <2> QED
    BY <1>1, <1>2, <2>1, <2>2, Zenon
<1>3. CASE srv.ending # "repeated"
  <2>1. Say([None EXCEPT !.res = "success"], s)
    BY <1>3 DEF FinalResult
  <2> QED
    BY <1>1, <1>3, <2>1, Zenon
<1> QED
  BY <1>2, <1>3

LEMMA BindingStepsFollow ==
    ASSUME P!InductiveInv, ServerFits, BindAndContinue \/ BindLast \/ FinalResult \/ NoInnerMethod
    PROVE  Follows
<1> USE DEF OnlyPhase, SameButPhase
<1>1. CASE BindAndContinue
  <2>1. PICK t, m, s : /\ OnlyPhase(t, s) /\ Bears(m, BindingOf(t)) /\ Say(m, s)
                       /\ s.phase \in Authenticating => s.todo # <<>>
    BY <1>1, ChainedBinding DEF Authenticating
  <2> QED
    BY <2>1, BindingFollows
<1>2. CASE BindLast
  <2>1. PICK t, m, s : /\ OnlyPhase(t, s) /\ Bears(m, BindingOf(t)) /\ Say(m, s)
                       /\ s.phase \notin Authenticating
    BY <1>2, LastBinding DEF Authenticating
  <2> QED
    BY <2>1, BindingFollows
<1>3. CASE FinalResult
  <2>1. PICK s : /\ OnlyPhase(srv, s) /\ s.phase \notin Authenticating
                 /\ \/ \E m : Bears(m, BindingOf(srv)) /\ Say(m, s)
                    \/ Say([None EXCEPT !.res = "success"], s)
    BY <1>3, FinalMessage DEF Authenticating
  <2>2. CASE \E m : Bears(m, BindingOf(srv)) /\ Say(m, s)
    BY <2>1, <2>2, BindingFollows
  <2>3. CASE Say([None EXCEPT !.res = "success"], s)
    <3> DEFINE m == [None EXCEPT !.res = "success"]
    <3>1. m \in P!TlvMessage /\ m.cb = "none"
      BY PlainMessages DEF None, P!EapPackets
    <3> HIDE DEF m
    <3>2. Say(m, s)
      BY <2>3 DEF m
    <3> QED
      BY <2>1, <3>1, <3>2, SayFollows
  <2> QED
    BY <2>1, <2>2, <2>3
<1>4. CASE NoInnerMethod
  <2>1. PICK t, m, s : /\ OnlyPhase(t, s) /\ Bears(m, BindingOf(t)) /\ Say(m, s)
                       /\ s.phase \notin Authenticating
    BY <1>4, EmptyBinding DEF Authenticating
  <2> QED
    BY <2>1, BindingFollows
<1> QED
  BY <1>1, <1>2, <1>3, <1>4

LEMMA NextFollows ==
    ASSUME P!InductiveInv, ServerFits, Next
    PROVE  Follows
  BY OuterStepsFollow, PlainStepsFollow, BindingStepsFollow DEF Next

ClientInv == P!InductiveInv /\ ServerFits /\ ChainsAgree

LEMMA ClientInvHolds == Spec => []ClientInv
<1>1. Init => ClientInv
  <2> SUFFICES ASSUME Init
               PROVE  ClientInv
    OBVIOUS
  <2>1. P!InductiveInv
    <3>1. PP!Init
      BY DEF Init, P!Init, PP!Init, P!InitPeer, PP!InitPeer, P!NoInner, PP!NoInner,
             P!NoMschap, PP!NoMschap
    <3> QED
      BY <3>1, PP!InitIsInductive, ClientAssumptions, SameInvariant
  <2>2. PICK policy \in Policies, plan \in Plans :
           srv = [phase |-> "start", todo |-> policy, ending |-> plan.ending,
                  refusals |-> plan.refusals, via |-> "none",
                  mskChain |-> <<>>, emskChain |-> <<>>]
    BY DEF Init
  <2>3. policy \in Seq({"user", "machine"}) /\ plan.ending \in EndingForms /\ plan.refusals \in Nat
        /\ <<>> \in Seq(Nat)
    BY PoliciesAssumption, PlansAssumption
  <2>4. ServerFits
    BY <2>2, <2>3 DEF ServerFits, Server
  <2>5. ChainsAgree
    BY DEF Init, P!Init, ChainsAgree
  <2> QED
    BY <2>1, <2>4, <2>5 DEF ClientInv
<1>2. ClientInv /\ [Next]_vars => ClientInv'
  <2> SUFFICES ASSUME ClientInv, [Next]_vars
               PROVE  ClientInv'
    OBVIOUS
  <2>1. CASE Next
    BY <2>1, NextFollows, PeerStepKeeps DEF ClientInv, Follows
  <2>2. CASE UNCHANGED vars
    <3>1. P!InductiveInv'
      BY <2>2 DEF vars, ClientInv, P!InductiveInv, P!TypeOK, P!PasswordFits, P!OffersFit,
                  P!HasCredentialFor, P!TunnelFits, P!ChainsFollowLegs, P!ResultFollowsBinding
    <3> QED
      BY <2>2, <3>1 DEF vars, ClientInv, ServerFits, ChainsAgree
  <2> QED
    BY <2>1, <2>2
<1> QED
  BY <1>1, <1>2, PTL DEF Spec

(* With every credential configuration, policy and plan, whatever it refuses   *)
(* and however it closes, the server's S-IMCK chain and the client's hold the  *)
(* same keys in the same order whenever the client answers a binding (_bind,   *)
(* _derive_binding_keys).                                                      *)
THEOREM ChainsAlwaysAgree == Spec => []ChainsAgree
<1>1. ClientInv => ChainsAgree
  BY DEF ClientInv
<1> QED
  BY <1>1, ClientInvHolds, PTL

(* What the client does in a conversation is a run of TeapPeer: what           *)
(* TeapPeerProofs shows against any server holds against this one.             *)
THEOREM ConversationRunsThePeer == Spec => PP!Spec
<1>1. Init => PP!Init
  BY DEF Init, P!Init, PP!Init, P!InitPeer, PP!InitPeer, P!NoInner, PP!NoInner,
         P!NoMschap, PP!NoMschap
<1>2. ClientInv /\ [Next]_vars => [PP!Next]_PP!vars
  BY NextFollows DEF ClientInv, Follows, vars, PP!vars
<1> QED
  BY <1>1, <1>2, ClientInvHolds, PTL DEF Spec, PP!Spec

-----------------------------------------------------------------------------
(* For an untroubled server: the two sides stay in step                        *)

Keeps == InStep' /\ NeverRefused'

LEMMA ReportsRecord ==
    ASSUME NEW legs \in Seq(P!Leg), NEW chain \in Seq(Nat), Reports(legs, chain),
           NEW leg \in P!Leg, ~leg.bound
    PROVE  Reports(Append(legs, leg), chain)
<1> DEFINE l == Append(legs, leg)
<1>1. PICK f \in [DOMAIN chain -> DOMAIN legs] :
          /\ \A i, j \in DOMAIN chain : i < j => f[i] < f[j]
          /\ \A i \in DOMAIN chain : legs[f[i]].key = chain[i]
          /\ \A n \in DOMAIN legs : legs[n].bound <=> \E i \in DOMAIN chain : f[i] = n
  BY DEF Reports
<1>2. /\ Len(legs) \in Nat /\ DOMAIN legs = 1 .. Len(legs)
      /\ l \in Seq(P!Leg) /\ DOMAIN l = 1 .. Len(legs) + 1
      /\ l[Len(legs) + 1] = leg /\ \A n \in 1 .. Len(legs) : l[n] = legs[n]
  BY LenProperties, AppendProperties
<1> HIDE DEF l
<1>3. f \in [DOMAIN chain -> DOMAIN l]
  BY <1>1, <1>2
<1>4. \A i \in DOMAIN chain : l[f[i]].key = chain[i]
  BY <1>1, <1>2
<1>5. ASSUME NEW n \in DOMAIN l
      PROVE  l[n].bound <=> \E i \in DOMAIN chain : f[i] = n
  <2>1. CASE n = Len(legs) + 1
    BY <1>1, <1>2, <2>1
  <2>2. CASE n # Len(legs) + 1
    <3>1. n \in DOMAIN legs /\ l[n] = legs[n]
      BY <1>2, <1>5, <2>2
    <3> QED
      BY <1>1, <3>1
  <2> QED
    BY <2>1, <2>2
<1>6. Reports(l, chain)
  BY <1>1, <1>3, <1>4, <1>5, Zenon DEF Reports
<1> QED
  BY <1>6 DEF l

LEMMA LastBoundFacts ==
    ASSUME NEW legs \in Seq(P!Leg), legs # <<>>
    PROVE  /\ LastBound(legs) \in Seq(P!Leg) /\ LastBound(legs) # <<>>
           /\ Len(legs) \in Nat /\ Len(legs) > 0 /\ DOMAIN legs = 1 .. Len(legs)
           /\ Len(LastBound(legs)) = Len(legs) /\ DOMAIN LastBound(legs) = DOMAIN legs
           /\ \A n \in DOMAIN legs : /\ LastBound(legs)[n].key = legs[n].key
                                     /\ n # Len(legs) => LastBound(legs)[n] = legs[n]
           /\ LastBound(legs)[Len(legs)].bound
           /\ legs[Len(legs)].bound => LastBound(legs) = legs
<1> DEFINE n == Len(legs)
           leg == [legs[n] EXCEPT !.bound = TRUE]
           l == [legs EXCEPT ![n] = leg]
<1>1. Len(legs) \in Nat /\ Len(legs) > 0 /\ DOMAIN legs = 1 .. Len(legs)
  BY EmptySeq, LenProperties
<1>2. legs[n] \in P!Leg
  BY <1>1, ElementOfSeq
<1>3. leg \in P!Leg /\ leg.bound /\ leg.key = legs[n].key
  BY <1>2 DEF P!Leg
<1>4. legs[n].bound => leg = legs[n]
  BY <1>2 DEF P!Leg
<1>5. LastBound(legs) = l
  BY DEF LastBound
<1> HIDE DEF n, leg
<1>6. l \in Seq(P!Leg) /\ Len(l) = Len(legs)
  BY <1>1, <1>3, ExceptSeq DEF n
<1>7. DOMAIN l = DOMAIN legs /\ l[n] = leg /\ \A i \in DOMAIN legs : i # n => l[i] = legs[i]
  BY <1>1 DEF n
<1>8. legs[n].bound => l = legs
  BY <1>1, <1>4 DEF n
<1> HIDE DEF l
<1>9. l # <<>>
  BY <1>1, <1>6
<1> QED
  BY <1>1, <1>3, <1>5, <1>6, <1>7, <1>8, <1>9 DEF n

LEMMA ReportsBind ==
    ASSUME NEW legs \in Seq(P!Leg), legs # <<>>, NEW chain \in Seq(Nat), Reports(legs, chain),
           ~legs[Len(legs)].bound, NEW key \in Nat, legs[Len(legs)].key = key
    PROVE  Reports(LastBound(legs), Append(chain, key))
<1> DEFINE l == LastBound(legs)
           c == Append(chain, key)
           last == Len(legs)
           rounds == Len(chain)
<1>1. PICK f \in [DOMAIN chain -> DOMAIN legs] :
          /\ \A i, j \in DOMAIN chain : i < j => f[i] < f[j]
          /\ \A i \in DOMAIN chain : legs[f[i]].key = chain[i]
          /\ \A n \in DOMAIN legs : legs[n].bound <=> \E i \in DOMAIN chain : f[i] = n
  BY DEF Reports
<1>2. /\ last \in Nat /\ last > 0 /\ DOMAIN legs = 1 .. last /\ DOMAIN l = 1 .. last
      /\ \A n \in 1 .. last : l[n].key = legs[n].key /\ (n # last => l[n] = legs[n])
      /\ l[last].bound
  BY LastBoundFacts
<1>3. /\ rounds \in Nat /\ DOMAIN chain = 1 .. rounds /\ DOMAIN c = 1 .. rounds + 1
      /\ c[rounds + 1] = key /\ \A i \in 1 .. rounds : c[i] = chain[i]
  BY LenProperties, AppendProperties
<1>4. ~legs[last].bound /\ legs[last].key = key
  OBVIOUS
<1> HIDE DEF l, c, last, rounds
<1>5. ASSUME NEW i \in 1 .. rounds
      PROVE  f[i] \in 1 .. last /\ f[i] < last
  <2>1. f[i] \in 1 .. last /\ i \in DOMAIN chain
    BY <1>1, <1>2, <1>3
  <2>2. legs[f[i]].bound
    BY <1>1, <1>2, <2>1, Zenon
  <2>3. f[i] # last
    BY <1>4, <2>2
  <2> QED
    BY <1>2, <2>1, <2>3
<1> DEFINE g == [i \in 1 .. rounds + 1 |-> IF i = rounds + 1 THEN last ELSE f[i]]
<1>6. /\ g \in [DOMAIN c -> DOMAIN l]
      /\ g[rounds + 1] = last /\ \A i \in 1 .. rounds : g[i] = f[i]
  BY <1>2, <1>3, <1>5
<1> HIDE DEF g
<1>7. ASSUME NEW i \in DOMAIN c, NEW j \in DOMAIN c, i < j
      PROVE  g[i] < g[j]
  <2>1. i \in 1 .. rounds /\ g[i] = f[i]
    BY <1>3, <1>6, <1>7
  <2>2. CASE j = rounds + 1
    BY <1>5, <1>6, <2>1, <2>2
  <2>3. CASE j # rounds + 1
    <3>1. j \in 1 .. rounds /\ g[j] = f[j]
      BY <1>3, <1>6, <2>3
    <3> QED
      BY <1>1, <1>3, <1>7, <2>1, <3>1
  <2> QED
    BY <2>2, <2>3
<1>8. ASSUME NEW i \in DOMAIN c
      PROVE  l[g[i]].key = c[i]
  <2>1. CASE i = rounds + 1
    BY <1>2, <1>3, <1>4, <1>6, <2>1
  <2>2. CASE i \in 1 .. rounds
    BY <1>1, <1>2, <1>3, <1>5, <1>6, <2>2
  <2> QED
    BY <1>3, <1>8, <2>1, <2>2
<1>9. ASSUME NEW n \in DOMAIN l
      PROVE  l[n].bound <=> \E i \in DOMAIN c : g[i] = n
  <2>1. CASE n = last
    <3>1. rounds + 1 \in DOMAIN c
      BY <1>3
    <3> QED
      BY <1>2, <1>6, <2>1, <3>1
  <2>2. CASE n # last
    <3>1. l[n] = legs[n] /\ n \in DOMAIN legs
      BY <1>2, <1>9, <2>2
    <3>2. (\E i \in DOMAIN chain : f[i] = n) <=> (\E i \in DOMAIN c : g[i] = n)
      <4>1. ASSUME NEW i \in DOMAIN chain, f[i] = n
            PROVE  \E j \in DOMAIN c : g[j] = n
        <5>1. i \in DOMAIN c /\ g[i] = n
          BY <1>3, <1>6, <4>1
        <5> QED
          BY <5>1
      <4>2. ASSUME NEW i \in DOMAIN c, g[i] = n
            PROVE  \E j \in DOMAIN chain : f[j] = n
        <5>1. i # rounds + 1
          BY <1>6, <2>2, <4>2
        <5>2. i \in DOMAIN chain /\ f[i] = n
          BY <1>3, <1>6, <4>2, <5>1
        <5> QED
          BY <5>2
      <4> QED
        BY <4>1, <4>2
    <3> QED
      BY <1>1, <3>1, <3>2
  <2> QED
    BY <2>1, <2>2
<1>10. Reports(l, c)
  BY <1>6, <1>7, <1>8, <1>9, Zenon DEF Reports
<1> QED
  BY <1>10 DEF l, c

(* No leg is recorded or bound, and no key mixed in. *)
LEMMA LegsStay ==
    ASSUME LegsMatch, peer'.legs = peer.legs, srv'.mskChain = srv.mskChain,
           srv'.phase = srv.phase \/ srv.phase # "result"
    PROVE  LegsMatch'
  BY DEF LegsMatch

(* The chains stay equal when neither side mixes anything in. *)
LEMMA KeysStay ==
    ASSUME KeysAgree, NEW p, SameKeys(peer, p), SameKeys(p, peer'),
           srv'.mskChain = srv.mskChain, srv'.emskChain = srv.emskChain
    PROVE  KeysAgree'
  BY DEF KeysAgree, SameKeys

LEMMA OverIsInStep ==
    ASSUME KeysAgree', LegsMatch', outcome' # "idle", ~(Going'), "err" \notin out'
    PROVE  Keeps
  BY DEF Keeps, InStep, NeverRefused

LEMMA InStepFacts ==
    ASSUME InductiveInv
    PROVE  /\ P!InductiveInv /\ ServerFits /\ KeysAgree /\ srv \in Server /\ peer \in P!Peer
           /\ LegsMatch /\ peer.legs \in Seq(P!Leg) /\ srv.mskChain \in Seq(Nat)
           /\ peer.rounds \in Nat /\ Len(peer.legs) \in Nat /\ Len(peer.mskChain) = peer.rounds
           /\ peer.cbDone => peer.rounds > 0
           /\ Going => /\ StartsClean /\ MethodIsShared /\ RepeatsAreBound
                       /\ srv.phase # "result" => peer.rounds <= Len(peer.legs)
                       /\ srv.phase = "bound" =>
                             peer.cbDone /\ peer.legs # <<>> /\ LastLeg.bound
<1>1. P!InductiveInv /\ ServerFits /\ InStep
  BY DEF InductiveInv
<1>2. peer \in P!Peer
  BY <1>1 DEF P!InductiveInv, P!TypeOK
<1>3. peer.legs \in Seq(P!Leg) /\ srv.mskChain \in Seq(Nat)
  BY <1>1, <1>2 DEF P!Peer, ServerFits, Server
<1> QED
  BY <1>1, <1>2, <1>3, PeerFields
  DEF InStep, ServerFits, P!InductiveInv, P!ChainsFollowLegs, P!ResultFollowsBinding

LEMMA OuterStepsKeep ==
    ASSUME InductiveInv, BeginRun \/ StartTunnel \/ Handshake \/ Accept \/ Reject
    PROVE  Keeps
<1>1. /\ P!InductiveInv /\ KeysAgree /\ LegsMatch /\ srv \in Server /\ peer \in P!Peer
  BY InStepFacts
<1>2. CASE Accept \/ Reject
  <2>1. /\ srv' = srv /\ out' = {} /\ outcome' \in {"success", "failure"}
        /\ \/ peer' = peer
           \/ \E state \in P!States : peer' = [peer EXCEPT !.state = state]
    BY <1>2 DEF Accept, Reject, P!AcceptSuccess, P!LastReply, P!Return, P!States
  <2>2. SameKeys(peer, peer') /\ peer'.legs = peer.legs
    BY <1>1, <2>1 DEF SameKeys, P!Peer
  <2>3. KeysAgree' /\ LegsMatch'
    BY <1>1, <2>1, <2>2, LegsStay DEF KeysAgree, SameKeys
  <2> QED
    BY <2>1, <2>3, OverIsInStep DEF Going
<1>3. CASE BeginRun \/ StartTunnel \/ Handshake
  <2>1. /\ srv.phase \in {"start", "hello", "ready"}
        /\ \E phase \in {"start", "hello", "ready"} : srv' = [srv EXCEPT !.phase = phase]
    BY <1>1, <1>3 DEF BeginRun, StartTunnel, Handshake, InductiveInv, InStep, P!SendIdentity, Server
  <2>2. /\ SameKeys(peer, peer') /\ peer'.inner = peer.inner /\ peer'.legs = peer.legs
        /\ outcome' = "running" /\ out' \in {{"identity"}, {"hello"}, {"tls"}, {"ack"}}
    BY <1>1, <1>3
    DEF BeginRun, StartTunnel, Handshake, P!SendIdentity, P!TeapStart, P!HandshakeContinue,
        P!HandshakeDone, P!Established, P!Answer, SameKeys, P!Peer
  <2>3. Going
    BY <1>1, <1>3
    DEF BeginRun, StartTunnel, Handshake, P!SendIdentity, P!TeapStart, P!HandshakeContinue,
        P!HandshakeDone, P!Processing, P!Terminal, P!InductiveInv, Going
  <2>4. /\ srv'.phase \in {"start", "hello", "ready"} /\ srv'.mskChain = srv.mskChain
        /\ srv'.emskChain = srv.emskChain /\ srv'.ending = srv.ending
        /\ srv'.refusals = srv.refusals /\ srv'.via = srv.via
    BY <1>1, <2>1 DEF Server
  <2>5. KeysAgree' /\ LegsMatch'
    BY <1>1, <2>1, <2>2, <2>4, LegsStay DEF KeysAgree, SameKeys
  <2>6. StartsClean'
    BY <2>1, <2>2, <2>3, <2>4, InStepFacts DEF StartsClean, SameKeys
  <2>7. ~MethodComplete /\ ~(MethodComplete')
    BY <2>1, <2>4 DEF MethodComplete
  <2>8. MethodIsShared'
    BY <2>4, <2>7 DEF MethodIsShared
  <2>9. RepeatsAreBound'
    BY <2>1, <2>2, <2>3, <2>4, <2>7, InStepFacts DEF RepeatsAreBound, SameKeys
  <2>10. peer'.rounds <= Len(peer'.legs)
    BY <2>1, <2>2, <2>3, InStepFacts DEF SameKeys
  <2> QED
    BY <2>2, <2>4, <2>5, <2>6, <2>8, <2>9, <2>10 DEF Keeps, InStep, NeverRefused
<1> QED
  BY <1>2, <1>3

(* The conversation goes on: what is left to show of a step of the server's. *)
LEMMA GoesOn ==
    ASSUME InductiveInv, KeysAgree', LegsMatch', outcome' # "idle", "err" \notin out',
           Going' => /\ srv'.phase \in {"ready", "identity", "method", "failed", "bound", "result"}
                     /\ srv'.phase = "ready" => srv'.mskChain # <<>>
                     /\ MethodIsShared' /\ RepeatsAreBound'
                     /\ srv'.phase # "result" => peer'.rounds <= Len(peer'.legs)
                     /\ srv'.phase = "bound" =>
                           peer'.cbDone /\ peer'.legs # <<>> /\ LastLeg'.bound
    PROVE  Keeps
  BY DEF Keeps, InStep, NeverRefused, StartsClean

LEMMA IdentityKeeps ==
    ASSUME InductiveInv, srv.todo # <<>>, ~MethodComplete, srv.phase # "result",
           Say(NextIdentity(None), [srv EXCEPT !.phase = "identity"])
    PROVE  Keeps
<1> DEFINE m == NextIdentity(None)
           s == [srv EXCEPT !.phase = "identity"]
<1>1. PICK p : Hears(p) /\ P!DispatchTlvs(p, m) /\ srv' = s /\ Going
  BY InStepFacts, SomebodyHears
<1>2. P!HandleIdentityType(p, m, {}) /\ m.eap = "identity"
  <2>1. /\ m = [None EXCEPT !.idt = Head(srv.todo), !.eap = "identity"]
        /\ Head(srv.todo) \in {"user", "machine"}
    BY IdentityMessage, InStepFacts
  <2>2. /\ ~m.unsup /\ m.res = "none" /\ m.ir = "none" /\ m.cb = "none" /\ m.idt # "none"
        /\ m.eap = "identity"
    BY <2>1 DEF None
  <2> HIDE DEF m
  <2> QED
    BY <1>1, <2>2 DEF P!DispatchTlvs
<1>3. /\ SameKeys(p, peer') /\ peer'.legs = p.legs /\ outcome' # "idle" /\ "err" \notin out'
      /\ peer'.state # "FAILED" => peer'.inner = P!NoInner
  BY <1>1, <1>2, IdentityIsAnswered DEF Hears
<1>4. SameButPhase(srv, s) /\ s.phase = "identity" /\ s.refusals = srv.refusals
  BY InStepFacts, PhaseUpdate
<1> HIDE DEF m, s
<1>5. KeysAgree' /\ LegsMatch'
  BY <1>1, <1>3, <1>4, InStepFacts, KeysStay, LegsStay DEF Hears, SameButPhase
<1>6. Going' => MethodIsShared'
  BY <1>1, <1>3, <1>4 DEF MethodIsShared, MethodComplete, Going
<1>7. RepeatsAreBound'
  <2>1. ~(MethodComplete')
    BY <1>1, <1>4 DEF MethodComplete
  <2> QED
    BY <1>1, <1>3, <1>4, <2>1, InStepFacts DEF RepeatsAreBound, Hears, SameKeys, SameButPhase
<1>8. peer'.rounds <= Len(peer'.legs)
  BY <1>1, <1>3, InStepFacts DEF Hears, SameKeys
<1> QED
  BY <1>1, <1>3, <1>4, <1>5, <1>6, <1>7, <1>8, GoesOn

LEMMA ProposeKeeps ==
    ASSUME InductiveInv, Propose
    PROVE  Keeps
<1>1. PICK e \in {"tls-start", "mschap-challenge"}, via \in {"tls", "mschap"} :
          /\ e = "tls-start" <=> via = "tls"
          /\ Say(EapOnly(e), [srv EXCEPT !.phase = "method", !.via = via])
          /\ srv.phase = "identity"
  BY DEF Propose, EapOnly
<1> DEFINE s == [srv EXCEPT !.phase = "method", !.via = via]
<1>2. PICK p : Hears(p) /\ P!DispatchTlvs(p, EapOnly(e)) /\ srv' = s /\ Going
  BY <1>1, InStepFacts, SomebodyHears
<1>3. P!HandleInnerEap(p, EapOnly(e), {}) /\ EapOnly(e).eap = e
  BY <1>2, EapIsHandled DEF P!EapPackets
<1>4. SameButPhase(srv, s) /\ s.phase = "method" /\ s.via = via /\ s.refusals = srv.refusals
  BY InStepFacts, MethodUpdate
<1> HIDE DEF s
<1>5. p \in P!Peer /\ p.inner = P!NoInner
  BY <1>1, <1>2, InStepFacts DEF Hears, SameMethod, MethodIsShared
<1>6. /\ SameKeys(p, peer') /\ peer'.legs = p.legs /\ outcome' = "running"
      /\ \/ out' = {"eap-tls"} /\ peer'.inner.key # 0 /\ ~peer'.inner.up /\ via = "tls"
         \/ out' = {"eap-nak"} /\ peer'.inner = P!NoInner
         \/ /\ out' = {"eap-mschap-response"} /\ peer'.inner = P!NoInner
            /\ peer'.mschap.key # 0 /\ via = "mschap"
  <2>1. CASE e = "tls-start"
    BY <1>1, <1>3, <1>5, <2>1, TlsIsStarted
  <2>2. CASE e = "mschap-challenge"
    BY <1>1, <1>3, <1>5, <2>2, ChallengeIsAnswered
  <2> QED
    BY <2>1, <2>2
<1>7. ~MethodComplete /\ ~(MethodComplete')
  BY <1>1, <1>6 DEF MethodComplete
<1>8. KeysAgree' /\ LegsMatch'
  BY <1>1, <1>2, <1>4, <1>6, InStepFacts, KeysStay, LegsStay DEF Hears, SameButPhase
<1>9. MethodIsShared'
  BY <1>2, <1>4, <1>6, <1>7 DEF MethodIsShared
<1>10. RepeatsAreBound'
  BY <1>1, <1>2, <1>4, <1>6, <1>7, InStepFacts DEF RepeatsAreBound, Hears, SameKeys, SameButPhase
<1>11. peer'.rounds <= Len(peer'.legs)
  BY <1>1, <1>2, <1>6, InStepFacts DEF Hears, SameKeys
<1> QED
  BY <1>2, <1>4, <1>6, <1>8, <1>9, <1>10, <1>11, GoesOn

(* A Nak is answered with EAP-TLS. *)
LEMMA NakKeeps ==
    ASSUME InductiveInv, srv.phase = "method", "eap-nak" \in out,
           Say(EapOnly("tls-start"), [srv EXCEPT !.via = "tls"])
    PROVE  Keeps
<1> DEFINE s == [srv EXCEPT !.via = "tls"]
           m == EapOnly("tls-start")
<1>1. PICK p : Hears(p) /\ P!DispatchTlvs(p, m) /\ srv' = s /\ Going
  BY InStepFacts, SomebodyHears
<1>2. P!HandleInnerEap(p, m, {}) /\ m.eap = "tls-start"
  BY <1>1, EapIsHandled DEF P!EapPackets
<1>3. SameButPhase(srv, s) /\ s.phase = "method" /\ s.via = "tls" /\ s.refusals = srv.refusals
  BY InStepFacts, NakUpdate
<1> HIDE DEF s, m
<1>4. out = {"eap-nak"}
  BY <1>1, InStepFacts DEF MethodIsShared
<1>5. p \in P!Peer /\ p.inner = P!NoInner
  BY <1>1, <1>4, InStepFacts DEF Hears, SameMethod, MethodIsShared
<1>6. /\ SameKeys(p, peer') /\ peer'.legs = p.legs
      /\ out' = {"eap-tls"} /\ outcome' = "running"
      /\ peer'.inner.key # 0 /\ ~peer'.inner.up
  BY <1>2, <1>5, TlsIsStarted
<1>7. ~MethodComplete /\ ~(MethodComplete')
  BY <1>4, <1>6 DEF MethodComplete
<1>8. KeysAgree' /\ LegsMatch'
  BY <1>1, <1>3, <1>6, InStepFacts, KeysStay, LegsStay DEF Hears, SameButPhase
<1>9. MethodIsShared'
  BY <1>1, <1>3, <1>6, <1>7 DEF MethodIsShared
<1>10. RepeatsAreBound'
  BY <1>1, <1>3, <1>6, <1>7, InStepFacts DEF RepeatsAreBound, Hears, SameKeys, SameButPhase
<1>11. peer'.rounds <= Len(peer'.legs)
  BY <1>1, <1>6, InStepFacts DEF Hears, SameKeys
<1> QED
  BY <1>1, <1>3, <1>6, <1>8, <1>9, <1>10, <1>11, GoesOn

(* A method has been recorded: the next binding is over its key. *)
LEMMA RecordedKeeps ==
    ASSUME InductiveInv, Going, srv.phase = "method", ~MethodComplete, srv' = srv,
           NEW p, Hears(p), NEW key \in Nat, Records(p, key, key), key = MethodKey',
           outcome' = "running", "err" \notin out', MethodComplete',
           \/ out' = {"eap-tls"} /\ srv.via = "tls" /\ peer'.inner.key # 0
           \/ out' = {"eap-mschap-success"} /\ srv.via = "mschap" /\ peer'.inner = P!NoInner
    PROVE  Keeps
<1>1. KeysAgree'
  BY InStepFacts DEF KeysAgree, Records, Hears, SameKeys
<1> DEFINE Leg(method) == NewLeg(p, method, key)
<1>6. PICK method \in {"EAP-TLS", "MS-CHAPv2"} : peer'.legs = Append(peer.legs, Leg(method))
  BY DEF Records, Hears
<1>7. Leg(method) \in P!Leg /\ ~Leg(method).bound /\ Leg(method).key = key
  BY DEF NewLeg, P!Leg, P!LegType
<1> HIDE DEF Leg
<1>8. LegsMatch'
  BY <1>6, <1>7, InStepFacts, ReportsRecord DEF LegsMatch
<1>9. LastLeg' = Leg(method)
  <2>1. Len(peer'.legs) = Len(peer.legs) + 1 /\ peer'.legs[Len(peer.legs) + 1] = Leg(method)
    BY <1>6, <1>7, InStepFacts, AppendProperties
  <2> QED
    BY <2>1 DEF LastLeg
<1>2. /\ peer'.rounds = peer.rounds /\ Len(peer'.legs) = Len(peer.legs) + 1
      /\ peer'.innerMsk = key
  BY DEF Records, Hears, SameKeys
<1>3. peer'.rounds <= Len(peer'.legs) /\ Len(peer'.legs) > peer'.rounds
  BY <1>2, InStepFacts
<1>4. MethodIsShared'
  BY <1>2, <1>3, <1>7, <1>9 DEF MethodIsShared
<1>5. RepeatsAreBound'
  BY <1>2, InStepFacts DEF RepeatsAreBound
<1> QED
  BY <1>1, <1>3, <1>4, <1>5, <1>8, GoesOn

LEMMA HandshakeDataKeeps ==
    ASSUME InductiveInv, srv.phase = "method", "eap-tls" \in out, ~peer.inner.up,
           Say(EapOnly("tls-data"), srv)
    PROVE  Keeps
<1> DEFINE m == EapOnly("tls-data")
<1>1. PICK p : Hears(p) /\ P!DispatchTlvs(p, m) /\ srv' = srv /\ Going /\ ExportsSucceed
  BY InStepFacts, SomebodyHears
<1>2. P!HandleInnerEap(p, m, {}) /\ m.eap = "tls-data"
  BY <1>1, EapIsHandled DEF P!EapPackets
<1> HIDE DEF m
<1>3. out = {"eap-tls"} /\ srv.via = "tls" /\ peer.inner.key # 0
  BY <1>1, InStepFacts DEF MethodIsShared
<1>4. p \in P!Peer /\ p.inner = peer.inner
  BY <1>1 DEF Hears, SameMethod
<1>5. ~MethodComplete
  BY <1>3 DEF MethodComplete
<1>6. /\ out' = {"eap-tls"} /\ outcome' = "running" /\ peer'.inner.key = peer.inner.key
      /\ \/ peer' = p
         \/ peer'.inner.up /\ \E msk \in {peer.inner.key, 0} : Records(p, peer.inner.key, msk)
  BY <1>2, <1>3, <1>4, TlsGoesOn
<1>7. CASE peer' = p
  <2>1. KeysAgree' /\ LegsMatch'
    BY <1>1, <1>7, InStepFacts, LegsStay DEF KeysAgree, Hears, SameKeys
  <2>2. ~(MethodComplete')
    BY <1>4, <1>6, <1>7 DEF MethodComplete
  <2>3. MethodIsShared'
    BY <1>1, <1>3, <1>6, <2>2 DEF MethodIsShared
  <2>4. RepeatsAreBound'
    BY <1>1, <1>5, <1>7, <2>2, InStepFacts DEF RepeatsAreBound, Hears, SameKeys
  <2>5. peer'.rounds <= Len(peer'.legs)
    BY <1>1, <1>7, InStepFacts DEF Hears, SameKeys
  <2> QED
    BY <1>1, <1>6, <2>1, <2>3, <2>4, <2>5, GoesOn
<1>8. ASSUME NEW msk \in {peer.inner.key, 0}, Records(p, peer.inner.key, msk), peer'.inner.up
      PROVE  Keeps
  <2>1. msk # 0
    BY <1>1, <1>8 DEF ExportsSucceed, Records, Hears
  <2>2. msk = peer.inner.key /\ msk = MethodKey' /\ MethodComplete' /\ msk \in Nat
    BY <1>1, <1>3, <1>6, <1>8, <2>1, InStepFacts, PeerFields DEF MethodKey, MethodComplete
  <2> QED
    BY <1>1, <1>3, <1>5, <1>6, <1>8, <2>2, RecordedKeeps
<1> QED
  BY <1>6, <1>7, <1>8

LEMMA PasswordAcceptedKeeps ==
    ASSUME InductiveInv, srv.phase = "method", "eap-mschap-response" \in out,
           Say(EapOnly("mschap-success-good"), srv)
    PROVE  Keeps
<1> DEFINE m == EapOnly("mschap-success-good")
<1>1. PICK p : Hears(p) /\ P!DispatchTlvs(p, m) /\ srv' = srv /\ Going
  BY InStepFacts, SomebodyHears
<1>2. P!HandleInnerEap(p, m, {}) /\ m.eap = "mschap-success-good"
  BY <1>1, EapIsHandled DEF P!EapPackets
<1> HIDE DEF m
<1>3. out = {"eap-mschap-response"} /\ srv.via = "mschap" /\ peer.mschap.key # 0
  BY <1>1, InStepFacts DEF MethodIsShared
<1>4. p \in P!Peer /\ p.inner = P!NoInner /\ p.mschap = peer.mschap
  BY <1>1, <1>3, InStepFacts DEF Hears, SameMethod, MethodIsShared
<1>5. ~MethodComplete
  BY <1>3 DEF MethodComplete
<1>6. /\ outcome' = "running" /\ peer'.inner = P!NoInner
      /\ \/ out' = {"eap-nak"} /\ peer' = p
         \/ /\ out' = {"eap-mschap-success"} /\ peer'.mschap = peer.mschap
            /\ Records(p, peer.mschap.key, peer.mschap.key)
  BY <1>2, <1>3, <1>4, SuccessIsAnswered
<1>7. CASE out' = {"eap-nak"} /\ peer' = p
  <2>1. KeysAgree' /\ LegsMatch'
    BY <1>1, <1>7, InStepFacts, LegsStay DEF KeysAgree, Hears, SameKeys
  <2>2. ~(MethodComplete')
    BY <1>7 DEF MethodComplete
  <2>3. MethodIsShared'
    BY <1>1, <1>6, <1>7, <2>2 DEF MethodIsShared
  <2>4. RepeatsAreBound'
    BY <1>1, <1>5, <1>7, <2>2, InStepFacts DEF RepeatsAreBound, Hears, SameKeys
  <2>5. peer'.rounds <= Len(peer'.legs)
    BY <1>1, <1>7, InStepFacts DEF Hears, SameKeys
  <2> QED
    BY <1>1, <1>6, <1>7, <2>1, <2>3, <2>4, <2>5, GoesOn
<1>8. CASE /\ out' = {"eap-mschap-success"} /\ peer'.mschap = peer.mschap
           /\ Records(p, peer.mschap.key, peer.mschap.key)
  <2>1. peer.mschap.key = MethodKey' /\ MethodComplete' /\ peer.mschap.key \in Nat
    BY <1>1, <1>3, <1>8, InStepFacts, PeerFields DEF MethodKey, MethodComplete
  <2> QED
    BY <1>1, <1>3, <1>5, <1>6, <1>8, <2>1, RecordedKeeps
<1> QED
  BY <1>6, <1>7, <1>8

LEMMA RefuseKeeps ==
    ASSUME InductiveInv, RefuseMethod
    PROVE  Keeps
<1> DEFINE s == [srv EXCEPT !.phase = "failed", !.refusals = @ - 1]
           m == [None EXCEPT !.ir = "failure"]
<1>1. srv.refusals > 0 /\ srv.phase = "method" /\ Say(m, s)
  BY DEF RefuseMethod, MethodComplete
<1>2. PICK p : Hears(p) /\ P!DispatchTlvs(p, m) /\ srv' = s /\ Going
  BY <1>1, InStepFacts, SomebodyHears
<1>3. P!HandleIntermediateFailure(p, m) /\ m.ir = "failure"
  BY <1>2 DEF P!DispatchTlvs, None
<1>4. peer' = p /\ out' = {"ir-"} /\ outcome' = "running"
  BY <1>3 DEF P!HandleIntermediateFailure, P!Answer
<1>5. SameButPhase(srv, s) /\ s.phase = "failed"
  BY <1>1, InStepFacts, RefusalUpdate
<1> HIDE DEF s, m
<1>6. KeysAgree' /\ LegsMatch'
  BY <1>1, <1>2, <1>4, <1>5, InStepFacts, LegsStay DEF KeysAgree, Hears, SameKeys, SameButPhase
<1>7. MethodIsShared'
  BY <1>2, <1>5 DEF MethodIsShared, MethodComplete
<1>8. RepeatsAreBound'
  <2>1. srv.ending # "repeated"
    BY <1>1, <1>2, InStepFacts DEF RepeatsAreBound
  <2> QED
    BY <1>2, <1>5, <2>1 DEF RepeatsAreBound, SameButPhase
<1>9. peer'.rounds <= Len(peer'.legs)
  BY <1>1, <1>2, <1>4, InStepFacts DEF Hears, SameKeys
<1> QED
  BY <1>2, <1>4, <1>5, <1>6, <1>7, <1>8, <1>9, GoesOn

LEMMA GiveUpKeeps ==
    ASSUME InductiveInv, GiveUp
    PROVE  Keeps
<1> DEFINE s == [srv EXCEPT !.phase = "rejected"]
           m == [None EXCEPT !.res = "failure"]
<1>1. PICK p : Hears(p) /\ P!DispatchTlvs(p, m) /\ srv' = s
  BY InStepFacts, SomebodyHears DEF GiveUp
<1>2. P!HandleResultAlone(p, m) /\ m.res = "failure"
  BY <1>1 DEF P!DispatchTlvs, None
<1>3. peer' = [p EXCEPT !.state = "FAILED"] /\ out' = {"res-"} /\ outcome' = "running"
  BY <1>2 DEF P!HandleResultAlone, P!AnswerFailure, P!Answer
<1>4. SameKeys(p, peer') /\ peer'.legs = p.legs /\ peer'.state = "FAILED"
  BY <1>1, <1>3 DEF Hears, SameKeys, P!Peer
<1>5. srv'.mskChain = srv.mskChain /\ srv'.emskChain = srv.emskChain
  BY <1>1, InStepFacts DEF Server
<1>6. KeysAgree' /\ LegsMatch'
  BY <1>1, <1>4, <1>5, InStepFacts, KeysStay, LegsStay DEF Hears, GiveUp
<1> QED
  BY <1>3, <1>4, <1>6, OverIsInStep DEF Going

(* A binding that the client must take, with what it has mixed in itself.      *)
LEMMA BindingIsAccepted ==
    ASSUME InductiveInv, NEW t, NEW m, Bears(m, BindingOf(t)), NEW s, Say(m, s),
           \A q \in P!Derived(peer) :
              q.mskChain = t.mskChain /\ (t.via = "tls" /\ q.emskCmk => q.emskChain = t.emskChain)
    PROVE  \E p : /\ Hears(p)
                  /\ \E q \in P!Derived(p) : SameKeys(q, peer')
                  /\ peer'.legs = LastBound(peer.legs)
                  /\ "err" \notin out' /\ outcome' # "idle"
                  /\ m.idt = "none" => peer'.cbDone
                  /\ m.idt # "none" /\ peer'.state # "FAILED" => peer'.inner = P!NoInner
<1>1. PICK p : Hears(p) /\ P!DispatchTlvs(p, m)
  BY InStepFacts, SomebodyHears
<1>2. BindingOf(t).msk = "good" /\ BindingOf(t).emsk \in {"absent", "good"}
  BY BindingFields
<1>3. \A q \in P!Derived(p) : P!MacsVerify(q, m)
  BY <1>2 DEF P!MacsVerify, Bears
<1>4. p \in P!Peer /\ p.legs = peer.legs /\ IsBinding(m)
  BY <1>1 DEF Hears, Bears
<1> QED
  BY <1>1, <1>3, <1>4, BindingIsTaken

(* What the client derives for a method it has recorded. *)
LEMMA DerivedFromTheMethod ==
    ASSUME InductiveInv, Going, MethodComplete, NEW t, IsMixed(t), NEW p, Hears(p),
           NEW q \in P!Derived(p)
    PROVE  /\ q.mskChain = t.mskChain /\ q.rounds = peer.rounds + 1 /\ q.legs = peer.legs
           /\ q.emskCmk = peer.inner.up => q.emskChain = t.emskChain
           /\ t.via = "tls" /\ q.emskCmk => q.emskChain = t.emskChain
<1>1. Len(peer.legs) > peer.rounds /\ peer.innerMsk = MethodKey /\ srv.phase = "method"
  BY InStepFacts DEF MethodIsShared, MethodComplete
<1>2. P!MustDerive(p) /\ p \in P!Peer
  BY <1>1 DEF P!MustDerive, Hears, SameKeys
<1>3. /\ q.mskChain = Append(peer.mskChain, peer.innerMsk) /\ q.rounds = peer.rounds + 1
      /\ q.emskChain = IF q.emskCmk THEN Append(peer.emskChain, peer.inner.key)
                       ELSE peer.emskChain
      /\ q.legs = peer.legs
  BY <1>2, DerivedFacts DEF Hears, SameKeys, SameMethod
<1>4. q.mskChain = t.mskChain
  BY <1>1, <1>3, InStepFacts DEF IsMixed, KeysAgree
<1>5. srv.via = "tls" => MethodKey = peer.inner.key
  BY DEF MethodKey
<1>6. peer.inner.up <=> srv.via = "tls"
  <2>1. CASE "eap-tls" \in out
    BY <1>1, <2>1, InStepFacts DEF MethodIsShared, MethodComplete
  <2>2. CASE "eap-tls" \notin out
    <3>1. srv.via = "mschap" /\ peer.inner = P!NoInner
      BY <1>1, <2>2, InStepFacts DEF MethodIsShared, MethodComplete
    <3> QED
      BY <3>1 DEF P!NoInner
  <2> QED
    BY <2>1, <2>2
<1>7. KeysAgree /\ t.via = srv.via
  BY InStepFacts DEF IsMixed
<1>8. CASE srv.via = "tls"
  BY <1>3, <1>4, <1>5, <1>6, <1>7, <1>8 DEF IsMixed, KeysAgree
<1>9. CASE srv.via # "tls"
  BY <1>3, <1>4, <1>6, <1>7, <1>9 DEF IsMixed, KeysAgree
<1> QED
  BY <1>8, <1>9

LEMMA MethodBindingKeeps ==
    ASSUME InductiveInv, MethodComplete, NEW t, IsMixed(t), NEW m, NEW s, OnlyPhase(t, s),
           Bears(m, BindingOf(t)), Say(m, s),
           \/ m.idt = "none" /\ s.phase \in {"ready", "result", "bound"}
           \/ m.idt # "none" /\ s.phase = "identity"
    PROVE  Keeps
<1>1. Going /\ srv' = s /\ ExportsSucceed /\ Hears(peer)
  BY InStepFacts, SomebodyHears DEF Hears, SameKeys, SameMethod
<1>2. \A q \in P!Derived(peer) :
         q.mskChain = t.mskChain /\ (t.via = "tls" /\ q.emskCmk => q.emskChain = t.emskChain)
  BY <1>1, DerivedFromTheMethod
<1>3. PICK p : /\ Hears(p)
               /\ \E q \in P!Derived(p) : SameKeys(q, peer')
               /\ peer'.legs = LastBound(peer.legs)
               /\ "err" \notin out' /\ outcome' # "idle"
               /\ m.idt = "none" => peer'.cbDone
               /\ m.idt # "none" /\ peer'.state # "FAILED" => peer'.inner = P!NoInner
  BY <1>2, BindingIsAccepted
<1>4. PICK q \in P!Derived(p) : SameKeys(q, peer')
  BY <1>3
<1>5. /\ q.mskChain = t.mskChain /\ q.rounds = peer.rounds + 1 /\ q.legs = peer.legs
      /\ q.emskCmk = peer.inner.up => q.emskChain = t.emskChain
  BY <1>1, <1>3, DerivedFromTheMethod
<1>6. peer'.emskCmk = peer.inner.up
  BY <1>1, <1>4, <1>5, InStepFacts DEF ExportsSucceed, SameKeys
<1>7. /\ srv'.mskChain = t.mskChain /\ srv'.emskChain = t.emskChain
      /\ srv'.ending = srv.ending /\ srv'.refusals = srv.refusals
  BY <1>1 DEF OnlyPhase, SameButPhase, IsMixed
<1>8. KeysAgree'
  BY <1>4, <1>5, <1>6, <1>7 DEF KeysAgree, SameKeys
<1>9. srv'.mskChain # <<>>
  <2>1. srv.mskChain \in Seq(Nat) /\ MethodKey \in Nat
    BY InStepFacts, MixedFacts, PeerFields DEF Server, MethodKey
  <2> QED
    BY <1>7, <2>1, AppendProperties DEF IsMixed
<1>10. ~(MethodComplete')
  BY <1>1 DEF MethodComplete
<1>11. Going' => MethodIsShared'
  BY <1>1, <1>3, <1>10 DEF MethodIsShared, Going
<1>12. /\ peer'.rounds = peer.rounds + 1 /\ Len(peer'.legs) = Len(peer.legs)
       /\ Len(peer.legs) > peer.rounds
  BY <1>1, <1>4, <1>5, InStepFacts DEF SameKeys, MethodIsShared
<1>13. RepeatsAreBound'
  <2>1. srv.phase = "method" /\ srv'.phase # "failed"
    BY <1>1 DEF MethodComplete
  <2>2. srv.ending = "repeated" => srv.refusals = 0 /\ Len(peer.legs) = peer.rounds + 1
    BY <1>1, <2>1, InStepFacts DEF RepeatsAreBound
  <2>3. srv.ending = "repeated" => Len(peer'.legs) = peer'.rounds
    BY <1>12, <2>2
  <2> QED
    BY <1>7, <1>10, <2>1, <2>2, <2>3 DEF RepeatsAreBound
<1>14. peer'.rounds <= Len(peer'.legs)
  BY <1>12, InStepFacts
<1>15. /\ peer.legs # <<>> /\ ~LastLeg.bound /\ LastLeg.key = MethodKey /\ MethodKey \in Nat
       /\ srv.phase = "method"
  <2>1. ~LastLeg.bound /\ LastLeg.key = MethodKey /\ MethodKey \in Nat /\ srv.phase = "method"
    BY <1>1, InStepFacts, PeerFields DEF MethodIsShared, MethodKey, MethodComplete
  <2>2. peer.legs # <<>>
    BY <1>12, InStepFacts
  <2> QED
    BY <2>1, <2>2
<1>16. LegsMatch'
  <2>1. Reports(peer.legs, srv.mskChain)
    BY <1>15, InStepFacts DEF LegsMatch
  <2>2. Reports(LastBound(peer.legs), Append(srv.mskChain, MethodKey))
    BY <1>15, <2>1, InStepFacts, ReportsBind DEF LastLeg
  <2> QED
    BY <1>3, <1>7, <2>2 DEF LegsMatch, IsMixed
<1>17. peer'.legs # <<>> /\ LastLeg'.bound
  BY <1>3, <1>15, InStepFacts, LastBoundFacts DEF LastLeg
<1> QED
  BY <1>1, <1>3, <1>8, <1>9, <1>11, <1>13, <1>14, <1>16, <1>17, GoesOn

(* The last message that takes: what is left of being in step. *)
LEMMA ResultKeeps ==
    ASSUME InductiveInv, Going, srv'.phase = "result", srv'.ending = srv.ending,
           srv'.refusals = srv.refusals, KeysAgree', LegsMatch', outcome' # "idle",
           "err" \notin out'
    PROVE  Keeps
<1>1. MethodIsShared' /\ RepeatsAreBound'
  BY InStepFacts DEF MethodIsShared, RepeatsAreBound, MethodComplete
<1> QED
  BY <1>1, GoesOn

LEMMA FinalResultKeeps ==
    ASSUME InductiveInv, FinalResult
    PROVE  Keeps
<1>1. srv.phase = "bound"
  BY DEF FinalResult
<1>2. PICK s : /\ OnlyPhase(srv, s) /\ s.phase = "result"
               /\ \/ /\ srv.ending = "repeated"
                     /\ \E m : Bears(m, BindingOf(srv)) /\ m.idt = "none" /\ Say(m, s)
                  \/ /\ srv.ending # "repeated"
                     /\ Say([None EXCEPT !.res = "success"], s)
  BY InStepFacts, FinalMessage
<1>3. ASSUME Going, srv' = s
      PROVE  /\ srv'.mskChain = srv.mskChain /\ srv'.emskChain = srv.emskChain
             /\ srv'.phase = "result" /\ srv'.ending = srv.ending /\ srv'.refusals = srv.refusals
             /\ peer.cbDone /\ peer.rounds > 0 /\ peer.legs # <<>> /\ LastLeg.bound
  BY <1>1, <1>2, <1>3, InStepFacts DEF OnlyPhase, SameButPhase
<1>4. CASE Say([None EXCEPT !.res = "success"], s)
  <2> DEFINE m == [None EXCEPT !.res = "success"]
  <2>1. PICK p : Hears(p) /\ P!DispatchTlvs(p, m) /\ srv' = s /\ Going
    BY <1>4, InStepFacts, SomebodyHears
  <2>2. P!HandleResultAlone(p, m) /\ m.res = "success"
    BY <2>1 DEF P!DispatchTlvs, None
  <2>3. peer' = [p EXCEPT !.resultAck = TRUE] /\ out' = {"res+"} /\ outcome' = "running"
    <3>1. p.cbDone
      BY <1>3, <2>1 DEF Hears
    <3> QED
      BY <2>2, <3>1 DEF P!HandleResultAlone, P!Answer
  <2>4. SameKeys(p, peer') /\ peer'.legs = p.legs
    BY <2>1, <2>3 DEF Hears, SameKeys, P!Peer
  <2>5. KeysAgree' /\ LegsMatch'
    BY <1>1, <1>3, <2>1, <2>4, InStepFacts, KeysStay, LegsStay DEF Hears
  <2> QED
    BY <1>3, <2>1, <2>3, <2>5, ResultKeeps
<1>5. ASSUME NEW m, Bears(m, BindingOf(srv)), Say(m, s), srv.ending = "repeated"
      PROVE  Keeps
  <2>1. srv' = s /\ Going
    BY <1>5, InStepFacts, SomebodyHears
  <2>2. Len(peer.legs) = peer.rounds
    BY <1>1, <1>5, <2>1, InStepFacts DEF RepeatsAreBound, MethodComplete
  <2>3. ASSUME NEW p, Hears(p), NEW q \in P!Derived(p)
        PROVE  q = p
    <3>1. ~P!MustDerive(p)
      BY <1>3, <2>1, <2>2, <2>3, InStepFacts DEF P!MustDerive, Hears, SameKeys
    <3> QED
      BY <2>3, <3>1, DerivedFacts DEF Hears
  <2>4. \A q \in P!Derived(peer) :
           q.mskChain = srv.mskChain /\ (srv.via = "tls" /\ q.emskCmk => q.emskChain = srv.emskChain)
    BY <2>3, InStepFacts DEF KeysAgree, Hears, SameKeys, SameMethod
  <2>5. PICK p : /\ Hears(p)
                 /\ \E q \in P!Derived(p) : SameKeys(q, peer')
                 /\ peer'.legs = LastBound(peer.legs)
                 /\ "err" \notin out' /\ outcome' # "idle"
    BY <1>5, <2>4, BindingIsAccepted
  <2>6. SameKeys(p, peer')
    BY <2>3, <2>5
  <2>8. peer'.legs = peer.legs
    BY <1>3, <2>1, <2>5, InStepFacts, LastBoundFacts DEF LastLeg
  <2>7. KeysAgree' /\ LegsMatch'
    BY <1>1, <1>3, <2>1, <2>5, <2>6, <2>8, InStepFacts, KeysStay, LegsStay DEF Hears
  <2> QED
    BY <1>3, <2>1, <2>5, <2>7, ResultKeeps
<1> QED
  BY <1>2, <1>4, <1>5

LEMMA NoInnerMethodKeeps ==
    ASSUME InductiveInv, NoInnerMethod
    PROVE  Keeps
<1>1. PICK t, m, s : /\ IsUnmixed(t) /\ OnlyPhase(t, s) /\ Bears(m, BindingOf(t)) /\ Say(m, s)
                     /\ s.phase = "result"
  BY InStepFacts, EmptyBinding
<1>2. Going /\ srv' = s /\ ExportsSucceed /\ Hears(peer)
  BY <1>1, InStepFacts, SomebodyHears DEF Hears, SameKeys, SameMethod
<1>3. srv.phase \in {"hello", "ready"} /\ srv.mskChain = <<>>
  BY DEF NoInnerMethod, TunnelReady
<1>4. /\ peer.innerMsk = 0 /\ peer.inner = P!NoInner /\ srv.via = "none"
      /\ peer.mskChain = <<>> /\ peer.emskChain = srv.emskChain /\ peer.legs = <<>>
  BY <1>2, <1>3, InStepFacts DEF StartsClean, KeysAgree
<1>5. peer.rounds = 0
  BY <1>4, InStepFacts
<1>6. ASSUME NEW p, Hears(p), NEW q \in P!Derived(p)
      PROVE  /\ q.mskChain = <<0>> /\ q.rounds = 1
             /\ ~q.emskCmk => q.emskChain = srv.emskChain
  <2>1. P!MustDerive(p) /\ p \in P!Peer
    BY <1>5, <1>6 DEF P!MustDerive, Hears, SameKeys
  <2>2. /\ q.mskChain = Append(<<>>, 0) /\ q.rounds = peer.rounds + 1
        /\ ~q.emskCmk => q.emskChain = peer.emskChain
    BY <1>4, <1>6, <2>1, DerivedFacts DEF Hears, SameKeys
  <2>3. Append(<<>>, 0) = <<0>>
    OBVIOUS
  <2> QED
    BY <1>4, <1>5, <2>2, <2>3
<1>7. \A q \in P!Derived(peer) :
         q.mskChain = t.mskChain /\ (t.via = "tls" /\ q.emskCmk => q.emskChain = t.emskChain)
  BY <1>1, <1>2, <1>4, <1>6 DEF IsUnmixed
<1>8. PICK p : /\ Hears(p)
               /\ \E q \in P!Derived(p) : SameKeys(q, peer')
               /\ peer'.legs = LastBound(peer.legs)
               /\ "err" \notin out' /\ outcome' # "idle"
  BY <1>1, <1>7, BindingIsAccepted
<1>9. PICK q \in P!Derived(p) : SameKeys(q, peer')
  BY <1>8
<1>10. q.mskChain = <<0>> /\ q.rounds = 1 /\ (~q.emskCmk => q.emskChain = srv.emskChain)
  BY <1>6, <1>8
<1>11. ~peer'.emskCmk
  <2>1. peer'.rounds # peer.rounds
    BY <1>5, <1>9, <1>10 DEF SameKeys
  <2>2. ~peer.inner.up
    BY <1>4 DEF P!NoInner
  <2> QED
    BY <1>2, <2>1, <2>2 DEF ExportsSucceed
<1>12. /\ srv'.mskChain = <<0>> /\ srv'.emskChain = srv.emskChain /\ srv'.phase = "result"
       /\ srv'.ending = srv.ending /\ srv'.refusals = srv.refusals
  BY <1>1, <1>2 DEF OnlyPhase, SameButPhase, IsUnmixed
<1>13. KeysAgree'
  BY <1>9, <1>10, <1>11, <1>12 DEF KeysAgree, SameKeys
<1>14. LegsMatch'
  BY <1>4, <1>8, <1>12 DEF LegsMatch, LastBound
<1> QED
  BY <1>2, <1>8, <1>12, <1>13, <1>14, ResultKeeps

LEMMA NextKeeps ==
    ASSUME Untroubled, InductiveInv, Next
    PROVE  Keeps
<1>1. CASE BeginRun \/ StartTunnel \/ Handshake \/ Accept \/ Reject
  BY <1>1, OuterStepsKeep
<1>2. CASE AskIdentity
  <2>1. srv.phase \in {"ready", "hello"} /\ srv.todo # <<>>
    BY <1>2 DEF AskIdentity, TunnelReady
  <2> QED
    BY <1>2, <2>1, IdentityKeeps DEF AskIdentity, MethodComplete
<1>3. CASE Propose
  BY <1>3, ProposeKeeps
<1>4. CASE RunMethod
  BY <1>4, NakKeeps, HandshakeDataKeeps, PasswordAcceptedKeeps DEF RunMethod, EapOnly
<1>5. CASE RefuseMethod
  BY <1>5, RefuseKeeps
<1>6. CASE RetryMethod
  <2>1. srv.phase = "failed" /\ Say(NextIdentity(None), [srv EXCEPT !.phase = "identity"])
    BY <1>6 DEF RetryMethod, Untroubled
  <2>2. srv.todo # <<>>
    BY <2>1, InStepFacts DEF ServerFits
  <2> QED
    BY <2>1, <2>2, IdentityKeeps DEF MethodComplete
<1>7. CASE BindAndContinue
  BY <1>7, InStepFacts, ChainedBinding, MethodBindingKeeps DEF BindAndContinue
<1>8. CASE BindLast
  BY <1>8, InStepFacts, LastBinding, MethodBindingKeeps DEF BindLast
<1>9. CASE FinalResult
  BY <1>9, FinalResultKeeps
<1>10. CASE NoInnerMethod
  BY <1>10, NoInnerMethodKeeps
<1>11. CASE GiveUp
  BY <1>11, GiveUpKeeps
<1> QED
  BY <1>1, <1>2, <1>3, <1>4, <1>5, <1>6, <1>7, <1>8, <1>9, <1>10, <1>11 DEF Next

LEMMA InitIsInStep ==
    ASSUME Untroubled, Init
    PROVE  InStep /\ NeverRefused
<1>1. PICK policy \in Policies, plan \in Plans :
          srv = [phase |-> "start", todo |-> policy, ending |-> plan.ending,
                 refusals |-> plan.refusals, via |-> "none",
                 mskChain |-> <<>>, emskChain |-> <<>>]
  BY DEF Init
<1>2. /\ srv.phase = "start" /\ srv.via = "none" /\ srv.mskChain = <<>> /\ srv.emskChain = <<>>
      /\ srv.ending = "repeated" => srv.refusals = 0
  BY <1>1 DEF Untroubled
<1>3. peer = P!InitPeer /\ out = {} /\ outcome = "idle"
  BY DEF Init, P!Init
<1>4. /\ peer.mskChain = <<>> /\ peer.emskChain = <<>> /\ peer.innerMsk = 0
      /\ peer.inner = P!NoInner /\ peer.legs = <<>> /\ peer.rounds = 0
  BY <1>3 DEF P!InitPeer
<1>5. Len(peer.legs) = peer.rounds /\ peer.rounds <= Len(peer.legs)
  BY <1>4
<1>6. Reports(<<>>, <<>>)
  <2> DEFINE f == [i \in {} |-> 0]
  <2>1. DOMAIN <<>> = {}
    OBVIOUS
  <2>2. f \in [{} -> {}]
    OBVIOUS
  <2> QED
    BY <2>1, <2>2 DEF Reports
<1>7. LegsMatch
  BY <1>2, <1>4, <1>6 DEF LegsMatch
<1> QED
  BY <1>2, <1>3, <1>4, <1>5, <1>7
  DEF InStep, NeverRefused, KeysAgree, StartsClean, MethodIsShared, RepeatsAreBound, MethodComplete

(* Client and server stay in step: the same keys in both chains at every       *)
(* moment, a recorded method always the one the server runs, and a repeated    *)
(* binding only for methods already bound.                                     *)
THEOREM Invariance == ASSUME Untroubled PROVE Spec => []InductiveInv
<1>1. Init /\ ClientInv => InductiveInv
  BY InitIsInStep DEF ClientInv, InductiveInv
<1>2. InductiveInv /\ ClientInv' /\ [Next]_vars => InductiveInv'
  <2> SUFFICES ASSUME InductiveInv, ClientInv', [Next]_vars
               PROVE  InductiveInv'
    OBVIOUS
  <2>1. CASE Next
    BY <2>1, NextKeeps DEF Keeps, ClientInv, InductiveInv
  <2>2. CASE UNCHANGED vars
    BY <2>2
    DEF vars, ClientInv, InductiveInv, NeverRefused, InStep, KeysAgree, Going, StartsClean,
        MethodIsShared, RepeatsAreBound, MethodComplete, MethodKey, LegsMatch, LastLeg
  <2> QED
    BY <2>1, <2>2
<1> QED
  BY <1>1, <1>2, ClientInvHolds, PTL DEF Spec

(* A server that follows the protocol, announces the identity type with every  *)
(* retry and does not repeat a binding after a refusal is never answered with  *)
(* an error TLV, whatever the credentials and the policy (_fatal).             *)
THEOREM NeverRefusedByTheClient == ASSUME Untroubled PROVE Spec => []NeverRefused
<1>1. InductiveInv => NeverRefused
  BY DEF InductiveInv
<1> QED
  BY <1>1, Invariance, PTL

(* What a successful run reports as bound legs is what the server has bound,   *)
(* leg by leg and in order, refused and repeated methods included (the         *)
(* crypto_binding flags, set by _bind on the last leg only).                   *)
THEOREM ReportsAreTrue == ASSUME Untroubled PROVE Spec => []ReportIsTrue
<1>1. InductiveInv => ReportIsTrue
  BY DEF InductiveInv, InStep, LegsMatch, ReportIsTrue
<1> QED
  BY <1>1, Invariance, PTL
=============================================================================
