--------------------------- MODULE TeapPeerProofs ---------------------------
(* Proofs about TeapPeer for every set of configurations and messages and      *)
(* every bound.  A handler is an action over a peer value, so the argument has *)
(* the shape of the code: GoodPeer is kept by each change a handler makes to   *)
(* the session, hence by each handler, hence by each step of the run.          *)
EXTENDS TeapPeer, TLAPS

(* Nothing proved or concluded in this step's peer is taken back. *)
Progress(p) == /\ peer.cbDone => p.cbDone
               /\ peer.resultAck => p.resultAck

GoodPeer(p) == /\ p \in Peer
               /\ ChainsFollowLegs(p)
               /\ ResultFollowsBinding(p)
               /\ PasswordFits(p)
               /\ Progress(p)

(* A peer a handler works on: the run loop leaves a terminal state alone. *)
LivePeer(p) == GoodPeer(p) /\ p.state # "DONE" /\ TunnelFits(p)

GoodTags(tags) == tags \subseteq Tags /\ "res-" \notin tags /\ OffersFit(tags)

(* What a handler establishes: the run goes on, or it fails. *)
GoodStep ==
    /\ cfg' = cfg
    /\ GoodPeer(peer') /\ peer'.state # "DONE"
    /\ out' \subseteq Tags /\ OffersFit(out')
    /\ "res-" \in out' => peer'.state = "FAILED"
    /\ outcome' \in {"running", "failure"}
    /\ outcome' = "running" => TunnelFits(peer')

(* The reply holds what was owed, or the run fails. *)
Carries(extra) == extra \subseteq out' \/ peer'.state = "FAILED"

-----------------------------------------------------------------------------
(* Ends of handlers *)

LEMMA SmallTags ==
    /\ \A t \in {"identity", "hello", "tls", "ack", "alert", "res+", "ir-", "nak"} :
          GoodTags({t})
    /\ GoodTags({"cb", "ir+"}) /\ GoodTags({"ir+", "cb", "res+"}) /\ GoodTags({"res+", "cb"})
    /\ GoodTags({})
  BY DEF GoodTags, Tags, OffersFit

LEMMA MoreTags ==
    ASSUME NEW extra, GoodTags(extra),
           NEW t \in Tags, t # "res-", OffersFit({t})
    PROVE  GoodTags(extra \cup {t})
  BY DEF GoodTags, OffersFit

LEMMA AnswerIsGood ==
    ASSUME NEW p, LivePeer(p), NEW tags, GoodTags(tags), Answer(p, tags)
    PROVE  GoodStep /\ out' = tags /\ peer' = p
  BY DEF Answer, GoodStep, LivePeer, GoodTags

(* What the facts about a peer depend on. *)
Same(p, q) ==
    /\ q.legs = p.legs /\ q.rounds = p.rounds
    /\ q.mskChain = p.mskChain /\ q.emskChain = p.emskChain
    /\ q.cbDone = p.cbDone /\ q.resultAck = p.resultAck
    /\ q.mschap.cred = p.mschap.cred

SameTunnel(p, q) == q.inner.cred = p.inner.cred /\ q.idType = p.idType

LEMMA SameIsGood ==
    ASSUME NEW p, GoodPeer(p), NEW q \in Peer, Same(p, q), q.state # "DONE"
    PROVE  /\ GoodPeer(q)
           /\ LivePeer(p) /\ SameTunnel(p, q) => LivePeer(q)
  BY DEF GoodPeer, LivePeer, Same, SameTunnel, ChainsFollowLegs, ResultFollowsBinding,
         PasswordFits, TunnelFits, Progress

(* Any change of state but to DONE keeps the peer good. *)
LEMMA StateChange ==
    ASSUME NEW p, GoodPeer(p), NEW s \in States, s # "DONE"
    PROVE  LET q == [p EXCEPT !.state = s]
           IN  /\ GoodPeer(q) /\ q.state = s
               /\ LivePeer(p) => LivePeer(q)
<1> DEFINE q == [p EXCEPT !.state = s]
<1>1. q \in Peer /\ q.state = s /\ Same(p, q) /\ SameTunnel(p, q)
  BY DEF GoodPeer, Peer, Same, SameTunnel
<1> HIDE DEF q
<1>2. GoodPeer(q) /\ (LivePeer(p) => LivePeer(q))
  BY <1>1, SameIsGood
<1> QED
  BY <1>1, <1>2 DEF q

LEMMA FailIsGood ==
    ASSUME NEW p, GoodPeer(p), Fail(p)
    PROVE  GoodStep /\ peer'.state = "FAILED"
<1> DEFINE q == [p EXCEPT !.state = "FAILED"]
<1>1. GoodPeer(q) /\ q.state = "FAILED"
  BY StateChange DEF States
<1>2. cfg' = cfg /\ peer' = q /\ out' = {} /\ outcome' = "failure"
  BY <1>1 DEF Fail, Return
<1> QED
  BY <1>1, <1>2, SmallTags DEF GoodStep, GoodTags

LEMMA RefusalIsGood ==
    ASSUME NEW p, LivePeer(p), Fatal(p) \/ AnswerFailure(p)
    PROVE  GoodStep /\ peer'.state = "FAILED"
<1> DEFINE q == [p EXCEPT !.state = "FAILED"]
<1>1. LivePeer(q) /\ q.state = "FAILED"
  BY StateChange DEF States, LivePeer
<1>2. /\ cfg' = cfg /\ peer' = q /\ outcome' = "running"
      /\ out' = {"res-", "err"} \/ out' = {"res-"}
  BY DEF Fatal, AnswerFailure, Answer
<1>3. out' \subseteq Tags /\ OffersFit(out')
  BY <1>2 DEF Tags, OffersFit
<1> QED
  BY <1>1, <1>2, <1>3 DEF GoodStep, LivePeer

-----------------------------------------------------------------------------
(* Changes a handler makes *)

LEMMA RecordLegIsGood ==
    ASSUME NEW p, LivePeer(p), NEW method \in {"EAP-TLS", "MS-CHAPv2"},
           NEW key \in Nat, NEW msk \in Nat
    PROVE  LivePeer(RecordLeg(p, method, key, msk))
<1> DEFINE leg == [idType |-> LegType(p.idType), method |-> method,
                   bound |-> FALSE, key |-> key]
           q == RecordLeg(p, method, key, msk)
<1>1. leg \in Leg
  BY DEF Leg, LegType
<1>2. p.legs \in Seq(Leg) /\ p \in Peer
  BY DEF LivePeer, GoodPeer, Peer
<1>3. Append(p.legs, leg) \in Seq(Leg) /\ Len(Append(p.legs, leg)) = Len(p.legs) + 1
  BY <1>1, <1>2
<1>4. q = [p EXCEPT !.legs = Append(p.legs, leg), !.innerMsk = msk]
  BY DEF RecordLeg
<1> HIDE DEF leg, q
<1>5. q \in Peer
  BY <1>2, <1>3, <1>4 DEF Peer
<1>6. /\ q.legs = Append(p.legs, leg)
      /\ q.rounds = p.rounds /\ q.mskChain = p.mskChain /\ q.emskChain = p.emskChain
      /\ q.state = p.state /\ q.cbDone = p.cbDone /\ q.resultAck = p.resultAck
      /\ q.mschap = p.mschap /\ q.inner = p.inner /\ q.idType = p.idType
  BY <1>2, <1>4 DEF Peer
<1>7. ChainsFollowLegs(q)
  <2>1. p.rounds \in Nat /\ Len(p.legs) \in Nat /\ (p.legs = <<>> => Len(p.legs) = 0)
    BY <1>2 DEF Peer
  <2>2. Append(p.legs, leg) # <<>>
    BY <1>2, <1>3, <2>1
  <2> QED
    BY <1>3, <1>6, <2>1, <2>2 DEF ChainsFollowLegs, LivePeer, GoodPeer
<1>8. ResultFollowsBinding(q) /\ PasswordFits(q) /\ Progress(q)
  BY <1>6 DEF ResultFollowsBinding, PasswordFits, Progress, LivePeer, GoodPeer
<1>9. q.state # "DONE" /\ TunnelFits(q)
  BY <1>6 DEF TunnelFits, LivePeer
<1> QED
  BY <1>5, <1>7, <1>8, <1>9 DEF LivePeer, GoodPeer, q

(* Deriving adds one key to the MSK chain, at most one to the EMSK chain, and  *)
(* happens only when a leg or the first zero round pays for it.                *)
LEMMA DeriveIsGood ==
    ASSUME NEW p, LivePeer(p), NEW q \in Derived(p)
    PROVE  LivePeer(q) /\ q.rounds > 0
<1>0. p \in Peer /\ ChainsFollowLegs(p)
  BY DEF LivePeer, GoodPeer
<1>1. /\ p.rounds \in Nat /\ p.mskChain \in Seq(Nat) /\ p.emskChain \in Seq(Nat)
      /\ p.innerMsk \in Nat /\ p.inner.key \in Nat /\ p.legs \in Seq(Leg)
  BY <1>0 DEF Peer
<1>2. CASE ~MustDerive(p)
  <2>1. q = p
    BY <1>2 DEF Derived
  <2>2. p.rounds # 0
    BY <1>2 DEF MustDerive
  <2> QED
    BY <1>1, <2>1, <2>2
<1>3. CASE MustDerive(p)
  <2>1. PICK e \in BOOLEAN : q = DeriveBindingKeys(p, e)
    BY <1>3 DEF Derived
  <2> DEFINE msk  == Append(p.mskChain, p.innerMsk)
             emsk == IF e THEN Append(p.emskChain, p.inner.key) ELSE p.emskChain
  <2>2. msk \in Seq(Nat) /\ Len(msk) = Len(p.mskChain) + 1
    BY <1>1
  <2>3. emsk \in Seq(Nat) /\ Len(emsk) <= Len(p.emskChain) + 1
    BY <1>1
  <2>4. q = [p EXCEPT !.mskChain = msk, !.emskChain = emsk, !.emskCmk = e,
                      !.rounds = p.rounds + 1]
    BY <2>1 DEF DeriveBindingKeys
  <2> HIDE DEF msk, emsk
  <2>5. q \in Peer
    <3>1. [p EXCEPT !.mskChain = msk] \in Peer
      BY <1>0, <2>2 DEF Peer
    <3>2. [p EXCEPT !.mskChain = msk, !.emskChain = emsk] \in Peer
      BY <2>3, <3>1 DEF Peer
    <3>3. [p EXCEPT !.mskChain = msk, !.emskChain = emsk, !.emskCmk = e] \in Peer
      BY <3>2, Zenon DEF Peer
    <3> DEFINE r == [p EXCEPT !.mskChain = msk, !.emskChain = emsk, !.emskCmk = e]
    <3>4. q = [r EXCEPT !.rounds = p.rounds + 1] /\ p.rounds + 1 \in Nat
      BY <1>1, <2>4
    <3>5. r \in Peer
      BY <3>3
    <3> HIDE DEF r
    <3> QED
      BY <3>4, <3>5 DEF Peer
  <2>6. /\ q.mskChain = msk /\ q.emskChain = emsk /\ q.rounds = p.rounds + 1
        /\ q.legs = p.legs /\ q.state = p.state
        /\ q.cbDone = p.cbDone /\ q.resultAck = p.resultAck
        /\ q.mschap = p.mschap /\ q.inner = p.inner /\ q.idType = p.idType
    BY <1>0, <2>4 DEF Peer
  <2>7. ChainsFollowLegs(q)
    <3>1. Len(p.mskChain) = p.rounds /\ Len(p.emskChain) <= p.rounds
      BY <1>0 DEF ChainsFollowLegs
    <3>2. Len(p.legs) \in Nat /\ (p.legs = <<>> => Len(p.legs) = 0)
      BY <1>1
    <3>3. Len(p.emskChain) \in Nat /\ Len(emsk) \in Nat
      BY <1>1, <2>3
    <3>4. q.rounds <= (IF q.legs = <<>> THEN 1 ELSE Len(q.legs))
      <4>1. CASE p.legs = <<>>
        BY <1>1, <1>3, <2>6, <3>2, <4>1 DEF MustDerive
      <4>2. CASE p.legs # <<>>
        <5>1. Len(p.legs) # 0
          BY <1>1, <4>2
        <5> QED
          BY <1>1, <1>3, <2>6, <3>2, <4>2, <5>1 DEF MustDerive
      <4> QED
        BY <4>1, <4>2
    <3> QED
      BY <1>1, <2>2, <2>3, <2>6, <3>1, <3>3, <3>4 DEF ChainsFollowLegs
  <2>8. ResultFollowsBinding(q) /\ q.rounds > 0
    BY <1>1, <2>6 DEF ResultFollowsBinding, LivePeer, GoodPeer
  <2>9. PasswordFits(q) /\ Progress(q) /\ TunnelFits(q) /\ q.state # "DONE"
    BY <2>6 DEF PasswordFits, Progress, TunnelFits, LivePeer, GoodPeer
  <2> QED
    BY <2>5, <2>7, <2>8, <2>9 DEF LivePeer, GoodPeer
<1> QED
  BY <1>2, <1>3

(* Marking the current leg bound changes no length. *)
LEMMA BindCurrentLegIsGood ==
    ASSUME NEW p, LivePeer(p)
    PROVE  /\ LivePeer(BindCurrentLeg(p))
           /\ BindCurrentLeg(p).rounds = p.rounds
<1>1. p \in Peer /\ p.legs \in Seq(Leg)
  BY DEF LivePeer, GoodPeer, Peer
<1>2. CASE p.legs = <<>>
  BY <1>2 DEF BindCurrentLeg
<1>3. CASE p.legs # <<>>
  <2> DEFINE last == Len(p.legs)
             leg  == [p.legs[last] EXCEPT !.bound = TRUE]
             legs == [p.legs EXCEPT ![last] = leg]
             q    == [p EXCEPT !.legs = legs]
  <2>1. last \in 1..Len(p.legs) /\ p.legs[last] \in Leg
    BY <1>1, <1>3
  <2>2. leg \in Leg
    BY <2>1 DEF Leg
  <2>3. legs \in Seq(Leg) /\ Len(legs) = Len(p.legs) /\ legs # <<>>
    BY <1>1, <1>3, <2>1, <2>2
  <2>4. BindCurrentLeg(p) = q
    BY <1>3 DEF BindCurrentLeg
  <2> HIDE DEF legs
  <2>5. q \in Peer
    BY <1>1, <2>3 DEF Peer
  <2>6. /\ q.legs = legs /\ q.rounds = p.rounds /\ q.mskChain = p.mskChain
        /\ q.emskChain = p.emskChain /\ q.state = p.state
        /\ q.cbDone = p.cbDone /\ q.resultAck = p.resultAck
        /\ q.mschap = p.mschap /\ q.inner = p.inner /\ q.idType = p.idType
    BY <1>1 DEF Peer
  <2>7. ChainsFollowLegs(q) /\ ResultFollowsBinding(q)
    BY <1>3, <2>3, <2>6 DEF LivePeer, GoodPeer, ChainsFollowLegs, ResultFollowsBinding
  <2>8. PasswordFits(q) /\ Progress(q) /\ TunnelFits(q) /\ q.state # "DONE"
    BY <2>6 DEF PasswordFits, Progress, TunnelFits, LivePeer, GoodPeer
  <2> QED
    BY <2>4, <2>5, <2>6, <2>7, <2>8 DEF LivePeer, GoodPeer
<1> QED
  BY <1>2, <1>3

LEMMA BoundIsGood ==
    ASSUME NEW p, LivePeer(p), NEW m, NEW q \in BoundPeers(p, m)
    PROVE  LivePeer(q) /\ q.cbDone
<1>1. PICK r \in Derived(p) : q = Bound(r)
  BY DEF BoundPeers
<1>2. LivePeer(r) /\ r.rounds > 0
  BY DeriveIsGood
<1> DEFINE b == BindCurrentLeg(r)
<1>3. LivePeer(b) /\ b.rounds > 0
  BY <1>2, BindCurrentLegIsGood
<1>4. q = [b EXCEPT !.cbDone = TRUE]
  BY <1>1 DEF Bound
<1> HIDE DEF b
<1>5. /\ q \in Peer /\ q.cbDone = TRUE
      /\ q.legs = b.legs /\ q.rounds = b.rounds /\ q.mskChain = b.mskChain
      /\ q.emskChain = b.emskChain /\ q.state = b.state /\ q.resultAck = b.resultAck
      /\ q.mschap = b.mschap /\ q.inner = b.inner /\ q.idType = b.idType
  BY <1>3, <1>4 DEF LivePeer, GoodPeer, Peer
<1>6. ChainsFollowLegs(q) /\ ResultFollowsBinding(q)
  BY <1>3, <1>5 DEF LivePeer, GoodPeer, ChainsFollowLegs, ResultFollowsBinding
<1>7. PasswordFits(q) /\ Progress(q) /\ TunnelFits(q) /\ q.state # "DONE"
  BY <1>3, <1>5 DEF PasswordFits, Progress, TunnelFits, LivePeer, GoodPeer
<1> QED
  BY <1>5, <1>6, <1>7 DEF LivePeer, GoodPeer

LEMMA RefuseBindingIsGood ==
    ASSUME NEW p, LivePeer(p), NEW m, RefuseBinding(p, m)
    PROVE  GoodStep /\ peer'.state = "FAILED"
<1>1. CASE Fatal(p)
  BY <1>1, RefusalIsGood
<1>2. CASE \E q \in Derived(p) : Fatal(q)
  <2>1. PICK q \in Derived(p) : Fatal(q)
    BY <1>2
  <2>2. LivePeer(q)
    BY DeriveIsGood
  <2> QED
    BY <2>1, <2>2, RefusalIsGood
<1> QED
  BY <1>1, <1>2 DEF RefuseBinding

(* The final Result is acknowledged only on a peer that has a binding. *)
LEMMA AcknowledgeIsGood ==
    ASSUME NEW p, LivePeer(p), p.cbDone
    PROVE  LivePeer([p EXCEPT !.resultAck = TRUE])
<1> DEFINE q == [p EXCEPT !.resultAck = TRUE]
<1>1. /\ q \in Peer /\ q.resultAck = TRUE
      /\ q.legs = p.legs /\ q.rounds = p.rounds /\ q.mskChain = p.mskChain
      /\ q.emskChain = p.emskChain /\ q.state = p.state /\ q.cbDone = p.cbDone
      /\ q.mschap = p.mschap /\ q.inner = p.inner /\ q.idType = p.idType
  BY DEF LivePeer, GoodPeer, Peer
<1> HIDE DEF q
<1>2. ChainsFollowLegs(q) /\ ResultFollowsBinding(q)
  BY <1>1 DEF LivePeer, GoodPeer, ChainsFollowLegs, ResultFollowsBinding
<1>3. PasswordFits(q) /\ Progress(q) /\ TunnelFits(q) /\ q.state # "DONE"
  BY <1>1 DEF PasswordFits, Progress, TunnelFits, LivePeer, GoodPeer
<1> QED
  BY <1>1, <1>2, <1>3 DEF LivePeer, GoodPeer, q

-----------------------------------------------------------------------------
(* Inner methods *)

(* A tunnel opened for the machine's certificate is the machine's. *)
LEMMA OpenInnerTunnelIsGood ==
    ASSUME NEW p, LivePeer(p)
    PROVE  LivePeer([p EXCEPT !.state = "INNER_TLS_HANDSHAKE", !.keys = @ + 1,
                              !.inner = [key |-> p.keys + 1, up |-> FALSE,
                                         cred |-> TlsCred(p.idType)]])
<1> DEFINE cred == TlsCred(p.idType)
           inner == [key |-> p.keys + 1, up |-> FALSE, cred |-> cred]
           q == [p EXCEPT !.state = "INNER_TLS_HANDSHAKE", !.keys = @ + 1, !.inner = inner]
<1>1. p \in Peer /\ p.keys \in Nat
  BY DEF LivePeer, GoodPeer, Peer
<1>2. cred \in Creds /\ (cred = "machine-cert" => p.idType = "machine")
  BY DEF TlsCred, Creds
<1> HIDE DEF cred
<1>3. inner \in [key : Nat, up : BOOLEAN, cred : Creds] /\ inner.cred = cred
  BY <1>1, <1>2
<1> HIDE DEF inner
<1> DEFINE k == p.keys + 1
<1>4. k \in Nat /\ q = [p EXCEPT !.state = "INNER_TLS_HANDSHAKE", !.keys = k, !.inner = inner]
  BY <1>1
<1> HIDE DEF k
<1>5. /\ q \in Peer /\ q.state = "INNER_TLS_HANDSHAKE" /\ Same(p, q)
      /\ q.inner = inner /\ q.idType = p.idType
  BY <1>1, <1>3, <1>4 DEF Peer, States, Same
<1> HIDE DEF q
<1>6. GoodPeer(q)
  BY <1>5, SameIsGood DEF LivePeer
<1>7. LivePeer(q)
  BY <1>2, <1>3, <1>5, <1>6 DEF LivePeer, TunnelFits
<1> QED
  BY <1>7 DEF q, inner, cred

LEMMA InnerTlsIsGood ==
    ASSUME NEW p, LivePeer(p), NEW m, NEW extra, GoodTags(extra), InnerTls(p, m, extra)
    PROVE  GoodStep /\ Carries(extra)
<1>1. GoodTags(extra \cup {"eap-tls"}) /\ GoodTags(extra \cup {"eap-tls-ack"})
  BY MoreTags DEF Tags, OffersFit
<1>2. p \in Peer /\ p.inner.key \in Nat /\ p.inner.cred \in Creds
  BY DEF LivePeer, GoodPeer, Peer
<1> DEFINE opened == [p EXCEPT !.state = "INNER_TLS_HANDSHAKE", !.keys = @ + 1,
                               !.inner = [key |-> p.keys + 1, up |-> FALSE,
                                          cred |-> TlsCred(p.idType)]]
           done(msk) == [RecordLeg(p, "EAP-TLS", p.inner.key, msk)
                           EXCEPT !.state = "INNER_TLS_DONE", !.inner.up = TRUE]
<1>3. CASE Answer(opened, extra \cup {"eap-tls"})
  <2>1. LivePeer(opened)
    BY OpenInnerTunnelIsGood, Zenon
  <2> HIDE DEF opened
  <2> QED
    BY <1>1, <1>3, <2>1, AnswerIsGood DEF Carries
<1>4. CASE Answer(p, extra \cup {"eap-tls-ack"}) \/ Answer(p, extra \cup {"eap-tls"})
  BY <1>1, <1>4, AnswerIsGood DEF Carries
<1>5. CASE \E msk \in {p.inner.key, 0} : Answer(done(msk), extra \cup {"eap-tls"})
  <2>1. PICK msk \in Nat : Answer(done(msk), extra \cup {"eap-tls"})
    BY <1>2, <1>5
  <2> DEFINE r == RecordLeg(p, "EAP-TLS", p.inner.key, msk)
  <2>2. LivePeer(r)
    BY <1>2, RecordLegIsGood
  <2> HIDE DEF r
  <2> DEFINE u == [r EXCEPT !.inner.up = TRUE]
  <2>3. u \in Peer /\ u.state = r.state /\ Same(r, u) /\ SameTunnel(r, u)
    BY <2>2 DEF LivePeer, GoodPeer, Peer, Same, SameTunnel
  <2>4. done(msk) = [u EXCEPT !.state = "INNER_TLS_DONE"]
    BY <2>2 DEF r, LivePeer, GoodPeer, Peer
  <2> HIDE DEF u
  <2>5. LivePeer(u)
    BY <2>2, <2>3, SameIsGood DEF LivePeer
  <2>6. LivePeer([u EXCEPT !.state = "INNER_TLS_DONE"])
    BY <2>5, StateChange DEF States, LivePeer
  <2> QED
    BY <1>1, <2>1, <2>4, <2>6, AnswerIsGood DEF Carries
<1> QED
  BY <1>3, <1>4, <1>5 DEF InnerTls

(* A challenge is answered with the password of the current identity type. *)
LEMMA InnerMschapv2IsGood ==
    ASSUME NEW p, LivePeer(p), PasswordFor(p.idType), NEW m, NEW extra, GoodTags(extra),
           InnerMschapv2(p, m, extra)
    PROVE  GoodStep /\ Carries(extra)
<1>1. /\ GoodTags(extra \cup {"eap-mschap-response"})
      /\ GoodTags(extra \cup {"eap-mschap-success"})
  BY MoreTags DEF Tags, OffersFit
<1>2. /\ GoodPeer(p) /\ p \in Peer /\ p.keys \in Nat
      /\ p.mschap.key \in Nat /\ p.mschap.cred \in Creds
  BY DEF LivePeer, GoodPeer, Peer
<1> DEFINE mschap == [key |-> p.keys + 1, cred |-> PasswordCred(p.idType)]
           asked == [p EXCEPT !.keys = @ + 1, !.mschap = mschap]
           legged == RecordLeg(p, "MS-CHAPv2", p.mschap.key, p.mschap.key)
<1>3. CASE Answer(asked, extra \cup {"eap-mschap-response"})
  <2>1. /\ mschap \in [key : Nat, cred : Creds]
        /\ mschap.cred = "user-pwd" => cfg.userPwd
        /\ mschap.cred = "machine-pwd" => cfg.machPwd
    BY <1>2 DEF PasswordCred, PasswordFor, Creds
  <2> HIDE DEF mschap
  <2> DEFINE k == p.keys + 1
  <2>2. k \in Nat /\ asked = [p EXCEPT !.keys = k, !.mschap = mschap]
    BY <1>2
  <2> HIDE DEF k
  <2>3. asked \in Peer
    BY <1>2, <2>1, <2>2 DEF Peer
  <2>4. /\ asked.state = p.state /\ asked.legs = p.legs /\ asked.rounds = p.rounds
        /\ asked.mskChain = p.mskChain /\ asked.emskChain = p.emskChain
        /\ asked.cbDone = p.cbDone /\ asked.resultAck = p.resultAck
        /\ asked.mschap = mschap /\ asked.inner = p.inner /\ asked.idType = p.idType
    BY <1>2 DEF Peer
  <2> HIDE DEF asked
  <2>5. ChainsFollowLegs(asked) /\ ResultFollowsBinding(asked)
    BY <2>4 DEF LivePeer, GoodPeer, ChainsFollowLegs, ResultFollowsBinding
  <2>6. PasswordFits(asked) /\ Progress(asked) /\ TunnelFits(asked) /\ asked.state # "DONE"
    BY <2>1, <2>4 DEF PasswordFits, Progress, TunnelFits, LivePeer, GoodPeer
  <2>7. LivePeer(asked)
    BY <2>3, <2>5, <2>6 DEF LivePeer, GoodPeer
  <2> QED
    BY <1>1, <1>3, <2>7, AnswerIsGood DEF Carries
<1>4. CASE Answer(p, extra \cup {"eap-mschap-success"})
  BY <1>1, <1>2, <1>4, AnswerIsGood DEF Carries
<1>5. CASE Answer(legged, extra \cup {"eap-mschap-success"})
  <2>1. LivePeer(legged)
    BY <1>2, RecordLegIsGood
  <2> QED
    BY <1>1, <1>5, <2>1, AnswerIsGood DEF Carries
<1>6. CASE Fail(p)
  BY <1>2, <1>6, FailIsGood DEF Carries
<1> QED
  BY <1>3, <1>4, <1>5, <1>6 DEF InnerMschapv2

LEMMA HandleInnerEapIsGood ==
    ASSUME NEW p, LivePeer(p), NEW m, NEW extra, GoodTags(extra),
           HandleInnerEap(p, m, extra)
    PROVE  GoodStep /\ Carries(extra)
<1>1. GoodPeer(p) /\ "ack" \in Tags
  BY DEF LivePeer, Tags
<1>2. /\ GoodTags(extra \cup {"eap-identity"}) /\ GoodTags(extra \cup {"eap-nak"})
      /\ GoodTags(IF extra = {} THEN {"ack"} ELSE extra)
  BY SmallTags, MoreTags DEF Tags, OffersFit
<1>3. CASE Answer([p EXCEPT !.state = "INNER_TLS_DONE"],
                  IF extra = {} THEN {"ack"} ELSE extra)
  <2> DEFINE q == [p EXCEPT !.state = "INNER_TLS_DONE"]
  <2>1. LivePeer(q)
    BY <1>1, StateChange DEF States
  <2> HIDE DEF q
  <2> QED
    BY <1>2, <1>3, <2>1, AnswerIsGood DEF Carries, q
<1>4. CASE Fail(p)
  BY <1>1, <1>4, FailIsGood DEF Carries
<1>5. CASE Answer([p EXCEPT !.state = "INNER_IDENTITY"], extra \cup {"eap-identity"})
  <2> DEFINE q == [p EXCEPT !.state = "INNER_IDENTITY"]
  <2>1. LivePeer(q)
    BY <1>1, StateChange DEF States
  <2> HIDE DEF q
  <2> QED
    BY <1>2, <1>5, <2>1, AnswerIsGood DEF Carries, q
<1>6. CASE InnerTls(p, m, extra)
  BY <1>6, InnerTlsIsGood
<1>7. CASE PasswordFor(p.idType) /\ InnerMschapv2(p, m, extra)
  BY <1>7, InnerMschapv2IsGood
<1>8. CASE Answer(p, extra \cup {"eap-nak"})
  BY <1>2, <1>8, AnswerIsGood DEF Carries
<1> QED
  BY <1>3, <1>4, <1>5, <1>6, <1>7, <1>8 DEF HandleInnerEap

(* The inner tunnel is dropped with the identity type it was opened for, and   *)
(* what was owed travels with the announcement.                                *)
LEMMA ProceedAsIsGood ==
    ASSUME NEW p, LivePeer(p), NEW m, NEW t \in IdTypes, HasCredentialFor(t),
           NEW extra, GoodTags(extra), ProceedAs(p, m, t, extra)
    PROVE  GoodStep /\ Carries(extra)
<1> DEFINE q    == [p EXCEPT !.state = "INNER_IDENTITY", !.idType = t, !.inner = NoInner]
           tags == extra \cup {IdTag(t)}
<1>1. GoodTags(tags)
  <2>1. IdTag(t) \in Tags /\ IdTag(t) # "res-"
    BY DEF IdTag, Tags
  <2>2. OffersFit({IdTag(t)})
    BY DEF OffersFit, IdTag, HasCredentialFor
  <2> QED
    BY <2>1, <2>2, MoreTags
<1>2. LivePeer(q)
  <2>1. p \in Peer /\ GoodPeer(p)
    BY DEF LivePeer, GoodPeer
  <2>2. /\ q \in Peer /\ q.state = "INNER_IDENTITY" /\ Same(p, q)
        /\ q.inner = NoInner
    BY <2>1 DEF Peer, States, Same, NoInner, Creds
  <2> HIDE DEF q
  <2>3. GoodPeer(q)
    BY <2>1, <2>2, SameIsGood
  <2>4. TunnelFits(q)
    BY <2>2 DEF TunnelFits, NoInner
  <2> QED
    BY <2>2, <2>3, <2>4 DEF LivePeer
<1>3. HandleInnerEap(q, m, tags) \/ Answer(q, tags)
  BY DEF ProceedAs
<1> HIDE DEF q, tags
<1>4. GoodStep /\ Carries(tags)
  <2>1. CASE HandleInnerEap(q, m, tags)
    BY <1>1, <1>2, <2>1, HandleInnerEapIsGood
  <2>2. CASE Answer(q, tags)
    BY <1>1, <1>2, <2>2, AnswerIsGood DEF Carries
  <2> QED
    BY <1>3, <2>1, <2>2
<1> QED
  BY <1>4 DEF Carries, tags

LEMMA HandleIdentityTypeIsGood ==
    ASSUME NEW p, LivePeer(p), NEW m \in TlvMessage, NEW extra, GoodTags(extra),
           HandleIdentityType(p, m, extra)
    PROVE  GoodStep /\ Carries(extra)
<1>1. m.idt \in IdTypes /\ Other(m.idt) \in IdTypes
  BY DEF TlvMessage, IdTypes, Other
<1>2. CASE HasCredentialFor(m.idt) /\ ProceedAs(p, m, m.idt, extra)
  BY <1>1, <1>2, ProceedAsIsGood
<1>3. CASE HasCredentialFor(Other(m.idt)) /\ ProceedAs(p, m, Other(m.idt), extra)
  BY <1>1, <1>3, ProceedAsIsGood
<1>4. CASE Fail([p EXCEPT !.idType = m.idt])
  <2> DEFINE q == [p EXCEPT !.idType = m.idt]
  <2>1. q \in Peer /\ q.state = p.state /\ Same(p, q)
    BY <1>1 DEF LivePeer, GoodPeer, Peer, Same
  <2> HIDE DEF q
  <2>2. GoodPeer(q)
    BY <2>1, SameIsGood DEF LivePeer
  <2> QED
    BY <1>4, <2>2, FailIsGood DEF Carries, q
<1> QED
  BY <1>2, <1>3, <1>4 DEF HandleIdentityType

-----------------------------------------------------------------------------
(* Bindings and Results *)

(* Every bound peer answers with the binding, or refuses the Result with it. *)
LEMMA HandleBindingAndResultIsGood ==
    ASSUME NEW p, LivePeer(p), NEW m,
           HandleLastBindingAndResult(p, m) \/ HandleFinalResult(p, m)
    PROVE  /\ GoodStep /\ Carries({"cb"})
           /\ m.res # "success" => peer'.state = "FAILED"
           /\ BoundPeers(p, m) = {} => peer'.state = "FAILED"
<1>1. CASE RefuseBinding(p, m)
  BY <1>1, RefuseBindingIsGood DEF Carries
<1>2. CASE \E q \in BoundPeers(p, m) : AnswerFailure(q)
  <2>1. PICK q \in BoundPeers(p, m) : AnswerFailure(q)
    BY <1>2
  <2>2. LivePeer(q)
    BY BoundIsGood
  <2> QED
    BY <2>1, <2>2, RefusalIsGood DEF Carries
<1>3. CASE \E q \in BoundPeers(p, m) :
             /\ m.res = "success"
             /\ \/ Answer([q EXCEPT !.resultAck = TRUE], {"ir+", "cb", "res+"})
                \/ Answer([q EXCEPT !.resultAck = TRUE], {"res+", "cb"})
  <2>1. PICK q \in BoundPeers(p, m) :
             \/ Answer([q EXCEPT !.resultAck = TRUE], {"ir+", "cb", "res+"})
             \/ Answer([q EXCEPT !.resultAck = TRUE], {"res+", "cb"})
    BY <1>3
  <2> DEFINE r == [q EXCEPT !.resultAck = TRUE]
  <2>2. LivePeer(r)
    <3>1. LivePeer(q) /\ q.cbDone
      BY BoundIsGood
    <3> QED
      BY <3>1, AcknowledgeIsGood
  <2> HIDE DEF r
  <2>3. \/ Answer(r, {"ir+", "cb", "res+"}) \/ Answer(r, {"res+", "cb"})
    BY <2>1 DEF r
  <2>4. GoodStep /\ Carries({"cb"})
    BY <2>2, <2>3, SmallTags, AnswerIsGood DEF Carries
  <2> QED
    BY <1>3, <2>4
<1> QED
  BY <1>1, <1>2, <1>3 DEF HandleLastBindingAndResult, HandleFinalResult

LEMMA HandleCryptoBindingIsGood ==
    ASSUME NEW p, LivePeer(p), NEW m \in TlvMessage, HandleCryptoBinding(p, m)
    PROVE  /\ GoodStep /\ Carries({"cb"})
           /\ BoundPeers(p, m) = {} => peer'.state = "FAILED"
<1> DEFINE reply == {"cb", "ir+"}
<1>1. GoodTags(reply)
  BY SmallTags
<1>2. CASE RefuseBinding(p, m)
  BY <1>2, RefuseBindingIsGood DEF Carries
<1>3. ASSUME NEW q \in BoundPeers(p, m),
             \/ HandleIdentityType(q, m, reply)
             \/ HandleInnerEap(q, m, reply)
             \/ Answer([q EXCEPT !.state = "CRYPTO_BINDING"], reply)
      PROVE  GoodStep /\ Carries(reply)
  <2>1. LivePeer(q)
    BY BoundIsGood
  <2>2. CASE HandleIdentityType(q, m, reply)
    BY <1>1, <2>1, <2>2, HandleIdentityTypeIsGood
  <2>3. CASE HandleInnerEap(q, m, reply)
    BY <1>1, <2>1, <2>3, HandleInnerEapIsGood
  <2>4. CASE Answer([q EXCEPT !.state = "CRYPTO_BINDING"], reply)
    <3> DEFINE r == [q EXCEPT !.state = "CRYPTO_BINDING"]
    <3>1. LivePeer(r)
      BY <2>1, StateChange DEF States, LivePeer
    <3> HIDE DEF r
    <3> QED
      BY <1>1, <2>4, <3>1, AnswerIsGood DEF Carries, r
  <2> QED
    BY <1>3, <2>2, <2>3, <2>4
<1>4. \/ RefuseBinding(p, m)
      \/ \E q \in BoundPeers(p, m) :
            \/ HandleIdentityType(q, m, reply)
            \/ HandleInnerEap(q, m, reply)
            \/ Answer([q EXCEPT !.state = "CRYPTO_BINDING"], reply)
  BY DEF HandleCryptoBinding
<1> HIDE DEF reply
<1>5. ASSUME ~RefuseBinding(p, m)
      PROVE  GoodStep /\ Carries(reply) /\ BoundPeers(p, m) # {}
  BY <1>3, <1>4, <1>5
<1> QED
  BY <1>2, <1>5 DEF Carries, reply

LEMMA HandleResultsIsGood ==
    ASSUME NEW p, LivePeer(p), NEW m \in TlvMessage,
           \/ UnsupportedTlv(p, m) \/ HandleResultPac(p, m)
           \/ HandleIntermediateFailure(p, m) \/ HandleResultAlone(p, m)
    PROVE  GoodStep
<1>1. CASE Fatal(p) \/ AnswerFailure(p)
  BY <1>1, RefusalIsGood
<1>2. CASE Answer(p, {"nak"}) \/ Answer(p, {"ir-"})
  BY <1>2, SmallTags, AnswerIsGood
<1>3. CASE Answer([p EXCEPT !.state = "RESULT_PAC"], {"res+"})
  <2> DEFINE q == [p EXCEPT !.state = "RESULT_PAC"]
  <2>1. LivePeer(q)
    BY StateChange DEF States, LivePeer
  <2> HIDE DEF q
  <2> QED
    BY <1>3, <2>1, SmallTags, AnswerIsGood DEF q
<1>4. CASE p.cbDone /\ Answer([p EXCEPT !.resultAck = TRUE], {"res+"})
  <2> DEFINE q == [p EXCEPT !.resultAck = TRUE]
  <2>1. LivePeer(q)
    BY <1>4, AcknowledgeIsGood
  <2> HIDE DEF q
  <2> QED
    BY <1>4, <2>1, SmallTags, AnswerIsGood DEF q
<1> QED
  BY <1>1, <1>2, <1>3, <1>4
  DEF UnsupportedTlv, HandleResultPac, HandleIntermediateFailure, HandleResultAlone

LEMMA DispatchIsGood ==
    ASSUME NEW p, LivePeer(p), NEW m \in TlvMessage, DispatchTlvs(p, m)
    PROVE  GoodStep
<1>1. CASE \/ UnsupportedTlv(p, m) \/ HandleResultPac(p, m)
           \/ HandleIntermediateFailure(p, m) \/ HandleResultAlone(p, m)
  BY <1>1, HandleResultsIsGood
<1>2. CASE HandleLastBindingAndResult(p, m) \/ HandleFinalResult(p, m)
  BY <1>2, HandleBindingAndResultIsGood
<1>3. CASE HandleIntermediateResultCrypto(p, m)
  BY <1>3, HandleCryptoBindingIsGood, RefusalIsGood DEF HandleIntermediateResultCrypto
<1>4. CASE HandleCryptoBinding(p, m)
  BY <1>4, HandleCryptoBindingIsGood
<1>5. CASE HandleIdentityType(p, m, {})
  BY <1>5, SmallTags, HandleIdentityTypeIsGood
<1>6. CASE HandleInnerEap(p, m, {})
  BY <1>6, SmallTags, HandleInnerEapIsGood
<1>7. CASE Answer(p, {"ack"})
  BY <1>7, SmallTags, AnswerIsGood
<1> QED
  BY <1>1, <1>2, <1>3, <1>4, <1>5, <1>6, <1>7 DEF DispatchTlvs

-----------------------------------------------------------------------------
(* The steps of the run *)

LEMMA InitIsInductive == Init => InductiveInv
<1> SUFFICES ASSUME Init PROVE InductiveInv
  OBVIOUS
<1>1. peer \in Peer
  BY DEF Init, InitPeer, Peer, States, NoInner, NoMschap, IdTypes, Creds
<1>2. ChainsFollowLegs(peer) /\ ResultFollowsBinding(peer)
  BY DEF Init, InitPeer, ChainsFollowLegs, ResultFollowsBinding
<1>3. PasswordFits(peer) /\ TunnelFits(peer)
  BY DEF Init, InitPeer, PasswordFits, TunnelFits, NoInner, NoMschap
<1> QED
  BY <1>1, <1>2, <1>3 DEF Init, InitPeer, InductiveInv, TypeOK, OffersFit

(* The handlers are called on the session as it is, or with the tunnel up. *)
LEMMA ProcessingIsLive ==
    ASSUME InductiveInv, Processing
    PROVE  LivePeer(peer) /\ LivePeer(Established)
<1>1. LivePeer(peer)
  BY DEF InductiveInv, TypeOK, Processing, Terminal, LivePeer, GoodPeer, Progress
<1>2. /\ Established \in Peer /\ Established.state = "TUNNEL_UP"
      /\ Same(peer, Established) /\ SameTunnel(peer, Established)
  BY <1>1 DEF Established, LivePeer, GoodPeer, Peer, States, Same, SameTunnel
<1>3. LivePeer(Established)
  BY <1>1, <1>2, SameIsGood DEF LivePeer
<1> QED
  BY <1>1, <1>3

LEMMA DataIsGood ==
    ASSUME InductiveInv, NEW m \in Messages, EarlyData(m) \/ TunnelData(m)
    PROVE  GoodStep
  BY ProcessingIsLive, DispatchIsGood, MessagesAssumption DEF EarlyData, TunnelData

LEMMA OuterStepIsGood ==
    ASSUME InductiveInv,
           \/ SendIdentity \/ RejectOrUnusable \/ IdentityRequest \/ TeapStart
           \/ FragmentAck \/ HandshakeContinue \/ HandshakeRefused \/ HandshakeDone
           \/ TunnelEmpty
    PROVE  GoodStep
<1>1. CASE SendIdentity
  <2>1. LivePeer(peer)
    BY <1>1 DEF SendIdentity, InductiveInv, TypeOK, LivePeer, GoodPeer, Progress
  <2> QED
    BY <1>1, <2>1, SmallTags, AnswerIsGood DEF SendIdentity
<1>2. CASE RejectOrUnusable
  BY <1>2, ProcessingIsLive, FailIsGood DEF RejectOrUnusable, LivePeer
<1>3. CASE IdentityRequest \/ FragmentAck \/ HandshakeContinue \/ TunnelEmpty
  <2>1. \E tag \in {"identity", "ack", "tls"} : Processing /\ Answer(peer, {tag})
    BY <1>3 DEF IdentityRequest, FragmentAck, HandshakeContinue, TunnelEmpty
  <2> QED
    BY <2>1, ProcessingIsLive, SmallTags, AnswerIsGood
<1>4. CASE TeapStart
  <2> DEFINE n == peer.tunnels + 1
             q == [peer EXCEPT !.state = "TLS_HANDSHAKE", !.outer = "handshake",
                               !.tunnels = n]
  <2>1. LivePeer(peer) /\ n \in Nat /\ Answer(q, {"hello"})
    BY <1>4, ProcessingIsLive DEF TeapStart, LivePeer, GoodPeer, Peer
  <2> HIDE DEF n
  <2>2. q \in Peer /\ q.state = "TLS_HANDSHAKE" /\ Same(peer, q) /\ SameTunnel(peer, q)
    BY <2>1 DEF LivePeer, GoodPeer, Peer, States, Same, SameTunnel
  <2> HIDE DEF q
  <2>3. LivePeer(q)
    BY <2>1, <2>2, SameIsGood DEF LivePeer
  <2> QED
    BY <2>1, <2>3, SmallTags, AnswerIsGood
<1>5. CASE HandshakeRefused
  <2> DEFINE q == [peer EXCEPT !.outer = "refused"]
  <2>1. LivePeer(peer) /\ Answer(q, {"alert"})
    BY <1>5, ProcessingIsLive DEF HandshakeRefused
  <2>2. q \in Peer /\ q.state = peer.state /\ Same(peer, q) /\ SameTunnel(peer, q)
    BY <2>1 DEF LivePeer, GoodPeer, Peer, Same, SameTunnel
  <2> HIDE DEF q
  <2>3. LivePeer(q)
    BY <2>1, <2>2, SameIsGood DEF LivePeer
  <2> QED
    BY <2>1, <2>3, SmallTags, AnswerIsGood
<1>6. CASE HandshakeDone
  BY <1>6, ProcessingIsLive, SmallTags, AnswerIsGood DEF HandshakeDone
<1> QED
  BY <1>1, <1>2, <1>3, <1>4, <1>5, <1>6

(* The two ways a run is over: the server's conclusion is accepted, or the run *)
(* is given up with the session as it was left.                                *)
Accepted == /\ Processing /\ peer.resultAck
            /\ peer' = [peer EXCEPT !.state = "DONE"]
            /\ out' = {} /\ outcome' = "success" /\ cfg' = cfg

GivenUp == /\ outcome = "running"
           /\ peer' = peer /\ out' = {} /\ outcome' = "failure" /\ cfg' = cfg

LEMMA EndOfRun ==
    ASSUME InductiveInv, AcceptSuccess \/ LastReply \/ RunRaises \/ OverallTimeout
    PROVE  GoodStep \/ Accepted \/ GivenUp
<1>1. CASE AcceptSuccess
  <2>1. peer \in Peer /\ LivePeer(peer) /\ Processing
    BY <1>1, ProcessingIsLive DEF AcceptSuccess, LivePeer, GoodPeer
  <2>2. CASE peer.resultAck
    BY <1>1, <2>1, <2>2 DEF AcceptSuccess, Return, Accepted, Peer
  <2>3. CASE ~peer.resultAck
    <3>1. Fail(peer)
      BY <1>1, <2>3 DEF AcceptSuccess, Fail
    <3> QED
      BY <2>1, <3>1, FailIsGood DEF LivePeer
  <2> QED
    BY <2>2, <2>3
<1>2. CASE LastReply
  BY <1>2 DEF LastReply, Return, GivenUp, InductiveInv
<1>3. CASE RunRaises \/ OverallTimeout
  BY <1>3 DEF RunRaises, OverallTimeout, GivenUp
<1> QED
  BY <1>1, <1>2, <1>3

LEMMA NextIsGood ==
    ASSUME InductiveInv, Next
    PROVE  GoodStep \/ Accepted \/ GivenUp
  BY DataIsGood, OuterStepIsGood, EndOfRun DEF Next

LEMMA NextIsInductive == InductiveInv /\ [Next]_vars => InductiveInv'
<1> SUFFICES ASSUME InductiveInv, [Next]_vars PROVE InductiveInv'
  OBVIOUS
<1>1. CASE GoodStep
  BY <1>1 DEF GoodStep, GoodPeer, InductiveInv, TypeOK, ChainsFollowLegs,
              ResultFollowsBinding, PasswordFits, TunnelFits, OffersFit, HasCredentialFor
<1>2. CASE Accepted
  <2>1. /\ peer' \in Peer /\ peer'.state = "DONE" /\ Same(peer, peer') /\ peer'.resultAck
    BY <1>2 DEF Accepted, InductiveInv, TypeOK, Peer, States, Same
  <2> QED
    BY <1>2, <2>1 DEF Accepted, Same, InductiveInv, TypeOK, ChainsFollowLegs,
                      ResultFollowsBinding, PasswordFits, OffersFit, HasCredentialFor
<1>3. CASE GivenUp
  BY <1>3 DEF GivenUp, InductiveInv, TypeOK, ChainsFollowLegs,
              ResultFollowsBinding, PasswordFits, TunnelFits, OffersFit, HasCredentialFor
<1>4. CASE UNCHANGED vars
  BY <1>4 DEF vars, InductiveInv, TypeOK, ChainsFollowLegs,
              ResultFollowsBinding, PasswordFits, TunnelFits, OffersFit, HasCredentialFor
<1> QED
  BY <1>1, <1>2, <1>3, <1>4, NextIsGood

-----------------------------------------------------------------------------
(* What one message may do *)

(* A Binding Request that is read is answered, or the run fails. *)
LEMMA BindingIsTakenUp ==
    ASSUME NEW p, LivePeer(p), NEW m \in TlvMessage, DispatchTlvs(p, m),
           ~m.unsup, m.cb # "none", ~(m.pac /\ m.res # "none")
    PROVE  Carries({"cb"})
<1>1. CASE HandleLastBindingAndResult(p, m) \/ HandleFinalResult(p, m)
  BY <1>1, HandleBindingAndResultIsGood
<1>2. CASE HandleIntermediateResultCrypto(p, m)
  BY <1>2, HandleCryptoBindingIsGood, RefusalIsGood
  DEF HandleIntermediateResultCrypto, Carries
<1>3. CASE HandleCryptoBinding(p, m)
  BY <1>3, HandleCryptoBindingIsGood
<1> QED
  BY <1>1, <1>2, <1>3 DEF DispatchTlvs

(* A MAC that does not verify leaves nothing bound, and no other handler       *)
(* reads the binding.                                                          *)
LEMMA BadMacIsRefused ==
    ASSUME NEW p, LivePeer(p), NEW m \in TlvMessage, DispatchTlvs(p, m),
           m.cb = "request", m.msk = "bad"
    PROVE  \/ peer'.state = "FAILED"
           \/ /\ peer'.rounds = p.rounds /\ peer'.legs = p.legs
              /\ peer'.resultAck = p.resultAck /\ "cb" \notin out'
<1>1. BoundPeers(p, m) = {}
  BY DEF BoundPeers, MacsVerify
<1>2. CASE UnsupportedTlv(p, m)
  BY <1>2, RefusalIsGood DEF UnsupportedTlv, Answer
<1>3. CASE HandleResultPac(p, m)
  <2>1. CASE AnswerFailure(p)
    BY <2>1, RefusalIsGood
  <2>2. CASE Answer([p EXCEPT !.state = "RESULT_PAC"], {"res+"})
    BY <2>2 DEF Answer, LivePeer, GoodPeer, Peer
  <2> QED
    BY <1>3, <2>1, <2>2 DEF HandleResultPac
<1>4. CASE HandleLastBindingAndResult(p, m) \/ HandleFinalResult(p, m)
  BY <1>1, <1>4, HandleBindingAndResultIsGood
<1>5. CASE HandleIntermediateResultCrypto(p, m)
  BY <1>1, <1>5, HandleCryptoBindingIsGood, RefusalIsGood DEF HandleIntermediateResultCrypto
<1>6. CASE HandleCryptoBinding(p, m)
  BY <1>1, <1>6, HandleCryptoBindingIsGood
<1> QED
  BY <1>2, <1>3, <1>4, <1>5, <1>6 DEF DispatchTlvs

(* A Result(Failure) is answered with a failure by every handler that may get  *)
(* it when no next method comes with it.                                       *)
LEMMA FailureIsHeeded ==
    ASSUME NEW p, LivePeer(p), NEW m \in TlvMessage, DispatchTlvs(p, m),
           m.res = "failure", m.idt = "none", m.eap = "none"
    PROVE  peer'.state = "FAILED"
<1>1. CASE Fatal(p) \/ AnswerFailure(p)
  BY <1>1, RefusalIsGood
<1>2. CASE HandleLastBindingAndResult(p, m) \/ HandleFinalResult(p, m)
  BY <1>2, HandleBindingAndResultIsGood
<1> QED
  BY <1>1, <1>2 DEF DispatchTlvs, UnsupportedTlv, HandleResultPac, HandleResultAlone

-----------------------------------------------------------------------------
(* Theorems *)

(* Every reachable state satisfies the inductive invariant: a TEAPSession is   *)
(* in one of its states, its S-IMCK chains follow its inner methods, it has    *)
(* acknowledged a Result only after a binding, it used only its own passwords, *)
(* it is DONE exactly when its run has succeeded, and after a Result(Failure)  *)
(* it is FAILED.                                                               *)
THEOREM Invariance == Spec => []InductiveInv
<1> QED
  BY InitIsInductive, NextIsInductive, PTL DEF Spec

(* Type correctness: no order of server messages takes an attribute of         *)
(* TEAPSession out of its range.                                               *)
THEOREM TypeCorrectness == Spec => []TypeOK
<1>1. InductiveInv => TypeOK
  BY DEF InductiveInv
<1> QED
  BY <1>1, Invariance, PTL

(* A run that succeeds has verified a Crypto-Binding and acknowledged the      *)
(* protected Result (_accept_success): DONE is reached only with resultAck,    *)
(* which only a bound session sets.                                            *)
THEOREM ProtectedSuccess == Spec => []SuccessIsProtected
<1>1. InductiveInv => SuccessIsProtected
  BY DEF InductiveInv, TypeOK, SuccessIsProtected, ResultFollowsBinding
<1> QED
  BY <1>1, Invariance, PTL

(* The chains advance at most once per inner method (_bind), however often the *)
(* server repeats a Binding Request.                                           *)
THEOREM OneRoundPerMethodAlways == Spec => []OneRoundPerMethod
<1>1. InductiveInv => OneRoundPerMethod
  BY DEF InductiveInv, OneRoundPerMethod
<1> QED
  BY <1>1, Invariance, PTL

(* No credential is used for the leg it is not configured for, and none is     *)
(* offered that does not exist (_password_for_current_identity,                *)
(* _handle_identity_type), whatever the server asks for.                       *)
THEOREM NoBorrowedIdentityEver == Spec => []NoBorrowedIdentity
<1>1. InductiveInv => NoBorrowedIdentity
  BY DEF InductiveInv, NoBorrowedIdentity
<1> QED
  BY <1>1, Invariance, PTL

(* No step leads out of a refusal: a session that has failed, or has sent      *)
(* Result(Failure), stays FAILED (_fatal, _answer_failure and the run loop).   *)
THEOREM RefusalStays == Spec => RefusalIsFinal
<1> DEFINE Stays == ("res-" \in out \/ peer.state = "FAILED")
                      => peer'.state = "FAILED" /\ outcome' # "success"
<1>1. InductiveInv /\ [Next]_vars => [Stays]_vars
  <2> SUFFICES ASSUME InductiveInv, Next, "res-" \in out \/ peer.state = "FAILED"
               PROVE  peer'.state = "FAILED" /\ outcome' # "success"
    OBVIOUS
  <2>1. peer.state = "FAILED"
    BY DEF InductiveInv
  <2>2. ~Processing /\ outcome # "idle"
    BY <2>1 DEF Processing, Terminal, InductiveInv
  <2>3. LastReply \/ RunRaises \/ OverallTimeout
    BY <2>2 DEF Next, SendIdentity, AcceptSuccess, RejectOrUnusable, IdentityRequest,
                TeapStart, FragmentAck, HandshakeContinue, HandshakeRefused, HandshakeDone,
                EarlyData, TunnelData, TunnelEmpty
  <2> QED
    BY <2>1, <2>3 DEF LastReply, Return, RunRaises, OverallTimeout
<1> QED
  BY <1>1, Invariance, PTL DEF Spec, RefusalIsFinal

(* Whatever the server sends with a Binding Request that is read, the next     *)
(* packet answers it or the run fails (extra_response of _bind's callers).     *)
THEOREM BindingAlwaysAnswered == Spec => BindingIsAnswered
<1> DEFINE Answered == ("cb" \notin out' /\ peer'.state # "FAILED")
                         => ~Dispatches(BindingRequests)
<1>1. InductiveInv => [Answered]_vars
  <2> SUFFICES ASSUME InductiveInv, NEW m \in BindingRequests, EarlyData(m) \/ TunnelData(m)
               PROVE  "cb" \in out' \/ peer'.state = "FAILED"
    BY DEF Dispatches
  <2>1. m \in TlvMessage
    BY MessagesAssumption DEF BindingRequests
  <2>2. Carries({"cb"})
    BY <2>1, ProcessingIsLive, BindingIsTakenUp DEF BindingRequests, EarlyData, TunnelData
  <2> QED
    BY <2>2 DEF Carries
<1> QED
  BY <1>1, Invariance, PTL DEF BindingIsAnswered

(* A wrong MSK Compound MAC is never accepted (_verify_compound_macs): nothing *)
(* is derived, bound, concluded or answered, or the run fails.                 *)
THEOREM BadMacAlwaysFails == Spec => BadMacEndsRun
<1> DEFINE Refused == (/\ peer'.state # "FAILED"
                       /\ \/ peer'.rounds # peer.rounds
                          \/ peer'.legs # peer.legs
                          \/ peer'.resultAck # peer.resultAck
                          \/ "cb" \in out')
                         => ~Dispatches(BadMacs)
<1>1. InductiveInv => [Refused]_vars
  <2> SUFFICES ASSUME InductiveInv, NEW m \in BadMacs, EarlyData(m) \/ TunnelData(m),
                      peer'.state # "FAILED"
               PROVE  /\ peer'.rounds = peer.rounds /\ peer'.legs = peer.legs
                      /\ peer'.resultAck = peer.resultAck /\ "cb" \notin out'
    BY DEF Dispatches
  <2>1. m \in TlvMessage
    BY MessagesAssumption DEF BadMacs
  <2>2. PICK p \in {peer, Established} : LivePeer(p) /\ DispatchTlvs(p, m)
    BY ProcessingIsLive DEF EarlyData, TunnelData
  <2>3. p.rounds = peer.rounds /\ p.legs = peer.legs /\ p.resultAck = peer.resultAck
    BY <2>2 DEF Established, InductiveInv, TypeOK, Peer
  <2>4. m.cb = "request" /\ m.msk = "bad"
    BY DEF BadMacs
  <2>5. \/ peer'.state = "FAILED"
        \/ /\ peer'.rounds = p.rounds /\ peer'.legs = p.legs
           /\ peer'.resultAck = p.resultAck /\ "cb" \notin out'
    BY <2>1, <2>2, <2>4, BadMacIsRefused
  <2> QED
    BY <2>3, <2>5
<1> QED
  BY <1>1, Invariance, PTL DEF BadMacEndsRun

(* The server's Result(Failure) always ends the run (dispatch and its Result   *)
(* handlers), unless it comes with a next method.                              *)
THEOREM ServerFailureAlwaysHeeded == Spec => ServerFailureIsHeeded
<1> DEFINE Heeded == peer'.state # "FAILED" => ~Dispatches(ServerFailures)
<1>1. InductiveInv => [Heeded]_vars
  <2> SUFFICES ASSUME InductiveInv, NEW m \in ServerFailures, EarlyData(m) \/ TunnelData(m)
               PROVE  peer'.state = "FAILED"
    BY DEF Dispatches
  <2>1. m \in TlvMessage
    BY MessagesAssumption DEF ServerFailures
  <2> QED
    BY <2>1, ProcessingIsLive, FailureIsHeeded DEF ServerFailures, EarlyData, TunnelData
<1> QED
  BY <1>1, Invariance, PTL DEF ServerFailureIsHeeded

(* The conversation implements AuthRun: to whoever started it, a run is        *)
(* Begin, then Converse for every message taken up, then Succeed or GiveUp.    *)
(* What makes a message a Converse is GoodStep: bindings and acknowledgements  *)
(* are never taken back, and none is acknowledged without a binding.           *)
THEOREM PeerImplementsRun == Spec => ImplementsRun
<1>1. Init => Run!Init
  BY DEF Init, InitPeer, Run!Init
<1>2. InductiveInv /\ [Next]_vars => [Run!Next]_Run!vars
  <2> SUFFICES ASSUME InductiveInv, [Next]_vars PROVE [Run!Next]_Run!vars
    OBVIOUS
  <2>1. CASE SendIdentity
    BY <2>1 DEF SendIdentity, Answer, Run!Next, Run!Begin
  <2>2. CASE GoodStep /\ Processing
    <3>1. peer.state # "FAILED" /\ outcome = "running"
      BY <2>2 DEF Processing, Terminal
    <3>2. /\ peer.cbDone \in BOOLEAN /\ peer.resultAck \in BOOLEAN
          /\ peer'.cbDone \in BOOLEAN /\ peer'.resultAck \in BOOLEAN
      BY <2>2 DEF GoodStep, GoodPeer, InductiveInv, TypeOK, Peer
    <3>3. /\ peer'.cbDone \in {peer.cbDone, TRUE}
          /\ peer'.resultAck \in {peer.resultAck, peer'.cbDone}
      BY <2>2, <3>2 DEF GoodStep, GoodPeer, Progress, ResultFollowsBinding
    <3>4. outcome' \in {"running", "failure"}
      BY <2>2 DEF GoodStep
    <3> QED
      BY <3>1, <3>3, <3>4 DEF Run!Next, Run!Converse
  <2>3. CASE Accepted
    <3>1. peer'.cbDone = peer.cbDone /\ peer'.resultAck = peer.resultAck /\ peer'.state = "DONE"
      BY <2>3 DEF Accepted, InductiveInv, TypeOK, Peer
    <3> QED
      BY <2>3, <3>1 DEF Accepted, Processing, Terminal, InductiveInv, Run!Next, Run!Succeed
  <2>4. CASE GivenUp
    BY <2>4 DEF GivenUp, Run!Next, Run!GiveUp
  <2>5. CASE UNCHANGED vars
    BY <2>5 DEF vars, Run!vars
  <2>6. Next => SendIdentity \/ Processing \/ GivenUp
    BY DEF Next, AcceptSuccess, RejectOrUnusable, IdentityRequest, TeapStart, FragmentAck,
           HandshakeContinue, HandshakeRefused, HandshakeDone, EarlyData, TunnelData,
           TunnelEmpty, LastReply, Return, RunRaises, OverallTimeout, GivenUp, InductiveInv
  <2> QED
    BY <2>1, <2>2, <2>3, <2>4, <2>5, <2>6, NextIsGood
<1> QED
  BY <1>1, <1>2, Invariance, PTL DEF Spec, ImplementsRun, Run!Spec
=============================================================================
