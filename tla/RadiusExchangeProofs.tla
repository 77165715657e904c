------------------------ MODULE RadiusExchangeProofs ------------------------
(* Proofs about RadiusExchange for every number of sessions, ports,            *)
(* identifiers and attempts, and for every network the module allows.          *)
EXTENDS RadiusExchange, FiniteSetTheorems, TLAPS

-----------------------------------------------------------------------------
(* Packets and exchanges *)

LEMMA PacketFields ==
    ASSUME NEW r \in Packet
    PROVE  /\ r.port \in Ports /\ r.id \in Nat
           /\ r.auth[1] \in Sessions /\ r.auth[2] \in Nat
           /\ r.auth = <<r.auth[1], r.auth[2]>>
  BY DEF Packet

LEMMA NoneIsNoPacket == None \notin Packet
  BY DEF None, Packet

(* The parts of the invariant that speak of one session's losses. *)
LossesOf(t) == /\ ex[t].state = "waiting" => losses[t] + 1 >= ex[t].attempt
               /\ ex[t].state = "waiting" /\ ~InFlight(t) => losses[t] >= ex[t].attempt
               /\ ex[t].state = "expired" => losses[t] >= ex[t].attempt
               /\ ex[t].state = "no-answer" => losses[t] >= Retries

LEMMA LossesAreEachOnes ==
    (Patient => \A t \in Sessions : LossesOf(t)) <=> AttemptsAreLost /\ TimeoutMeansLoss
  BY DEF LossesOf, AttemptsAreLost, TimeoutMeansLoss

LEMMA LossesAreEachOnesNext ==
    (Patient' => \A t \in Sessions : LossesOf(t)') <=> AttemptsAreLost' /\ TimeoutMeansLoss'
  BY DEF LossesOf, AttemptsAreLost, TimeoutMeansLoss

-----------------------------------------------------------------------------
LEMMA InitMatches == Init => ExchangesMatch
<1> SUFFICES ASSUME Init PROVE ExchangesMatch
  OBVIOUS
<1>1. \A s \in Sessions : ex[s] = InitExchange
  BY DEF Init
<1>2. InitExchange \in Exchange
  BY SizesAssumption DEF InitExchange, Exchange
<1>3. TypeOK
  BY <1>2, FS_EmptySet DEF Init, TypeOK
<1>4. ClientMatches
  BY <1>1 DEF ClientMatches, InitExchange, Open, Waiting
<1>5. NetworkMatches /\ ServedOnce
  BY DEF Init, NetworkMatches, ServedOnce
<1>6. TakenInTurn
  <2>1. \A s \in Sessions : TakenOf(s) = 0
    <3> SUFFICES ASSUME NEW s \in Sessions PROVE TakenOf(s) = 0
      OBVIOUS
    <3>1. {r \in handled : r.auth[1] = s} = {}
      BY DEF Init
    <3> QED
      BY <3>1, FS_EmptySet DEF TakenOf
  <2> QED
    BY <1>1, <2>1 DEF TakenInTurn, InitExchange
<1>7. AttemptsAreLost /\ TimeoutMeansLoss
  BY <1>1 DEF AttemptsAreLost, TimeoutMeansLoss, InitExchange
<1> QED
  BY <1>3, <1>4, <1>5, <1>6, <1>7 DEF ExchangesMatch

-----------------------------------------------------------------------------
(* A session goes on with the packet it has: it may send it again, and hear    *)
(* and take what the server has sent; datagrams may reach their end.           *)
GoesOn(s, e) ==
    /\ e \in Exchange
    /\ ex' = [ex EXCEPT ![s] = e]
    /\ ex[s].n > 0 /\ e.n = ex[s].n /\ e.pkt = ex[s].pkt
    /\ e.state \in Waiting => Open(s)
    /\ e.state = "answered" => e.heard \in handled
    /\ e.state = "closed" => e.took \in handled /\ e.took.auth = <<s, e.n>>
    /\ requests' \subseteq requests \cup {e.pkt}
    /\ replies' \subseteq replies
    /\ losses' \in [Sessions -> Nat]
    /\ UNCHANGED <<handled, load>>

LEMMA GoingOnIsGood ==
    ASSUME ExchangesMatch, NEW s \in Sessions, NEW e, GoesOn(s, e)
    PROVE  TypeOK' /\ ClientMatches' /\ NetworkMatches' /\ TakenInTurn' /\ ServedOnce'
<1> USE DEF GoesOn
<1>1. /\ ex \in [Sessions -> Exchange] /\ ex' \in [Sessions -> Exchange]
      /\ ex'[s] = e /\ \A t \in Sessions \ {s} : ex'[t] = ex[t]
  BY DEF ExchangesMatch, TypeOK
<1>2. \A t \in Sessions : ex'[t].n = ex[t].n /\ ex'[t].pkt = ex[t].pkt
  BY <1>1
<1>3. e.pkt \in Packet /\ e.pkt.auth = <<s, e.n>> /\ e.n \in Nat
  BY DEF ExchangesMatch, ClientMatches, Exchange
<1>4. TypeOK'
  BY <1>1, <1>3 DEF ExchangesMatch, TypeOK
<1>5. ClientMatches'
  <2>1. \A t \in Sessions : Open(t)' => Open(t)
    BY <1>1 DEF Open
  <2>2. \A t \in Sessions \ {s} :
           /\ ex[t].state = "answered" => ex[t].heard \in handled'
           /\ ex[t].state = "closed" /\ ex[t].n > 0
                => ex[t].took \in handled' /\ ex[t].took.auth = <<t, ex[t].n>>
    BY DEF ExchangesMatch, ClientMatches
  <2>3. \A t \in Sessions :
           /\ ex'[t].state = "answered" => ex'[t].heard \in handled'
           /\ ex'[t].state = "closed" /\ ex'[t].n > 0
                => ex'[t].took \in handled' /\ ex'[t].took.auth = <<t, ex'[t].n>>
    BY <1>1, <2>2
  <2>4. \A t \in Sessions : ex'[t].n = 0 => ex'[t].state = "closed"
    BY <1>1, <1>3 DEF ExchangesMatch, ClientMatches
  <2>5. \A t \in Sessions :
           ex'[t].n > 0 => ex'[t].pkt \in Packet /\ ex'[t].pkt.auth = <<t, ex'[t].n>>
    BY <1>2 DEF ExchangesMatch, ClientMatches
  <2>6. \A t, u \in Sessions :
           Open(t)' /\ Open(u)' /\ ex'[t].pkt.port = ex'[u].pkt.port => t = u
    BY <1>2, <2>1 DEF ExchangesMatch, ClientMatches
  <2> QED
    BY <2>3, <2>4, <2>5, <2>6 DEF ClientMatches
<1>6. NetworkMatches'
  <2>1. replies' \subseteq handled'
    BY DEF ExchangesMatch, NetworkMatches
  <2>2. ASSUME NEW r \in requests' \cup handled'
        PROVE  /\ r.auth[2] \in 1 .. ex'[r.auth[1]].n
               /\ r.auth[2] = ex'[r.auth[1]].n => r = ex'[r.auth[1]].pkt
               /\ r \in handled' \/ r.auth[2] = ex'[r.auth[1]].n
    <3>1. CASE r \in requests \cup handled
      <4>1. r \in Packet
        BY <3>1 DEF ExchangesMatch, TypeOK
      <4>2. r.auth[1] \in Sessions
        BY <4>1, PacketFields
      <4> QED
        BY <1>2, <3>1, <4>2 DEF ExchangesMatch, NetworkMatches
    <3>2. CASE r = e.pkt
      <4>1. r.auth[1] = s /\ r.auth[2] = e.n
        BY <1>3, <3>2
      <4> QED
        BY <1>1, <1>3, <3>2, <4>1
    <3> QED
      BY <2>2, <3>1, <3>2
  <2> QED
    BY <2>1, <2>2 DEF NetworkMatches
<1>7. TakenInTurn'
  <2>1. \A t \in Sessions : TakenOf(t)' = TakenOf(t)
    BY DEF TakenOf
  <2> QED
    BY <1>2, <2>1 DEF ExchangesMatch, TakenInTurn
<1>8. ServedOnce'
  BY DEF ExchangesMatch, ServedOnce
<1> QED
  BY <1>4, <1>5, <1>6, <1>7, <1>8

(* The losses of the others: nothing of theirs reaches its end. *)
LEMMA OthersLoseNothing ==
    ASSUME ExchangesMatch, NEW s \in Sessions, UNCHANGED load,
           requests \subseteq requests', replies \subseteq replies',
           \A t \in Sessions \ {s} : ex'[t] = ex[t] /\ losses'[t] = losses[t],
           Patient => LossesOf(s)'
    PROVE  AttemptsAreLost' /\ TimeoutMeansLoss'
<1>1. Patient' = Patient
  BY DEF Patient
<1>2. ASSUME Patient, NEW t \in Sessions \ {s} PROVE LossesOf(t)'
  <2>1. LossesOf(t)
    BY <1>2, LossesAreEachOnes DEF ExchangesMatch
  <2>2. InFlight(t) => InFlight(t)'
    BY DEF InFlight
  <2> QED
    BY <2>1, <2>2 DEF LossesOf
<1> QED
  BY <1>1, <1>2, LossesAreEachOnesNext

-----------------------------------------------------------------------------
(* The client's steps *)

LEMMA ExchangeFields ==
    ASSUME ExchangesMatch, NEW s \in Sessions
    PROVE  /\ ex[s] \in Exchange /\ ex[s].n \in Nat /\ ex[s].attempt \in 0 .. Retries
           /\ losses[s] \in Nat /\ Retries \in Nat
           /\ ex[s].state # "closed" => ex[s].n > 0
  BY SizesAssumption DEF ExchangesMatch, TypeOK, ClientMatches, Exchange

(* All but the sending ones leave the network alone. *)
Silent(s, e) == /\ GoesOn(s, e)
                /\ UNCHANGED <<requests, replies, losses>>

LEMMA SilentIsGood ==
    ASSUME ExchangesMatch, NEW s \in Sessions, NEW e, Silent(s, e),
           e.state # "waiting",
           Patient /\ e.state = "expired" => losses[s] >= e.attempt,
           Patient /\ e.state = "no-answer" => losses[s] >= Retries
    PROVE  ExchangesMatch'
<1>1. TypeOK' /\ ClientMatches' /\ NetworkMatches' /\ TakenInTurn' /\ ServedOnce'
  BY GoingOnIsGood DEF Silent
<1>2. ex \in [Sessions -> Exchange] /\ ex' = [ex EXCEPT ![s] = e]
  BY DEF ExchangesMatch, TypeOK, Silent, GoesOn
<1>3. ex'[s] = e /\ \A t \in Sessions \ {s} : ex'[t] = ex[t]
  BY <1>2
<1>4. Patient => LossesOf(s)'
  BY <1>3 DEF Silent, LossesOf
<1>5. AttemptsAreLost' /\ TimeoutMeansLoss'
  BY <1>3, <1>4, OthersLoseNothing DEF Silent, GoesOn
<1> QED
  BY <1>1, <1>5 DEF ExchangesMatch

LEMMA ExpireIsGood ==
    ASSUME ExchangesMatch, NEW s \in Sessions, Expire(s) PROVE ExchangesMatch'
<1> DEFINE e == [ex[s] EXCEPT !.state = "expired"]
<1>1. ex[s] \in Exchange /\ ex[s].n > 0 /\ ex[s].state = "waiting"
  BY ExchangeFields DEF Expire
<1>2. /\ e \in Exchange /\ e.state = "expired" /\ e.n = ex[s].n /\ e.pkt = ex[s].pkt
      /\ e.attempt = ex[s].attempt
  BY <1>1 DEF Exchange, Waiting
<1>3. ex' = [ex EXCEPT ![s] = e] /\ UNCHANGED <<requests, replies, handled, losses, load>>
  BY DEF Expire, ExchangesMatch, TypeOK
<1> HIDE DEF e
<1>4. Silent(s, e)
  BY <1>1, <1>2, <1>3 DEF Silent, GoesOn, Open, Waiting, ExchangesMatch, TypeOK
<1>5. Patient => losses[s] >= e.attempt
  BY <1>1, <1>2 DEF Expire, ExchangesMatch, AttemptsAreLost
<1> QED
  BY <1>2, <1>4, <1>5, SilentIsGood

LEMMA GiveUpIsGood ==
    ASSUME ExchangesMatch, NEW s \in Sessions, GiveUp(s) PROVE ExchangesMatch'
<1> DEFINE e == [ex[s] EXCEPT !.state = "no-answer"]
<1>1. ex[s] \in Exchange /\ ex[s].n > 0 /\ ex[s].state = "expired" /\ ex[s].attempt = Retries
  BY ExchangeFields DEF GiveUp, LastAttempt
<1>2. e \in Exchange /\ e.state = "no-answer" /\ e.n = ex[s].n /\ e.pkt = ex[s].pkt
  BY <1>1 DEF Exchange, Ended
<1>3. ex' = [ex EXCEPT ![s] = e] /\ UNCHANGED <<requests, replies, handled, losses, load>>
  BY DEF GiveUp, ExchangesMatch, TypeOK
<1> HIDE DEF e
<1>4. Silent(s, e)
  BY <1>1, <1>2, <1>3 DEF Silent, GoesOn, Open, Waiting, ExchangesMatch, TypeOK
<1>5. Patient => losses[s] >= Retries
  BY <1>1 DEF ExchangesMatch, AttemptsAreLost
<1> QED
  BY <1>2, <1>4, <1>5, SilentIsGood

LEMMA FailIsGood ==
    ASSUME ExchangesMatch, NEW s \in Sessions, ErrorReceived(s) \/ RaiseError(s) \/ Cancel(s)
    PROVE  ExchangesMatch'
<1>1. PICK st \in {"error", "os-error", "cancelled"} : ex' = [ex EXCEPT ![s].state = st]
  BY DEF ErrorReceived, RaiseError, Cancel
<1> DEFINE e == [ex[s] EXCEPT !.state = st]
<1>2. Open(s)
  BY DEF ErrorReceived, RaiseError, Cancel, Open, Waiting
<1>3. ex[s] \in Exchange /\ ex[s].n > 0
  BY <1>2, ExchangeFields DEF Open, Waiting
<1>4. e \in Exchange /\ e.state = st /\ e.n = ex[s].n /\ e.pkt = ex[s].pkt
  BY <1>3 DEF Exchange, Ended, Waiting
<1>5. ex' = [ex EXCEPT ![s] = e] /\ UNCHANGED <<requests, replies, handled, losses, load>>
  BY <1>1 DEF ErrorReceived, RaiseError, Cancel, ExchangesMatch, TypeOK
<1> HIDE DEF e
<1>6. Silent(s, e)
  BY <1>2, <1>3, <1>4, <1>5 DEF Silent, GoesOn, ExchangesMatch, TypeOK
<1> QED
  BY <1>4, <1>6, SilentIsGood

LEMMA ProcessReplyIsGood ==
    ASSUME ExchangesMatch, NEW s \in Sessions, ProcessReply(s) PROVE ExchangesMatch'
<1> DEFINE e == IF Verified(s, ex[s].heard)
                THEN [ex[s] EXCEPT !.state = "closed", !.took = ex[s].heard]
                ELSE [ex[s] EXCEPT !.state = "mismatch"]
<1>1. ex[s] \in Exchange /\ ex[s].n > 0 /\ ex[s].state = "answered"
  BY ExchangeFields DEF ProcessReply
<1>2. ex[s].heard \in handled /\ ex[s].pkt.auth = <<s, ex[s].n>>
  BY <1>1 DEF ExchangesMatch, ClientMatches
<1>3. ex[s].heard \in Packet
  BY <1>2 DEF ExchangesMatch, TypeOK
<1>4. /\ e \in Exchange /\ e.n = ex[s].n /\ e.pkt = ex[s].pkt
      /\ e.state \in {"closed", "mismatch"}
      /\ e.state = "closed" => e.took \in handled /\ e.took.auth = <<s, e.n>>
  <2>1. CASE Verified(s, ex[s].heard)
    BY <1>1, <1>2, <1>3, <2>1 DEF Exchange, Verified
  <2>2. CASE ~Verified(s, ex[s].heard)
    BY <1>1, <2>2 DEF Exchange, Ended
  <2> QED
    BY <2>1, <2>2
<1>5. ex' = [ex EXCEPT ![s] = e] /\ UNCHANGED <<requests, replies, handled, losses, load>>
  BY DEF ProcessReply, ExchangesMatch, TypeOK
<1> HIDE DEF e
<1>6. Silent(s, e)
  BY <1>1, <1>4, <1>5 DEF Silent, GoesOn, Waiting, ExchangesMatch, TypeOK
<1> QED
  BY <1>4, <1>6, SilentIsGood

(* A datagram that is sent is in flight, or lost. *)
LEMMA TransmitLoses ==
    ASSUME ExchangesMatch, NEW s \in Sessions, NEW pkt, NEW before \in Nat,
           Transmit(s, pkt, before), replies' = replies, UNCHANGED load,
           ex'[s].pkt = pkt, ex'[s].state = "waiting", ex'[s].attempt \in Nat,
           Patient => before + 1 >= ex'[s].attempt
    PROVE  /\ Patient => LossesOf(s)'
           /\ requests \subseteq requests' /\ requests' \subseteq requests \cup {pkt}
           /\ losses' \in [Sessions -> Nat]
           /\ \A t \in Sessions \ {s} : losses'[t] = losses[t]
<1>1. losses \in [Sessions -> Nat]
  BY DEF ExchangesMatch, TypeOK
<1>2. CASE requests' = requests \cup {pkt} /\ losses' = [losses EXCEPT ![s] = before]
  <2>1. losses'[s] = before
    BY <1>1, <1>2
  <2>2. InFlight(s)'
    BY <1>2 DEF InFlight
  <2>3. Patient => LossesOf(s)'
    BY <2>1, <2>2 DEF LossesOf
  <2> QED
    BY <1>1, <1>2, <2>3
<1>3. CASE losses' = [losses EXCEPT ![s] = before + 1] /\ UNCHANGED requests
  <2>1. losses'[s] = before + 1 /\ losses'[s] \in Nat
    BY <1>1, <1>3
  <2>3. Patient => LossesOf(s)'
    BY <2>1 DEF LossesOf
  <2> QED
    BY <1>1, <1>3, <2>3
<1> QED
  BY <1>2, <1>3 DEF Transmit

LEMMA RetransmitIsGood ==
    ASSUME ExchangesMatch, NEW s \in Sessions, Retransmit(s) PROVE ExchangesMatch'
<1> DEFINE e == [ex[s] EXCEPT !.state = "waiting", !.attempt = ex[s].attempt + 1]
<1>1. /\ ex[s] \in Exchange /\ ex[s].n > 0 /\ ex[s].state = "expired"
      /\ ex[s].attempt \in 0 .. Retries /\ ex[s].attempt # Retries
      /\ losses[s] \in Nat /\ Retries \in Nat
  BY ExchangeFields DEF Retransmit, LastAttempt
<1>0. ex[s].attempt + 1 \in 0 .. Retries
  BY <1>1
<1>2. /\ e \in Exchange /\ e.state = "waiting" /\ e.n = ex[s].n /\ e.pkt = ex[s].pkt
      /\ e.attempt = ex[s].attempt + 1
  BY <1>0, <1>1 DEF Exchange, Waiting
<1>3. /\ ex' = [ex EXCEPT ![s] = e] /\ UNCHANGED <<replies, handled, load>>
      /\ Transmit(s, e.pkt, losses[s])
  BY <1>2 DEF Retransmit, ExchangesMatch, TypeOK
<1> HIDE DEF e
<1>4. ex'[s] = e /\ \A t \in Sessions \ {s} : ex'[t] = ex[t]
  BY <1>3 DEF ExchangesMatch, TypeOK
<1>5. Patient => losses[s] + 1 >= e.attempt
  BY <1>1, <1>2 DEF ExchangesMatch, AttemptsAreLost
<1>6. /\ Patient => LossesOf(s)'
      /\ requests \subseteq requests' /\ requests' \subseteq requests \cup {e.pkt}
      /\ losses' \in [Sessions -> Nat]
      /\ \A t \in Sessions \ {s} : losses'[t] = losses[t]
  BY <1>1, <1>2, <1>3, <1>4, <1>5, TransmitLoses
<1>7. GoesOn(s, e)
  BY <1>1, <1>2, <1>3, <1>6 DEF GoesOn, Open, Waiting
<1>8. TypeOK' /\ ClientMatches' /\ NetworkMatches' /\ TakenInTurn' /\ ServedOnce'
  BY <1>7, GoingOnIsGood
<1>9. AttemptsAreLost' /\ TimeoutMeansLoss'
  BY <1>3, <1>4, <1>6, OthersLoseNothing
<1> QED
  BY <1>8, <1>9 DEF ExchangesMatch

(* What a session has sent before, when it is about to begin an exchange. *)
LEMMA AllIsTaken ==
    ASSUME ExchangesMatch, NEW s \in Sessions, ex[s].state = "closed"
    PROVE  /\ TakenOf(s) = ex[s].n
           /\ \A r \in requests \cup handled : r.auth[1] = s => r \in handled
<1>1. ex[s].n > 0 => ex[s].pkt \in handled
  <2> SUFFICES ASSUME ex[s].n > 0 PROVE ex[s].pkt \in handled
    OBVIOUS
  <2>1. ex[s].took \in handled /\ ex[s].took.auth = <<s, ex[s].n>>
    BY DEF ExchangesMatch, ClientMatches
  <2>2. ex[s].took = ex[s].pkt
    BY <2>1 DEF ExchangesMatch, NetworkMatches
  <2> QED
    BY <2>1, <2>2
<1>2. ex[s].n \in Nat
  BY ExchangeFields
<1>3. TakenOf(s) = ex[s].n
  BY <1>1, <1>2 DEF ExchangesMatch, TakenInTurn
<1>4. ASSUME NEW r \in requests \cup handled, r.auth[1] = s PROVE r \in handled
  <2>1. r.auth[2] \in 1 .. ex[s].n /\ (r.auth[2] = ex[s].n => r = ex[s].pkt)
    BY <1>4 DEF ExchangesMatch, NetworkMatches
  <2>2. r \in handled \/ r.auth[2] = ex[s].n
    BY <1>4 DEF ExchangesMatch, NetworkMatches
  <2> QED
    BY <1>1, <1>2, <2>1, <2>2
<1> QED
  BY <1>3, <1>4

LEMMA BeginIsGood ==
    ASSUME ExchangesMatch, NEW s \in Sessions, Begin(s) PROVE ExchangesMatch'
<1> DEFINE n == ex[s].n + 1
<1>1. PICK port \in Ports \ PortsInUse :
         LET pkt == [port |-> port, id |-> ex[s].radiusId, auth |-> <<s, n>>]
         IN  /\ ex' = [ex EXCEPT ![s] = [@ EXCEPT !.state = "waiting", !.n = n,
                                         !.radiusId = NextRadiusId(ex[s].radiusId),
                                         !.attempt = 1, !.pkt = pkt]]
             /\ Transmit(s, pkt, 0)
  BY DEF Begin
<1> DEFINE pkt == [port |-> port, id |-> ex[s].radiusId, auth |-> <<s, n>>]
           e == [ex[s] EXCEPT !.state = "waiting", !.n = n, !.radiusId = NextRadiusId(ex[s].radiusId),
                              !.attempt = 1, !.pkt = pkt]
<1>2. ex[s] \in Exchange /\ ex[s].n \in Nat /\ ex[s].radiusId \in Nat /\ ex[s].state = "closed"
  BY ExchangeFields DEF Begin, Exchange
<1>3. n \in Nat /\ n > 0 /\ n = ex[s].n + 1
  BY <1>2
<1>4. pkt \in Packet /\ pkt.auth = <<s, n>> /\ pkt.port = port
  BY <1>2, <1>3 DEF Packet
<1>5. NextRadiusId(ex[s].radiusId) \in 0 .. IdSpace - 1 /\ 1 \in 0 .. Retries
  BY <1>2, SizesAssumption DEF NextRadiusId
<1> HIDE DEF pkt, n
<1>6. e \in Exchange /\ e.state = "waiting" /\ e.n = n /\ e.attempt = 1 /\ e.pkt = pkt
  BY <1>2, <1>3, <1>4, <1>5 DEF Exchange, Waiting
<1>7. /\ ex' = [ex EXCEPT ![s] = e] /\ Transmit(s, pkt, 0)
      /\ UNCHANGED <<replies, handled, load>>
  <2>1. UNCHANGED <<replies, handled, load>>
    BY DEF Begin
  <2>2. Transmit(s, pkt, 0)
    BY <1>1 DEF pkt
  <2>3. ex' = [ex EXCEPT ![s] = [@ EXCEPT !.state = "waiting", !.n = n,
                                         !.radiusId = NextRadiusId(ex[s].radiusId),
                                         !.attempt = 1, !.pkt = pkt]]
    BY <1>1 DEF pkt
  <2> QED
    BY <2>1, <2>2, <2>3
<1> HIDE DEF e
<1>8. /\ ex' \in [Sessions -> Exchange] /\ ex'[s] = e
      /\ \A t \in Sessions \ {s} : ex'[t] = ex[t]
  BY <1>6, <1>7 DEF ExchangesMatch, TypeOK
<1>9. /\ Patient => LossesOf(s)'
      /\ requests \subseteq requests' /\ requests' \subseteq requests \cup {pkt}
      /\ losses' \in [Sessions -> Nat]
      /\ \A t \in Sessions \ {s} : losses'[t] = losses[t]
  BY <1>6, <1>7, <1>8, TransmitLoses
<1>10. /\ TakenOf(s) = ex[s].n
       /\ \A r \in requests \cup handled : r.auth[1] = s => r \in handled
  BY <1>2, AllIsTaken
<1>11. AttemptsAreLost' /\ TimeoutMeansLoss'
  BY <1>7, <1>8, <1>9, OthersLoseNothing
<1>12. TypeOK'
  BY <1>4, <1>7, <1>8, <1>9 DEF ExchangesMatch, TypeOK
<1>13. ClientMatches'
  <2>1. Open(s)' /\ \A t \in Sessions \ {s} : Open(t)' = Open(t)
    BY <1>6, <1>8 DEF Open, Waiting
  <2>2. \A t \in Sessions \ {s} : Open(t) => ex[t].pkt.port # pkt.port
    BY <1>4 DEF PortsInUse
  <2>3. \A t, u \in Sessions :
           Open(t)' /\ Open(u)' /\ ex'[t].pkt.port = ex'[u].pkt.port => t = u
    BY <1>6, <1>8, <2>1, <2>2 DEF ExchangesMatch, ClientMatches
  <2>4. \A t \in Sessions \ {s} :
          /\ ex'[t].n = 0 => ex'[t].state = "closed"
          /\ ex'[t].n > 0 => ex'[t].pkt \in Packet /\ ex'[t].pkt.auth = <<t, ex'[t].n>>
          /\ ex'[t].state = "answered" => ex'[t].heard \in handled'
          /\ ex'[t].state = "closed" /\ ex'[t].n > 0
                => ex'[t].took \in handled' /\ ex'[t].took.auth = <<t, ex'[t].n>>
    BY <1>7, <1>8 DEF ExchangesMatch, ClientMatches
  <2>5. /\ ex'[s].n > 0 /\ ex'[s].n # 0 /\ ex'[s].state = "waiting"
        /\ ex'[s].pkt \in Packet /\ ex'[s].pkt.auth = <<s, ex'[s].n>>
    BY <1>3, <1>4, <1>6, <1>8
  <2> QED
    BY <2>3, <2>4, <2>5 DEF ClientMatches
<1>14. NetworkMatches'
  <2>1. replies' \subseteq handled'
    BY <1>7 DEF ExchangesMatch, NetworkMatches
  <2>2. ASSUME NEW r \in requests' \cup handled'
        PROVE  /\ r.auth[2] \in 1 .. ex'[r.auth[1]].n
               /\ r.auth[2] = ex'[r.auth[1]].n => r = ex'[r.auth[1]].pkt
               /\ r \in handled' \/ r.auth[2] = ex'[r.auth[1]].n
    <3>1. CASE r = pkt
      <4>1. r.auth[1] = s /\ r.auth[2] = n
        BY <1>4, <3>1
      <4> QED
        BY <1>3, <1>6, <1>8, <3>1, <4>1
    <3>2. CASE r \in requests \cup handled
      <4>1. r.auth[1] \in Sessions
        BY <3>2, PacketFields DEF ExchangesMatch, TypeOK
      <4>2. /\ r.auth[2] \in 1 .. ex[r.auth[1]].n
            /\ r.auth[2] = ex[r.auth[1]].n => r = ex[r.auth[1]].pkt
            /\ r \in handled \/ r.auth[2] = ex[r.auth[1]].n
        BY <3>2 DEF ExchangesMatch, NetworkMatches
      <4>3. CASE r.auth[1] = s
        <5>1. r \in handled' /\ ex'[r.auth[1]].n = ex[s].n + 1
          BY <1>3, <1>6, <1>7, <1>8, <1>10, <3>2, <4>3
        <5>2. r.auth[2] \in 1 .. ex[s].n
          BY <4>2, <4>3
        <5> QED
          BY <1>2, <5>1, <5>2
      <4>4. CASE r.auth[1] # s
        BY <1>7, <1>8, <4>1, <4>2, <4>4
      <4> QED
        BY <4>3, <4>4
    <3> QED
      BY <1>7, <1>9, <2>2, <3>1, <3>2
  <2> QED
    BY <2>1, <2>2 DEF NetworkMatches
<1>15. TakenInTurn'
  <2>1. \A t \in Sessions : TakenOf(t)' = TakenOf(t)
    BY <1>7 DEF TakenOf
  <2>2. pkt \notin handled
    <3> SUFFICES ASSUME pkt \in handled PROVE FALSE
      OBVIOUS
    <3>1. pkt.auth[2] \in 1 .. ex[pkt.auth[1]].n /\ pkt.auth[1] = s /\ pkt.auth[2] = n
      BY <1>4 DEF ExchangesMatch, NetworkMatches
    <3> QED
      BY <1>2, <1>3, <3>1
  <2>3. TakenOf(s)' = ex'[s].n - 1 /\ ex'[s].n # 0 /\ ex'[s].pkt \notin handled'
    BY <1>2, <1>3, <1>6, <1>7, <1>8, <1>10, <2>1, <2>2
  <2>4. \A t \in Sessions \ {s} :
          TakenOf(t)' = IF ex'[t].n = 0 \/ ex'[t].pkt \in handled' THEN ex'[t].n ELSE ex'[t].n - 1
    BY <1>7, <1>8, <2>1 DEF ExchangesMatch, TakenInTurn
  <2> QED
    BY <2>3, <2>4 DEF TakenInTurn
<1>16. ServedOnce'
  BY <1>7 DEF ExchangesMatch, ServedOnce
<1> QED
  BY <1>11, <1>12, <1>13, <1>14, <1>15, <1>16 DEF ExchangesMatch

-----------------------------------------------------------------------------
(* The network's steps *)

(* Whoever waits for a reply of his own takes it. *)
LEMMA DeliverReplyIsGood ==
    ASSUME ExchangesMatch, NEW r \in replies, DeliverReply(r) PROVE ExchangesMatch'
<1>1. r \in handled /\ r \in Packet
  BY DEF ExchangesMatch, NetworkMatches, TypeOK
<1>2. UNCHANGED <<requests, handled, losses, load>> /\ replies \ {r} \subseteq replies'
      /\ replies' \subseteq replies
  BY DEF DeliverReply, Delivered
<1>3. /\ TypeOK' /\ ClientMatches' /\ NetworkMatches' /\ TakenInTurn' /\ ServedOnce'
      /\ \A t \in Sessions : ex'[t] = ex[t] \/ (ex'[t].state = "answered" /\ ex'[t].pkt = ex[t].pkt)
      /\ \A t \in Sessions : ex[t].state = "waiting" /\ ex[t].pkt = r => ex'[t].state = "answered"
  <2>1. CASE r.port \notin PortsInUse /\ UNCHANGED ex
    <3>1. \A t \in Sessions : ex[t].state = "waiting" => ex[t].pkt # r
      BY <2>1 DEF PortsInUse, Open, Waiting
    <3>2. TypeOK'
      BY <1>2, <2>1 DEF ExchangesMatch, TypeOK
    <3>3. ClientMatches'
      BY <1>2, <2>1 DEF ExchangesMatch, ClientMatches, Open
    <3>4. NetworkMatches' /\ ServedOnce'
      BY <1>2, <2>1 DEF ExchangesMatch, NetworkMatches, ServedOnce
    <3>5. TakenInTurn'
      BY <1>2, <2>1 DEF ExchangesMatch, TakenInTurn, TakenOf
    <3> QED
      BY <2>1, <3>1, <3>2, <3>3, <3>4, <3>5
  <2>2. ASSUME NEW s \in Sessions, DatagramReceived(s, r)
        PROVE  /\ TypeOK' /\ ClientMatches' /\ NetworkMatches' /\ TakenInTurn' /\ ServedOnce'
               /\ \A t \in Sessions : \/ ex'[t] = ex[t]
                                      \/ ex'[t].state = "answered" /\ ex'[t].pkt = ex[t].pkt
               /\ \A t \in Sessions :
                      ex[t].state = "waiting" /\ ex[t].pkt = r => ex'[t].state = "answered"
    <3> DEFINE e == IF Expected(s, r) /\ ex[s].state = "waiting"
                    THEN [ex[s] EXCEPT !.state = "answered", !.heard = r] ELSE ex[s]
    <3>1. Open(s) /\ ex[s].pkt.port = r.port /\ ex[s].n > 0 /\ ex[s] \in Exchange
      BY <2>2, ExchangeFields DEF DatagramReceived, Open, Waiting
    <3>2. /\ e \in Exchange /\ e.n = ex[s].n /\ e.pkt = ex[s].pkt
          /\ e = ex[s] \/ (e.state = "answered" /\ e.heard = r)
      BY <1>1, <3>1 DEF Exchange, Waiting
    <3>3. ex' = [ex EXCEPT ![s] = e]
      <4>1. ex = [ex EXCEPT ![s] = ex[s]]
        BY DEF ExchangesMatch, TypeOK
      <4> QED
        BY <2>2, <4>1 DEF DatagramReceived
    <3>4. ex[s].state = "waiting" /\ ex[s].pkt = r => e.state = "answered"
      BY <3>1 DEF Expected, Exchange
    <3> HIDE DEF e
    <3>5. ex'[s] = e /\ \A t \in Sessions \ {s} : ex'[t] = ex[t]
      BY <3>3 DEF ExchangesMatch, TypeOK
    <3>6. GoesOn(s, e)
      <4>1. ex[s].state = "answered" => ex[s].heard \in handled
        BY DEF ExchangesMatch, ClientMatches
      <4>2. e.state # "closed"
        BY <3>1, <3>2 DEF Open, Waiting
      <4>3. losses' \in [Sessions -> Nat] /\ requests' \subseteq requests \cup {e.pkt}
        BY <1>2 DEF ExchangesMatch, TypeOK
      <4> QED
        BY <1>1, <1>2, <3>1, <3>2, <3>3, <4>1, <4>2, <4>3 DEF GoesOn
    <3>7. TypeOK' /\ ClientMatches' /\ NetworkMatches' /\ TakenInTurn' /\ ServedOnce'
      BY <3>6, GoingOnIsGood
    <3>8. \A t \in Sessions : ex[t].state = "waiting" /\ ex[t].pkt = r => t = s
      BY <3>1 DEF ExchangesMatch, ClientMatches, Open, Waiting
    <3>9. \A t \in Sessions :
             ex'[t] = ex[t] \/ (ex'[t].state = "answered" /\ ex'[t].pkt = ex[t].pkt)
      BY <3>2, <3>5
    <3> QED
      BY <3>4, <3>5, <3>7, <3>8, <3>9
  <2> QED
    BY <2>1, <2>2 DEF DeliverReply
<1>4. ASSUME Patient', NEW t \in Sessions PROVE LossesOf(t)'
  <2>1. LossesOf(t)
    BY <1>2, <1>4, LossesAreEachOnes DEF ExchangesMatch, Patient
  <2>2. CASE ex'[t].state = "answered"
    BY <2>2 DEF LossesOf
  <2>3. CASE ex'[t] = ex[t] /\ ex[t].state = "waiting"
    <3>1. ex[t].pkt # r
      BY <1>3, <2>3
    <3>2. ex[t].n > 0 /\ ex[t].pkt.auth = <<t, ex[t].n>>
      BY <2>3, ExchangeFields DEF ExchangesMatch, ClientMatches
    <3>3. r.auth # ex[t].pkt.auth
      BY <1>1, <3>1, <3>2 DEF ExchangesMatch, NetworkMatches
    <3>4. InFlight(t) => InFlight(t)'
      BY <1>2, <2>3, <3>3 DEF InFlight
    <3> QED
      BY <1>2, <2>1, <2>3, <3>4 DEF LossesOf
  <2>4. CASE ex'[t] = ex[t] /\ ex[t].state # "waiting"
    BY <1>2, <2>1, <2>4 DEF LossesOf
  <2> QED
    BY <1>3, <2>2, <2>3, <2>4
<1> QED
  BY <1>3, <1>4, LossesAreEachOnesNext DEF ExchangesMatch

(* What the server takes as new is the current packet of its session. *)
LEMMA NewIsCurrent ==
    ASSUME ExchangesMatch, NEW r \in requests, r \notin handled
    PROVE  /\ r.auth[1] \in Sessions /\ r = ex[r.auth[1]].pkt
           /\ ex[r.auth[1]].n > 0
           /\ TakenOf(r.auth[1]) = ex[r.auth[1]].n - 1
<1>1. r.auth[1] \in Sessions
  BY PacketFields DEF ExchangesMatch, TypeOK
<1>2. /\ r.auth[2] \in 1 .. ex[r.auth[1]].n /\ r = ex[r.auth[1]].pkt
  BY DEF ExchangesMatch, NetworkMatches
<1>3. ex[r.auth[1]].n \in Nat
  BY <1>1, ExchangeFields
<1>4. ex[r.auth[1]].n > 0
  BY <1>2, <1>3
<1> QED
  BY <1>1, <1>2, <1>3, <1>4 DEF ExchangesMatch, TakenInTurn

LEMMA OneMoreIsTaken ==
    ASSUME ExchangesMatch, NEW r \in requests, handled' = handled \cup {r}, NEW t \in Sessions
    PROVE  /\ IsFiniteSet(handled')
           /\ TakenOf(t)' = IF r \notin handled /\ t = r.auth[1] THEN TakenOf(t) + 1 ELSE TakenOf(t)
<1> DEFINE Taken == {q \in handled : q.auth[1] = t}
<1>1. IsFiniteSet(handled) /\ IsFiniteSet(handled')
  BY FS_AddElement DEF ExchangesMatch, TypeOK
<1>2. IsFiniteSet(Taken)
  BY <1>1, FS_Subset
<1>3. CASE r \notin handled /\ t = r.auth[1]
  <2>1. {q \in handled' : q.auth[1] = t} = Taken \cup {r} /\ r \notin Taken
    BY <1>3
  <2> HIDE DEF Taken
  <2>2. Cardinality(Taken \cup {r}) = Cardinality(Taken) + 1
    BY <1>2, <2>1, FS_AddElement
  <2>3. TakenOf(t)' = Cardinality(Taken \cup {r})
    BY <2>1 DEF TakenOf
  <2>4. TakenOf(t) = Cardinality(Taken)
    BY DEF TakenOf, Taken
  <2> QED
    BY <1>1, <1>3, <2>2, <2>3, <2>4
<1>4. CASE ~(r \notin handled /\ t = r.auth[1])
  <2>1. {q \in handled' : q.auth[1] = t} = Taken
    BY <1>4
  <2> QED
    BY <1>1, <1>4, <2>1 DEF TakenOf
<1> QED
  BY <1>3, <1>4

LEMMA ServerReceivesIsGood ==
    ASSUME ExchangesMatch, NEW r \in requests, ServerReceives(r) PROVE ExchangesMatch'
<1>1. /\ handled' = handled \cup {r} /\ UNCHANGED <<ex, load>>
      /\ requests' \subseteq requests /\ requests \ {r} \subseteq requests'
      /\ replies \subseteq replies' /\ replies' \subseteq replies \cup {r}
  BY DEF ServerReceives, Delivered
<1>2. r \in Packet /\ losses \in [Sessions -> Nat] /\ r.auth[1] \in Sessions
  BY PacketFields DEF ExchangesMatch, TypeOK
<1>3. \/ replies' = replies \cup {r} /\ UNCHANGED losses
      \/ Patient /\ losses' = IF r.auth = ex[r.auth[1]].pkt.auth
                     THEN [losses EXCEPT ![r.auth[1]] = IF @ < Retries THEN @ + 1 ELSE @]
                     ELSE losses
  BY DEF ServerReceives
<1>4. TypeOK'
  <2>1. IsFiniteSet(handled')
    BY <1>1, FS_AddElement DEF ExchangesMatch, TypeOK
  <2>2. losses' \in [Sessions -> Nat]
    BY <1>2, <1>3
  <2> QED
    BY <1>1, <1>2, <2>1, <2>2 DEF ExchangesMatch, TypeOK
<1>5. ClientMatches'
  BY <1>1 DEF ExchangesMatch, ClientMatches, Open
<1>6. NetworkMatches'
  BY <1>1 DEF ExchangesMatch, NetworkMatches
<1>7. ServedOnce'
  <2> SUFFICES ASSUME NEW q \in handled, q.auth = r.auth PROVE q = r
    BY <1>1 DEF ExchangesMatch, ServedOnce
  <2>1. CASE r \in handled
    BY <2>1 DEF ExchangesMatch, ServedOnce
  <2>2. CASE r \notin handled
    <3>1. r = ex[r.auth[1]].pkt /\ r.auth[2] = ex[r.auth[1]].n
      BY <2>2 DEF ExchangesMatch, NetworkMatches
    <3> QED
      BY <3>1 DEF ExchangesMatch, NetworkMatches
  <2> QED
    BY <2>1, <2>2
<1>8. TakenInTurn'
  <2> SUFFICES ASSUME NEW t \in Sessions
               PROVE  TakenOf(t)' = IF ex[t].n = 0 \/ ex[t].pkt \in handled' THEN ex[t].n
                                    ELSE ex[t].n - 1
    BY <1>1 DEF TakenInTurn
  <2>1. TakenOf(t) = IF ex[t].n = 0 \/ ex[t].pkt \in handled THEN ex[t].n ELSE ex[t].n - 1
    BY DEF ExchangesMatch, TakenInTurn
  <2>2. ex[t].n \in Nat
    BY ExchangeFields
  <2>3. CASE r \notin handled /\ t = r.auth[1]
    BY <1>1, <2>2, <2>3, NewIsCurrent, OneMoreIsTaken
  <2>4. CASE ~(r \notin handled /\ t = r.auth[1])
    <3>1. TakenOf(t)' = TakenOf(t)
      BY <1>1, <2>4, OneMoreIsTaken
    <3>2. ex[t].n # 0 /\ ex[t].pkt = r => r \in handled
      BY <2>2, <2>4 DEF ExchangesMatch, ClientMatches
    <3> QED
      BY <1>1, <2>1, <3>1, <3>2
  <2> QED
    BY <2>3, <2>4
<1>9. ASSUME Patient', NEW t \in Sessions PROVE LossesOf(t)'
  <2>1. LossesOf(t)
    BY <1>1, <1>9, LossesAreEachOnes DEF ExchangesMatch, Patient
  <2>2. /\ ex[t].attempt \in 0 .. Retries /\ losses[t] \in Nat /\ Retries \in Nat
    BY ExchangeFields
  <2>3. CASE replies' = replies \cup {r} /\ UNCHANGED losses
    <3>1. InFlight(t) => InFlight(t)'
      BY <1>1, <2>3 DEF InFlight
    <3> QED
      BY <1>1, <2>1, <2>3, <3>1 DEF LossesOf
  <2>4. CASE losses' = [losses EXCEPT ![r.auth[1]] = IF @ < Retries THEN @ + 1 ELSE @]
             /\ t = r.auth[1]
    <3>1. losses'[t] = IF losses[t] < Retries THEN losses[t] + 1 ELSE losses[t]
      BY <1>2, <2>4
    <3> QED
      BY <1>1, <2>1, <2>2, <3>1 DEF LossesOf
  <2>5. CASE losses'[t] = losses[t] /\ (ex[t].state = "waiting" => r.auth # ex[t].pkt.auth)
    <3>1. ex[t].state = "waiting" /\ InFlight(t) => InFlight(t)'
      BY <1>1, <2>5 DEF InFlight
    <3> QED
      BY <1>1, <2>1, <2>5, <3>1 DEF LossesOf
  <2>6. r.auth = ex[t].pkt.auth /\ ex[t].state = "waiting" => t = r.auth[1]
    BY ExchangeFields DEF ExchangesMatch, ClientMatches
  <2>7. t # r.auth[1] => losses'[t] = losses[t]
    BY <1>2, <1>3
  <2> QED
    BY <1>3, <2>3, <2>4, <2>5, <2>6, <2>7
<1> QED
  BY <1>4, <1>5, <1>6, <1>7, <1>8, <1>9, LossesAreEachOnesNext DEF ExchangesMatch

-----------------------------------------------------------------------------
ClientStep(s) == \/ Begin(s) \/ Expire(s) \/ Retransmit(s) \/ GiveUp(s)
                 \/ ProcessReply(s) \/ ErrorReceived(s) \/ RaiseError(s) \/ Cancel(s)

LEMMA NextMatches == ExchangesMatch /\ [Next]_vars => ExchangesMatch'
<1> SUFFICES ASSUME ExchangesMatch, [Next]_vars PROVE ExchangesMatch'
  OBVIOUS
<1>1. ASSUME NEW s \in Sessions, ClientStep(s) PROVE ExchangesMatch'
  BY <1>1, BeginIsGood, ExpireIsGood, RetransmitIsGood, GiveUpIsGood, ProcessReplyIsGood,
     FailIsGood DEF ClientStep
<1>2. ASSUME NEW r \in requests, ServerReceives(r) PROVE ExchangesMatch'
  BY <1>2, ServerReceivesIsGood
<1>3. ASSUME NEW r \in replies, DeliverReply(r) PROVE ExchangesMatch'
  BY <1>3, DeliverReplyIsGood
<1>4. CASE UNCHANGED vars
  BY <1>4 DEF vars, ExchangesMatch, TypeOK, ClientMatches, NetworkMatches, TakenInTurn, TakenOf,
              AttemptsAreLost, ServedOnce, TimeoutMeansLoss, Open, InFlight, Patient
<1> QED
  BY <1>1, <1>2, <1>3, <1>4 DEF Next, ClientStep

-----------------------------------------------------------------------------
(* Identifiers count the exchanges *)

LEMMA NumbersAreCounted ==
    /\ Counted(0, 0)
    /\ \A m \in Nat, id \in 0 .. IdSpace - 1 :
          Counted(m, id) => Counted(m + 1, NextRadiusId(id))
<1>1. IdSpace \in Nat /\ IdSpace > 0
  BY SizesAssumption
<1>2. Counted(0, 0)
  <2>1. 0 \in 0 .. 0 /\ 0 = IdSpace * 0 + 0
    BY <1>1
  <2> QED
    BY <2>1 DEF Counted
<1>3. ASSUME NEW m \in Nat, NEW id \in 0 .. IdSpace - 1, Counted(m, id)
      PROVE  Counted(m + 1, NextRadiusId(id))
  <2>1. PICK wraps \in 0 .. m : m = IdSpace * wraps + id
    BY <1>3 DEF Counted
  <2>2. CASE id + 1 < IdSpace
    <3>1. NextRadiusId(id) = id + 1
      BY <1>1, <2>2 DEF NextRadiusId
    <3>2. wraps \in 0 .. m + 1 /\ m + 1 = IdSpace * wraps + (id + 1)
      BY <1>1, <2>1
    <3> QED
      BY <3>1, <3>2 DEF Counted
  <2>3. CASE id + 1 = IdSpace
    <3>1. NextRadiusId(id) = 0
      BY <1>1, <2>3 DEF NextRadiusId
    <3>2. wraps + 1 \in 0 .. m + 1 /\ m + 1 = IdSpace * (wraps + 1) + 0
      BY <1>1, <2>1, <2>3
    <3> QED
      BY <3>1, <3>2 DEF Counted
  <2> QED
    BY <1>1, <2>2, <2>3
<1> QED
  BY <1>2, <1>3

(* Numbers with the same identifier are a multiple of the space apart. *)
LEMMA SameIdIsWholeWraps ==
    ASSUME NEW m \in Nat, NEW k \in Nat, NEW id \in Nat, Counted(m, id), Counted(k, id)
    PROVE  (m - k) % IdSpace = 0
<1>1. IdSpace \in Nat /\ IdSpace > 0
  BY SizesAssumption
<1>2. PICK w \in 0 .. m : m = IdSpace * w + id
  BY DEF Counted
<1>3. PICK v \in 0 .. k : k = IdSpace * v + id
  BY DEF Counted
<1> DEFINE d == w - v
<1>4. d \in Int /\ m - k = IdSpace * d
  BY <1>1, <1>2, <1>3
<1> HIDE DEF d
<1>5. (IdSpace * d + 0) % IdSpace = 0
  BY <1>1, <1>4
<1> QED
  BY <1>1, <1>4, <1>5

LEMMA InitIsCounted == Init => IdsAreCounted
<1> SUFFICES ASSUME Init PROVE IdsAreCounted
  OBVIOUS
<1>1. requests \cup handled = {}
  BY DEF Init
<1>2. \A s \in Sessions : ex[s].n = 0 /\ ex[s].radiusId = 0 /\ ex[s].state = "closed"
  BY DEF Init, InitExchange
<1> QED
  BY <1>1, <1>2, NumbersAreCounted DEF IdsAreCounted

(* No new exchange: the requests are the old ones or copies of them, and what  *)
(* is heard anew has been sent under the request's identifier.                 *)
LEMMA IdsGoOn ==
    ASSUME ExchangesMatch, IdsAreCounted,
           \A t \in Sessions :
              /\ ex'[t].n = ex[t].n /\ ex'[t].radiusId = ex[t].radiusId /\ ex'[t].pkt = ex[t].pkt
              /\ ex'[t].state \in {"answered", "mismatch"} =>
                    \/ ex[t].state \in {"answered", "mismatch"} /\ ex'[t].heard = ex[t].heard
                    \/ ex'[t].heard \in handled /\ ex'[t].heard.id = ex[t].pkt.id,
           handled \subseteq handled', handled' \subseteq requests \cup handled,
           \A r \in requests' \ requests : \E t \in Sessions : ex[t].n > 0 /\ r = ex[t].pkt
    PROVE  IdsAreCounted'
<1>1. ASSUME NEW t \in Sessions
      PROVE  /\ Counted(ex'[t].n, ex'[t].radiusId)
             /\ ex'[t].n > 0 => Counted(ex'[t].n - 1, ex'[t].pkt.id)
             /\ ex'[t].state \in {"answered", "mismatch"}
                   => ex'[t].heard \in handled' /\ ex'[t].heard.id = ex'[t].pkt.id
  BY DEF IdsAreCounted
<1>2. ASSUME NEW r \in requests' \cup handled' PROVE Counted(r.auth[2] - 1, r.id)
  <2>1. CASE r \in requests \cup handled
    BY <2>1 DEF IdsAreCounted
  <2>2. CASE r \in requests' \ requests
    <3>1. PICK t \in Sessions : ex[t].n > 0 /\ r = ex[t].pkt
      BY <2>2
    <3>2. r.auth[2] = ex[t].n
      BY <3>1 DEF ExchangesMatch, ClientMatches
    <3> QED
      BY <3>1, <3>2 DEF IdsAreCounted
  <2> QED
    BY <1>2, <2>1, <2>2
<1> QED
  BY <1>1, <1>2 DEF IdsAreCounted, Counted

LEMMA BeginIsCounted ==
    ASSUME ExchangesMatch, IdsAreCounted, NEW s \in Sessions, Begin(s) PROVE IdsAreCounted'
<1> DEFINE n == ex[s].n + 1
           rid == NextRadiusId(ex[s].radiusId)
<1>1. PICK port \in Ports \ PortsInUse :
         LET pkt == [port |-> port, id |-> ex[s].radiusId, auth |-> <<s, n>>]
         IN  /\ ex' = [ex EXCEPT ![s] = [@ EXCEPT !.state = "waiting", !.n = n,
                                         !.radiusId = NextRadiusId(ex[s].radiusId),
                                         !.attempt = 1, !.pkt = pkt]]
             /\ Transmit(s, pkt, 0)
  BY DEF Begin
<1> DEFINE pkt == [port |-> port, id |-> ex[s].radiusId, auth |-> <<s, n>>]
<1>2. /\ ex[s] \in Exchange /\ ex[s].n \in Nat /\ ex[s].radiusId \in 0 .. IdSpace - 1
  BY ExchangeFields DEF Exchange
<1>3. n \in Nat /\ n - 1 = ex[s].n /\ Counted(n, rid)
  BY <1>2, NumbersAreCounted DEF IdsAreCounted
<1>4. pkt.auth[2] = n /\ pkt.id = ex[s].radiusId
  OBVIOUS
<1>5. /\ ex' = [ex EXCEPT ![s] = [@ EXCEPT !.state = "waiting", !.n = n, !.radiusId = rid,
                                         !.attempt = 1, !.pkt = pkt]]
      /\ Transmit(s, pkt, 0)
  BY <1>1
<1> HIDE DEF pkt, rid, n
<1>6. /\ ex'[s].n = n /\ ex'[s].radiusId = rid /\ ex'[s].pkt = pkt /\ ex'[s].state = "waiting"
      /\ \A t \in Sessions \ {s} : ex'[t] = ex[t]
  BY <1>2, <1>5 DEF ExchangesMatch, TypeOK, Exchange
<1>7. requests' \subseteq requests \cup {pkt} /\ handled' = handled
  BY <1>5 DEF Begin, Transmit
<1>8. Counted(ex[s].n, ex[s].radiusId)
  BY DEF IdsAreCounted
<1>9. ASSUME NEW t \in Sessions
      PROVE  /\ Counted(ex'[t].n, ex'[t].radiusId)
             /\ ex'[t].n > 0 => Counted(ex'[t].n - 1, ex'[t].pkt.id)
             /\ ex'[t].state \in {"answered", "mismatch"}
                   => ex'[t].heard \in handled' /\ ex'[t].heard.id = ex'[t].pkt.id
  <2>1. CASE t = s
    BY <1>3, <1>4, <1>6, <1>8, <2>1
  <2>2. CASE t # s
    BY <1>6, <1>7, <2>2 DEF IdsAreCounted
  <2> QED
    BY <2>1, <2>2
<1>10. ASSUME NEW r \in requests' \cup handled' PROVE Counted(r.auth[2] - 1, r.id)
  <2>1. CASE r = pkt
    BY <1>3, <1>4, <1>8, <2>1
  <2>2. CASE r \in requests \cup handled
    BY <2>2 DEF IdsAreCounted
  <2> QED
    BY <1>7, <1>10, <2>1, <2>2
<1> QED
  BY <1>9, <1>10 DEF IdsAreCounted, Counted

LEMMA ClientStepIsCounted ==
    ASSUME ExchangesMatch, IdsAreCounted, NEW s \in Sessions, ClientStep(s)
    PROVE  IdsAreCounted'
<1>1. CASE Begin(s)
  BY <1>1, BeginIsCounted
<1>2. ex \in [Sessions -> Exchange] /\ ex[s] \in Exchange
  BY DEF ExchangesMatch, TypeOK
<1>3. CASE Expire(s) \/ GiveUp(s) \/ ErrorReceived(s) \/ RaiseError(s) \/ Cancel(s)
  <2>1. PICK st \in {"expired", "no-answer", "error", "os-error", "cancelled"} :
           ex' = [ex EXCEPT ![s].state = st]
    BY <1>3 DEF Expire, GiveUp, ErrorReceived, RaiseError, Cancel
  <2>2. UNCHANGED <<requests, handled>>
    BY <1>3 DEF Expire, GiveUp, ErrorReceived, RaiseError, Cancel
  <2>3. /\ ex'[s].n = ex[s].n /\ ex'[s].radiusId = ex[s].radiusId /\ ex'[s].pkt = ex[s].pkt
        /\ ex'[s].state = st /\ \A t \in Sessions \ {s} : ex'[t] = ex[t]
    BY <1>2, <2>1 DEF Exchange
  <2> QED
    BY <2>2, <2>3, IdsGoOn
<1>4. CASE Retransmit(s)
  <2>1. /\ ex' = [ex EXCEPT ![s].state = "waiting", ![s].attempt = @ + 1]
        /\ requests' \subseteq requests \cup {ex[s].pkt} /\ UNCHANGED handled
        /\ ex[s].state = "expired"
    BY <1>4 DEF Retransmit, Transmit
  <2>2. /\ ex'[s].n = ex[s].n /\ ex'[s].radiusId = ex[s].radiusId /\ ex'[s].pkt = ex[s].pkt
        /\ ex'[s].state = "waiting" /\ \A t \in Sessions \ {s} : ex'[t] = ex[t]
    BY <1>2, <2>1 DEF Exchange
  <2>3. ex[s].n > 0
    BY <2>1, ExchangeFields
  <2> QED
    BY <2>1, <2>2, <2>3, IdsGoOn
<1>5. CASE ProcessReply(s)
  <2>1. /\ ex[s].state = "answered" /\ UNCHANGED <<requests, handled>>
        /\ ex' = IF Verified(s, ex[s].heard)
                 THEN [ex EXCEPT ![s].state = "closed", ![s].took = ex[s].heard]
                 ELSE [ex EXCEPT ![s].state = "mismatch"]
    BY <1>5 DEF ProcessReply
  <2>2. /\ ex'[s].n = ex[s].n /\ ex'[s].radiusId = ex[s].radiusId /\ ex'[s].pkt = ex[s].pkt
        /\ ex'[s].heard = ex[s].heard /\ \A t \in Sessions \ {s} : ex'[t] = ex[t]
    <3>1. CASE Verified(s, ex[s].heard)
      BY <1>2, <2>1, <3>1 DEF Exchange
    <3>2. CASE ~Verified(s, ex[s].heard)
      BY <1>2, <2>1, <3>2 DEF Exchange
    <3> QED
      BY <3>1, <3>2
  <2> QED
    BY <2>1, <2>2, IdsGoOn
<1> QED
  BY <1>1, <1>3, <1>4, <1>5 DEF ClientStep

LEMMA DeliveryIsCounted ==
    ASSUME ExchangesMatch, IdsAreCounted, NEW r \in replies, DeliverReply(r)
    PROVE  IdsAreCounted'
<1>1. UNCHANGED <<requests, handled>> /\ r \in handled
  BY DEF DeliverReply, ExchangesMatch, NetworkMatches
<1>2. CASE UNCHANGED ex
  BY <1>1, <1>2, IdsGoOn
<1>3. ASSUME NEW s \in Sessions, DatagramReceived(s, r), ex' # ex
      PROVE  IdsAreCounted'
  <2>1. /\ ex' = [ex EXCEPT ![s].state = "answered", ![s].heard = r] /\ r.id = ex[s].pkt.id
    BY <1>3 DEF DatagramReceived, Expected
  <2>2. /\ ex'[s].n = ex[s].n /\ ex'[s].radiusId = ex[s].radiusId /\ ex'[s].pkt = ex[s].pkt
        /\ ex'[s].heard = r /\ \A t \in Sessions \ {s} : ex'[t] = ex[t]
    BY <2>1 DEF ExchangesMatch, TypeOK, Exchange
  <2> QED
    BY <1>1, <2>1, <2>2, IdsGoOn
<1> QED
  BY <1>2, <1>3 DEF DeliverReply

LEMMA NextIsCounted == ExchangesMatch /\ IdsAreCounted /\ [Next]_vars => IdsAreCounted'
<1> SUFFICES ASSUME ExchangesMatch, IdsAreCounted, [Next]_vars PROVE IdsAreCounted'
  OBVIOUS
<1>1. ASSUME NEW s \in Sessions, ClientStep(s) PROVE IdsAreCounted'
  BY <1>1, ClientStepIsCounted
<1>2. ASSUME NEW r \in requests, ServerReceives(r) PROVE IdsAreCounted'
  <2>1. handled' = handled \cup {r} /\ requests' \subseteq requests /\ UNCHANGED ex
    BY <1>2 DEF ServerReceives, Delivered
  <2> QED
    BY <2>1, IdsGoOn
<1>3. ASSUME NEW r \in replies, DeliverReply(r) PROVE IdsAreCounted'
  BY <1>3, DeliveryIsCounted
<1>4. CASE UNCHANGED vars
  BY <1>4, IdsGoOn DEF vars
<1> QED
  BY <1>1, <1>2, <1>3, <1>4 DEF Next, ClientStep

-----------------------------------------------------------------------------
(* The theorems *)

(* What every reachable state satisfies: packets in flight belong to exchanges *)
(* that were made, all but the last of which the server has taken, no attempt  *)
(* is given up that has not lost a datagram, and identifiers count the         *)
(* exchanges (send_receive, _radius_exchange, _next_radius_id).                *)
THEOREM Invariance == Spec => []InductiveInv
<1>1. Init => InductiveInv
  BY InitMatches, InitIsCounted DEF InductiveInv
<1>2. InductiveInv /\ [Next]_vars => InductiveInv'
  BY NextMatches, NextIsCounted DEF InductiveInv
<1> QED
  BY <1>1, <1>2, PTL DEF Spec

LEMMA AlwaysMatch == Spec => []ExchangesMatch
<1>1. InductiveInv => ExchangesMatch
  BY DEF InductiveInv
<1> QED
  BY <1>1, Invariance, PTL

(* A late reply to an earlier exchange of the session's own, which the port it *)
(* comes to may have been given again, is dropped by expected_id: it ends a    *)
(* run only when the identifiers have wrapped in between, a multiple of        *)
(* IdSpace exchanges later.                                                    *)
THEOREM OwnDelayedRepliesNeverHurt == Spec => []OwnDelayedRepliesAreIgnored
<1>1. InductiveInv => OwnDelayedRepliesAreIgnored
  <2> SUFFICES ASSUME InductiveInv, NEW s \in Sessions,
                      ex[s].state = "mismatch", ex[s].heard.auth[1] = s
               PROVE  (ex[s].n - ex[s].heard.auth[2]) % IdSpace = 0
    BY DEF OwnDelayedRepliesAreIgnored
  <2> DEFINE r == ex[s].heard
  <2>1. ExchangesMatch /\ IdsAreCounted
    BY DEF InductiveInv
  <2>2. r \in handled /\ r.id = ex[s].pkt.id
    BY <2>1 DEF IdsAreCounted
  <2>3. ex[s].n \in Nat /\ ex[s].n > 0
    BY <2>1, ExchangeFields
  <2>4. r.auth[2] \in 1 .. ex[s].n /\ r.id \in Nat
    BY <2>1, <2>2, PacketFields DEF ExchangesMatch, NetworkMatches, TypeOK
  <2>5. Counted(r.auth[2] - 1, r.id) /\ Counted(ex[s].n - 1, r.id)
    BY <2>1, <2>2, <2>3 DEF IdsAreCounted
  <2> HIDE DEF r
  <2>6. ((ex[s].n - 1) - (r.auth[2] - 1)) % IdSpace = 0
    <3>1. ex[s].n - 1 \in Nat /\ r.auth[2] - 1 \in Nat
      BY <2>3, <2>4
    <3> QED
      BY <2>4, <2>5, <3>1, SameIdIsWholeWraps
  <2>7. (ex[s].n - 1) - (r.auth[2] - 1) = ex[s].n - r.auth[2]
    BY <2>3, <2>4
  <2> QED
    BY <2>6, <2>7 DEF r
<1> QED
  BY <1>1, Invariance, PTL

(* Type correctness.                                                           *)
THEOREM TypeCorrectness == Spec => []TypeOK
<1>1. ExchangesMatch => TypeOK
  BY DEF ExchangesMatch
<1> QED
  BY <1>1, AlwaysMatch, PTL

(* However often a request is repeated or duplicated on its way, the server    *)
(* takes it as new once: a retry is the same packet (send_receive).            *)
THEOREM AlwaysServedOnce == Spec => []ServedOnce
<1>1. ExchangesMatch => ServedOnce
  BY DEF ExchangesMatch
<1> QED
  BY <1>1, AlwaysMatch, PTL

(* With patient timers no exchange is reported unanswered but for losses, as   *)
(* many as it had attempts (the retry loop of send_receive).                   *)
THEOREM TimeoutsMeanLosses == Spec => []TimeoutMeansLoss
<1>1. ExchangesMatch => TimeoutMeansLoss
  BY DEF ExchangesMatch
<1> QED
  BY <1>1, AlwaysMatch, PTL

(* Every reply a session has processed answers its own last request, whoever   *)
(* had the port before (decode_response).                                      *)
THEOREM RepliesAreAlwaysOwn == Spec => []RepliesAreOwn
<1>1. ExchangesMatch => RepliesAreOwn
  <2> SUFFICES ASSUME ExchangesMatch, NEW s \in Sessions, ex[s].state = "closed", ex[s].n > 0
               PROVE  ex[s].took # None /\ ex[s].took.auth = <<s, ex[s].n>>
    BY DEF RepliesAreOwn
  <2>1. ex[s].took \in handled /\ ex[s].took.auth = <<s, ex[s].n>>
    BY DEF ExchangesMatch, ClientMatches
  <2>2. ex[s].took \in Packet
    BY <2>1 DEF ExchangesMatch, TypeOK
  <2> QED
    BY <2>1, <2>2, NoneIsNoPacket
<1> QED
  BY <1>1, AlwaysMatch, PTL

-----------------------------------------------------------------------------
(* The calls *)

LEMMA InitIsNoCall == Init /\ ExchangesMatch => Calls!Init
<1> SUFFICES ASSUME Init, ExchangesMatch PROVE Calls!Init
  OBVIOUS
<1>1. \A s \in Sessions : ex[s].n = 0 /\ Phase(s) = "idle"
  BY DEF Init, InitExchange, Phase
<1>2. \A s \in Sessions : TakenOf(s) = 0
  BY <1>1 DEF ExchangesMatch, TakenInTurn
<1> QED
  BY <1>1, <1>2 DEF Calls!Init

(* A step of a session that takes nothing: its calls and its phase. *)
LEMMA SessionIsACaller ==
    ASSUME ExchangesMatch, NEW s \in Sessions, ClientStep(s)
    PROVE  Calls!Call(s) \/ Calls!Return(s) \/ Calls!Fail(s) \/ UNCHANGED Calls!vars
<1> DEFINE phase == [t \in Sessions |-> Phase(t)]
           calls == [t \in Sessions |-> ex[t].n]
           served == [t \in Sessions |-> TakenOf(t)]
<1>1. /\ ex \in [Sessions -> Exchange] /\ ex[s].n \in Nat
      /\ ex[s].state # "closed" => ex[s].n > 0
  BY ExchangeFields DEF ExchangesMatch, TypeOK
<1>2. UNCHANGED handled
  BY DEF ClientStep, Begin, Expire, Retransmit, GiveUp, ProcessReply, ErrorReceived, RaiseError,
         Cancel
<1>3. UNCHANGED served
  BY <1>2 DEF TakenOf
<1>4. \A t \in Sessions \ {s} : ex'[t] = ex[t]
  BY <1>1 DEF ClientStep, Begin, Expire, Retransmit, GiveUp, ProcessReply, ErrorReceived,
              RaiseError, Cancel
<1>5. \A t \in Sessions \ {s} : calls'[t] = calls[t] /\ phase'[t] = phase[t]
  BY <1>4 DEF Phase, Open
<1>6. CASE Begin(s)
  <2>1. ex'[s].n = ex[s].n + 1 /\ ex'[s].state = "waiting" /\ ex[s].state = "closed"
    BY <1>1, <1>6 DEF Begin, Exchange
  <2>2. calls'[s] = calls[s] + 1 /\ phase'[s] = "pending" /\ phase[s] = "idle"
    BY <2>1 DEF Phase, Open, Waiting
  <2>3. calls' = [calls EXCEPT ![s] = calls[s] + 1] /\ phase' = [phase EXCEPT ![s] = "pending"]
    BY <1>5, <2>2
  <2> QED
    BY <1>3, <2>2, <2>3 DEF Calls!Call
<1>7. CASE ProcessReply(s) /\ Verified(s, ex[s].heard)
  <2>1. /\ ex[s].state = "answered" /\ ex'[s].state = "closed" /\ ex'[s].n = ex[s].n
    BY <1>1, <1>7 DEF ProcessReply, Exchange
  <2>2. ex[s].heard \in handled /\ ex[s].heard.auth = <<s, ex[s].n>>
    BY <1>1, <1>7, <2>1 DEF ExchangesMatch, ClientMatches, Verified
  <2>3. ex[s].pkt \in handled
    BY <2>2 DEF ExchangesMatch, NetworkMatches
  <2>4. served[s] = calls[s]
    BY <2>3 DEF ExchangesMatch, TakenInTurn
  <2>5. phase[s] = "pending" /\ phase'[s] = "idle" /\ calls'[s] = calls[s]
    BY <2>1 DEF Phase, Open, Waiting
  <2>6. phase' = [phase EXCEPT ![s] = "idle"] /\ calls' = calls
    BY <1>5, <2>5
  <2> QED
    BY <1>3, <2>4, <2>5, <2>6 DEF Calls!Return
<1>8. CASE Expire(s) \/ Retransmit(s) \/ ErrorReceived(s)
  <2>1. Open(s) /\ Open(s)' /\ ex'[s].n = ex[s].n
    BY <1>1, <1>8 DEF Expire, Retransmit, ErrorReceived, Open, Waiting, Exchange
  <2>2. phase'[s] = phase[s] /\ calls'[s] = calls[s]
    BY <2>1 DEF Phase, Open, Waiting
  <2>3. phase' = phase /\ calls' = calls
    BY <1>5, <2>2
  <2> QED
    BY <1>3, <2>3 DEF Calls!vars
<1>9. CASE GiveUp(s) \/ RaiseError(s) \/ Cancel(s)
             \/ (ProcessReply(s) /\ ~Verified(s, ex[s].heard))
  <2>1. Open(s) /\ ex'[s].state \in Ended /\ ex'[s].n = ex[s].n
    BY <1>1, <1>9 DEF GiveUp, RaiseError, Cancel, ProcessReply, Open, Waiting, Ended, Exchange
  <2>2. phase[s] = "pending" /\ phase'[s] = "failed" /\ calls'[s] = calls[s]
    BY <2>1 DEF Phase, Open, Waiting, Ended
  <2>3. phase' = [phase EXCEPT ![s] = "failed"] /\ calls' = calls
    BY <1>5, <2>2
  <2> QED
    BY <1>3, <2>2, <2>3 DEF Calls!Fail
<1> QED
  BY <1>6, <1>7, <1>8, <1>9 DEF ClientStep

LEMMA ServerServesACall ==
    ASSUME ExchangesMatch, NEW r \in requests, ServerReceives(r)
    PROVE  (\E t \in Sessions : Calls!Serve(t)) \/ UNCHANGED Calls!vars
<1> DEFINE served == [t \in Sessions |-> TakenOf(t)]
<1>1. handled' = handled \cup {r} /\ UNCHANGED ex
  BY DEF ServerReceives
<1>2. /\ UNCHANGED [t \in Sessions |-> ex[t].n] /\ UNCHANGED [t \in Sessions |-> Phase(t)]
  BY <1>1 DEF Phase, Open
<1>3. CASE r \in handled
  <2>1. UNCHANGED served
    BY <1>1, <1>3 DEF TakenOf
  <2> QED
    BY <1>2, <2>1 DEF Calls!vars
<1>4. CASE r \notin handled
  <2>1. PICK t \in Sessions : t = r.auth[1]
    BY <1>4, NewIsCurrent
  <2>2. TakenOf(t) = ex[t].n - 1 /\ ex[t].n \in Nat /\ ex[t].n > 0
    BY <1>4, <2>1, NewIsCurrent, ExchangeFields
  <2>3. \A u \in Sessions : TakenOf(u)' = IF u = t THEN TakenOf(u) + 1 ELSE TakenOf(u)
    BY <1>1, <1>4, <2>1, OneMoreIsTaken
  <2>4. served' = [served EXCEPT ![t] = served[t] + 1]
    BY <2>3
  <2>5. served[t] < ex[t].n
    BY <2>2
  <2> QED
    BY <1>2, <2>4, <2>5 DEF Calls!Serve
<1> QED
  BY <1>3, <1>4

LEMMA DeliveryIsNoCall ==
    ASSUME ExchangesMatch, NEW r \in replies, DeliverReply(r)
    PROVE  UNCHANGED Calls!vars
<1>1. UNCHANGED handled /\ ex \in [Sessions -> Exchange]
  BY DEF DeliverReply, ExchangesMatch, TypeOK
<1>2. \A t \in Sessions : ex'[t].n = ex[t].n /\ Phase(t)' = Phase(t)
  <2>1. CASE UNCHANGED ex
    BY <2>1 DEF Phase, Open
  <2>2. ASSUME NEW s \in Sessions, Open(s), ex[s].state = "waiting",
               ex' = [ex EXCEPT ![s].state = "answered", ![s].heard = r]
        PROVE  \A t \in Sessions : ex'[t].n = ex[t].n /\ Phase(t)' = Phase(t)
    <3>1. \A t \in Sessions \ {s} : ex'[t] = ex[t]
      BY <1>1, <2>2
    <3>2. ex'[s].n = ex[s].n /\ ex'[s].state = "answered"
      BY <1>1, <2>2 DEF Exchange
    <3> QED
      BY <2>2, <3>1, <3>2 DEF Phase, Open, Waiting
  <2> QED
    BY <2>1, <2>2 DEF DeliverReply, DatagramReceived
<1>3. UNCHANGED [t \in Sessions |-> TakenOf(t)]
  BY <1>1 DEF TakenOf
<1> QED
  BY <1>2, <1>3 DEF Calls!vars

(* To the sessions above, the whole of it, the network, the retries and the    *)
(* ports that are used again, is the lossless call of RequestReply             *)
(* (_radius_exchange).                                                         *)
THEOREM ExchangeImplementsCalls == Spec => ImplementsCalls
<1>1. ExchangesMatch /\ [Next]_vars => [Calls!Next]_(Calls!vars)
  <2> SUFFICES ASSUME ExchangesMatch, [Next]_vars PROVE [Calls!Next]_(Calls!vars)
    OBVIOUS
  <2>1. ASSUME NEW s \in Sessions, ClientStep(s) PROVE [Calls!Next]_(Calls!vars)
    BY <2>1, SessionIsACaller DEF Calls!Next
  <2>2. ASSUME NEW r \in requests, ServerReceives(r) PROVE [Calls!Next]_(Calls!vars)
    BY <2>2, ServerServesACall DEF Calls!Next
  <2>3. ASSUME NEW r \in replies, DeliverReply(r) PROVE [Calls!Next]_(Calls!vars)
    BY <2>3, DeliveryIsNoCall
  <2>4. CASE UNCHANGED vars
    BY <2>4 DEF vars, Calls!vars, Phase, Open, TakenOf
  <2> QED
    BY <2>1, <2>2, <2>3, <2>4 DEF Next, ClientStep
<1> QED
  BY <1>1, InitMatches, InitIsNoCall, AlwaysMatch, PTL DEF Spec, ImplementsCalls, Calls!Spec
=============================================================================
