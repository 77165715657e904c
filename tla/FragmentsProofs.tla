-------------------------- MODULE FragmentsProofs ---------------------------
(* Proofs about fragmentation (Fragments), for messages of any lengths, any    *)
(* size of packets, any identifiers and any way the server cuts its messages.  *)
EXTENDS Fragments, SequenceTheorems, TLAPS

-----------------------------------------------------------------------------
(* Messages and their slices *)

LEMMA FollowingIsAMessage ==
    ASSUME NEW n \in Nat, NEW len \in Nat
    PROVE  Following(n, len) \in Seq(Unit) /\ Len(Following(n, len)) = len
  <1> DEFINE m == [i \in 1 .. len |-> <<n + 1, i>>]
  <1>1. m \in [1 .. len -> Unit]
    BY DEF Unit
  <1>2. m \in Seq(Unit)
    BY <1>1, SeqDef
  <1>3. DOMAIN m = 1 .. Len(m) /\ Len(m) \in Nat
    BY <1>2, LenProperties
  <1>4. DOMAIN m = 1 .. len
    OBVIOUS
  <1>5. Following(n, len) = m
    BY DEF Following, Messages!Whole
  <1> HIDE DEF m
  <1>6. Len(m) = len
    <2> DEFINE k == Len(m)
    <2>1. k \in Nat /\ 1 .. k = 1 .. len
      BY <1>3, <1>4
    <2> HIDE DEF k
    <2>2. \A i \in Int : i \in 1 .. k <=> i \in 1 .. len
      BY <2>1
    <2>3. k = len
      BY <2>1, <2>2
    <2> QED
      BY <2>3 DEF k
  <1> QED
    BY <1>2, <1>5, <1>6

LEMMA EmptyIsZero ==
    ASSUME NEW m \in Seq(Unit)
    PROVE  Len(m) \in Nat /\ (m = <<>> <=> Len(m) = 0)
  BY LenProperties, EmptySeq

LEMMA PrefixFacts ==
    ASSUME NEW m \in Seq(Unit), NEW k \in 0 .. Len(m)
    PROVE  /\ SubSeq(m, 1, k) \in Seq(Unit)
           /\ SubSeq(m, 1, 0) = <<>>
           /\ SubSeq(m, 1, Len(m)) = m
  <1>1. Len(m) \in Nat
    BY LenProperties
  <1>2. \A i \in 1 .. k : m[i] \in Unit
    BY <1>1, ElementOfSeq
  <1>3. SubSeq(m, 1, k) \in Seq(Unit)
    BY <1>1, <1>2, SubSeqProperties
  <1> QED
    BY <1>3, SubSeqEmpty, SubSeqFull

(* A slice is what lies between two places of the message: behind what has     *)
(* been sent it makes what will have been.                                     *)
LEMMA SliceFacts ==
    ASSUME NEW side, side.message \in Seq(Unit), side.offset \in 0 .. Len(side.message),
           NEW n \in Nat
    PROVE  LET len == Len(side.message)
               end == IF side.offset + n < len THEN side.offset + n ELSE len
           IN  /\ end \in side.offset .. len
               /\ Slice(side, n) \in Seq(Unit)
               /\ Len(Slice(side, n)) = end - side.offset
               /\ SubSeq(side.message, 1, side.offset) \o Slice(side, n)
                     = SubSeq(side.message, 1, end)
  <1> DEFINE m == side.message
             o == side.offset
             end == IF o + n < Len(m) THEN o + n ELSE Len(m)
  <1>1. Len(m) \in Nat
    BY LenProperties
  <1>2. end \in o .. Len(m) /\ o \in Nat
    BY <1>1
  <1>3. Slice(side, n) = SubSeq(m, o + 1, end)
    BY DEF Slice
  <1> HIDE DEF end
  <1>4. \A i \in o + 1 .. end : m[i] \in Unit
    BY <1>1, <1>2, ElementOfSeq
  <1>5. SubSeq(m, o + 1, end) \in Seq(Unit) /\ Len(SubSeq(m, o + 1, end)) = end - o
    BY <1>1, <1>2, <1>4, SubSeqProperties
  <1>6. SubSeq(m, 1, o) \o SubSeq(m, o + 1, end) = SubSeq(m, 1, end)
    <2>1. 1 \in 1 .. Len(m) + 1 /\ o \in 1 - 1 .. Len(m) /\ end \in o .. Len(m)
      BY <1>1, <1>2
    <2> QED
      BY <2>1, ConcatAdjacentSubSeq
  <1> QED
    BY <1>2, <1>3, <1>5, <1>6 DEF end
-----------------------------------------------------------------------------
(* What the steps are made of *)

LEMMA FieldTypes ==
    ASSUME TypeOK
    PROVE  /\ client.message \in Seq(Unit) /\ client.offset \in Nat
           /\ client.id \in 0 .. IdSpace - 1 /\ client.buffer \in Seq(Unit)
           /\ client.assembling \in BOOLEAN
           /\ server.message \in Seq(Unit) /\ server.offset \in Nat
           /\ server.id \in 0 .. IdSpace - 1 /\ server.buffer \in Seq(Unit)
           /\ server.done \in BOOLEAN
           /\ Len(client.message) \in Nat /\ Len(server.message) \in Nat
           /\ Len(delivered) \in Nat
  <1>1. /\ client.message \in Seq(Unit) /\ client.offset \in Nat
        /\ client.id \in 0 .. IdSpace - 1 /\ client.buffer \in Seq(Unit)
        /\ client.assembling \in BOOLEAN
    BY DEF TypeOK, Client
  <1>2. /\ server.message \in Seq(Unit) /\ server.offset \in Nat
        /\ server.id \in 0 .. IdSpace - 1 /\ server.buffer \in Seq(Unit)
        /\ server.done \in BOOLEAN
    BY DEF TypeOK, Server
  <1>3. delivered \in Seq(Seq(Unit))
    BY DEF TypeOK
  <1> QED
    BY <1>1, <1>2, <1>3, LenProperties

LEMMA WireTypes ==
    ASSUME TypeOK, wire.code # "none"
    PROVE  /\ wire \in Packet /\ wire.id \in 0 .. IdSpace - 1
           /\ wire.code \in {"request", "response", "final"}
           /\ wire.start \in BOOLEAN /\ wire.length \in BOOLEAN
           /\ wire.more \in BOOLEAN /\ wire.data \in Seq(Unit)
  <1>1. wire \in Packet
    BY DEF TypeOK, None
  <1> QED
    BY <1>1 DEF Packet

LEMMA SendInOneFacts ==
    ASSUME NEW c \in Client, NEW length \in BOOLEAN, NEW message \in Seq(Unit),
           SendInOne(c, length, message)
    PROVE  /\ client' \in Client /\ wire' \in Packet
           /\ wire'.code = "response" /\ ~wire'.more /\ wire'.data = message
           /\ client'.message = message /\ ~Sending(client')
           /\ client'.assembling = c.assembling
           /\ Sent(client') = message
  <1>1. Len(message) \in Nat
    BY LenProperties
  <1>2. client' = [c EXCEPT !.message = message, !.offset = Len(message)]
    BY DEF SendInOne
  <1>3. /\ client' \in Client /\ client'.message = message
        /\ client'.offset = Len(message) /\ client'.assembling = c.assembling
    BY <1>1, <1>2 DEF Client
  <1>4. /\ wire' \in Packet /\ wire'.code = "response" /\ ~wire'.more
        /\ wire'.data = message
    BY DEF SendInOne, Respond, Packet, Client
  <1>5. ~Sending(client')
    BY <1>1, <1>3 DEF Sending
  <1>6. Sent(client') = message
    BY <1>1, <1>3, <1>5, PrefixFacts DEF Sent
  <1> QED
    BY <1>3, <1>4, <1>5, <1>6

LEMMA SendFragmentFacts ==
    ASSUME NEW c \in Client, c.offset \in 0 .. Len(c.message), SendFragment(c)
    PROVE  /\ client' \in Client /\ wire' \in Packet
           /\ wire'.code = "response" /\ (wire'.more <=> Sending(client'))
           /\ client'.message = c.message /\ client'.assembling = c.assembling
           /\ SubSeq(c.message, 1, c.offset) \o wire'.data = Sent(client')
  <1> DEFINE len == Len(c.message)
             end == IF c.offset + MaxChunk < len THEN c.offset + MaxChunk ELSE len
  <1>1. /\ c.message \in Seq(Unit) /\ c.offset \in Nat /\ len \in Nat
        /\ MaxChunk \in Nat /\ MaxChunk > 0 /\ c.id \in 0 .. IdSpace - 1
    BY SizesAssumption, LenProperties DEF Client
  <1>2. client' = [c EXCEPT !.offset = @ + MaxChunk]
    BY DEF SendFragment
  <1>3. /\ client' \in Client /\ client'.message = c.message
        /\ client'.offset = c.offset + MaxChunk /\ client'.assembling = c.assembling
    BY <1>1, <1>2 DEF Client
  <1>4. /\ Slice(c, MaxChunk) \in Seq(Unit)
        /\ SubSeq(c.message, 1, c.offset) \o Slice(c, MaxChunk) = SubSeq(c.message, 1, end)
    BY <1>1, SliceFacts
  <1>5. wire' = [code |-> "response", id |-> c.id, start |-> FALSE, length |-> (c.offset = 0),
                 more |-> ~IsLast(c), data |-> Slice(c, MaxChunk)]
    BY DEF SendFragment, Respond
  <1>6. IsLast(c) <=> ~(c.offset + MaxChunk < len)
    BY <1>1 DEF IsLast
  <1>7. /\ wire' \in Packet /\ wire'.code = "response"
        /\ (wire'.more <=> c.offset + MaxChunk < len) /\ wire'.data = Slice(c, MaxChunk)
    <2>1. (c.offset = 0) \in BOOLEAN /\ (~IsLast(c)) \in BOOLEAN
      OBVIOUS
    <2> QED
      BY <1>1, <1>4, <1>5, <1>6, <2>1 DEF Packet
  <1>8. Sending(client') <=> c.offset + MaxChunk < len
    BY <1>3 DEF Sending
  <1>9. Sent(client') = SubSeq(c.message, 1, end)
    BY <1>3, <1>8 DEF Sent
  <1> QED
    BY <1>3, <1>4, <1>7, <1>8, <1>9

LEMMA NextIdIsAnId ==
    ASSUME server.id \in 0 .. IdSpace - 1
    PROVE  NextId \in 0 .. IdSpace - 1
  BY SizesAssumption DEF NextId

LEMMA RequestFacts ==
    ASSUME TypeOK, NEW s \in Server, NEW length \in BOOLEAN, NEW more \in BOOLEAN,
           NEW data \in Seq(Unit), Request(s, length, more, data)
    PROVE  /\ server' \in Server /\ wire' \in Packet
           /\ wire'.code = "request" /\ ~wire'.start /\ wire'.length = length
           /\ wire'.more = more /\ wire'.data = data
           /\ server'.message = s.message /\ server'.offset = s.offset
           /\ server'.buffer = s.buffer /\ server'.done = s.done
  <1>1. NextId \in 0 .. IdSpace - 1
    BY FieldTypes, NextIdIsAnId
  <1>2. server' = [s EXCEPT !.id = NextId]
    BY DEF Request
  <1>3. wire' = [code |-> "request", id |-> NextId, start |-> FALSE,
                 length |-> length, more |-> more, data |-> data]
    BY DEF Request
  <1>4. /\ server' \in Server
        /\ server'.message = s.message /\ server'.offset = s.offset
        /\ server'.buffer = s.buffer /\ server'.done = s.done
    BY <1>1, <1>2 DEF Server
  <1>5. /\ wire' \in Packet
        /\ wire'.code = "request" /\ ~wire'.start /\ wire'.length = length
        /\ wire'.more = more /\ wire'.data = data
    BY <1>1, <1>3 DEF Packet
  <1> QED
    BY <1>4, <1>5

(* The server sends at least a unit of a message that has one left, and never  *)
(* more than the rest.                                                         *)
LEMMA SendFacts ==
    ASSUME TypeOK, NEW s \in Server, s.offset \in 0 .. Len(s.message), Send(s)
    PROVE  /\ server' \in Server /\ wire' \in Packet
           /\ wire'.code = "request" /\ ~wire'.start
           /\ (wire'.more <=> Sending(server'))
           /\ (wire'.more /\ s.offset = 0 => wire'.length)
           /\ (s.offset > 0 => ~wire'.length)
           /\ server'.message = s.message /\ server'.offset <= Len(s.message)
           /\ server'.buffer = s.buffer /\ server'.done = s.done
           /\ SubSeq(s.message, 1, s.offset) \o wire'.data = Sent(server')
  <1>1. PICK n \in 0 .. MaxChunk, length \in BOOLEAN :
            LET data == Slice(s, n)
                more == s.offset + n < Len(s.message)
            IN  /\ n > 0 \/ s.message = <<>>
                /\ more \/ s.offset > 0 => (length <=> s.offset = 0)
                /\ Request([s EXCEPT !.offset = @ + Len(data)], length, more, data)
    BY DEF Send
  <1> DEFINE len == Len(s.message)
             end == IF s.offset + n < len THEN s.offset + n ELSE len
             more == s.offset + n < len
             t == [s EXCEPT !.offset = @ + Len(Slice(s, n))]
  <1>2. s.message \in Seq(Unit) /\ s.offset \in Nat /\ len \in Nat /\ n \in Nat
    BY SizesAssumption, LenProperties DEF Server
  <1>3. /\ end \in s.offset .. len /\ Slice(s, n) \in Seq(Unit)
        /\ Len(Slice(s, n)) = end - s.offset
        /\ SubSeq(s.message, 1, s.offset) \o Slice(s, n) = SubSeq(s.message, 1, end)
    BY <1>2, SliceFacts
  <1>4. /\ t \in Server /\ t.message = s.message /\ t.offset = end
        /\ t.buffer = s.buffer /\ t.done = s.done
    <2> DEFINE k == Len(Slice(s, n))
    <2>1. s.offset + k = end /\ end \in Nat
      BY <1>2, <1>3
    <2> HIDE DEF k, end
    <2>2. t = [s EXCEPT !.offset = end]
      BY <2>1 DEF k
    <2> QED
      BY <2>1, <2>2 DEF Server
  <1>5. Request(t, length, more, Slice(s, n))
    BY <1>1
  <1>6. more \in BOOLEAN
    OBVIOUS
  <1>7. /\ server' \in Server /\ wire' \in Packet
        /\ wire'.code = "request" /\ ~wire'.start /\ wire'.length = length
        /\ wire'.more = more /\ wire'.data = Slice(s, n)
        /\ server'.message = t.message /\ server'.offset = t.offset
        /\ server'.buffer = t.buffer /\ server'.done = t.done
    <2> HIDE DEF t, more
    <2> QED
      BY <1>3, <1>4, <1>5, <1>6, RequestFacts
  <1> HIDE DEF t
  <1>8. Sending(server') <=> more
    BY <1>2, <1>4, <1>7 DEF Sending
  <1>9. Sent(server') = SubSeq(s.message, 1, end)
    BY <1>2, <1>4, <1>7, <1>8 DEF Sent
  <1>10. (more /\ s.offset = 0 => length) /\ (s.offset > 0 => ~length)
    BY <1>1, <1>2
  <1>11. end <= len
    BY <1>2, <1>3
  <1> HIDE DEF len, end, more
  <1>12. (wire'.more <=> Sending(server')) /\ wire'.data = Slice(s, n)
    BY <1>7, <1>8
  <1>13. (wire'.more /\ s.offset = 0 => wire'.length) /\ (s.offset > 0 => ~wire'.length)
    BY <1>7, <1>10
  <1>14. server'.message = s.message /\ server'.offset <= Len(s.message)
    BY <1>4, <1>7, <1>11 DEF len
  <1>15. SubSeq(s.message, 1, s.offset) \o wire'.data = Sent(server')
    BY <1>3, <1>7, <1>9
  <1> QED
    BY <1>4, <1>7, <1>12, <1>13, <1>14, <1>15
-----------------------------------------------------------------------------
(* The inductive invariant *)

LEMMA InitIsInductive == Init => InductiveInv
<1> SUFFICES ASSUME Init PROVE InductiveInv
  OBVIOUS
<1>1. <<>> \in Seq(Unit) /\ Len(<<>>) = 0 /\ <<>> \in Seq(Seq(Unit))
  OBVIOUS
<1>2. 0 \in 0 .. IdSpace - 1
  BY SizesAssumption
<1>3. client \in Client /\ server \in Server
  BY <1>1, <1>2 DEF Init, Client, Server
<1>4. wire \in Packet
  BY <1>1, <1>2 DEF Init, Packet
<1>5. ~Sending(client) /\ ~Sending(server)
  BY <1>1 DEF Init, Sending
<1>6. TypeOK
  BY <1>1, <1>3, <1>4 DEF TypeOK, Init
<1>7. wire.code = "request" /\ wire.start /\ wire # None
  BY DEF Init, None
<1>8. NothingIsAmiss
  BY <1>5, <1>7 DEF NothingIsAmiss, Init
<1> QED
  BY <1>6, <1>8 DEF InductiveInv

LEMMA APacketIsUnderWay ==
    ASSUME InductiveInv, wire.code # "none"
    PROVE  ~over
  BY DEF InductiveInv, NothingIsAmiss, None

(* It is enough to look at what a side has sent. *)
LEMMA ClientHasSent ==
    ASSUME TypeOK, ~over, UNCHANGED <<server, over>>,
           client' \in Client, delivered' \in Seq(Seq(Unit)),
           wire' \in Packet, wire'.code = "response",
           server.done => ~Sending(server),
           ~server.done => (ClientData \/ ClientAck)'
    PROVE  InductiveInv'
  <1>1. TypeOK'
    BY DEF TypeOK
  <1>2. wire' # None
    BY DEF None
  <1>3. Sending(server)' <=> Sending(server)
    BY DEF Sending
  <1>4. NothingIsAmiss'
    BY <1>2, <1>3 DEF NothingIsAmiss
  <1> QED
    BY <1>1, <1>4 DEF InductiveInv

LEMMA ServerHasSent ==
    ASSUME TypeOK, ~over, UNCHANGED <<client, over>>,
           server' \in Server, delivered' \in Seq(Seq(Unit)),
           wire' \in Packet, wire'.code = "request", ~wire'.start,
           ~server'.done, (ServerAck \/ ServerData)'
    PROVE  InductiveInv'
  <1>1. TypeOK'
    BY DEF TypeOK
  <1>2. wire' # None
    BY DEF None
  <1>3. NothingIsAmiss'
    BY <1>2 DEF NothingIsAmiss
  <1> QED
    BY <1>1, <1>3 DEF InductiveInv

LEMMA TeapStartIsGood ==
    ASSUME InductiveInv, TeapStart
    PROVE  InductiveInv'
  <1>1. /\ TypeOK /\ ~over /\ wire.code = "request" /\ wire.start
        /\ UNCHANGED <<server, delivered, over>>
    BY APacketIsUnderWay DEF InductiveInv, TeapStart
  <1>2. /\ ~server.done /\ delivered = <<>> /\ server.buffer = <<>>
        /\ ~client.assembling /\ ~Sending(server)
    BY <1>1 DEF InductiveInv, NothingIsAmiss
  <1>3. PICK len \in Lengths \ {0} :
            SendInOne([client EXCEPT !.id = wire.id], TRUE, Following(0, len))
    BY DEF TeapStart
  <1> DEFINE c == [client EXCEPT !.id = wire.id]
             m == Following(0, len)
  <1>4. m \in Seq(Unit)
    BY LengthsAssumption, FollowingIsAMessage
  <1>5. c \in Client /\ c.assembling = client.assembling
    BY <1>1, WireTypes DEF TypeOK, Client
  <1>6. SendInOne(c, TRUE, m)
    BY <1>3
  <1> HIDE DEF c, m
  <1>7. /\ client' \in Client /\ wire' \in Packet
        /\ wire'.code = "response" /\ ~wire'.more /\ wire'.data = m
        /\ client'.message = m /\ ~Sending(client')
        /\ client'.assembling = c.assembling /\ Sent(client') = m
    BY <1>4, <1>5, <1>6, SendInOneFacts
  <1>8. Speaks(client)'
    <2>1. Len(delivered') = 0
      BY <1>1, <1>2
    <2> QED
      BY <1>7, <2>1 DEF Speaks, m
  <1>9. server'.buffer \o wire'.data = m
    BY <1>1, <1>2, <1>4, <1>7, ConcatEmptySeq
  <1>10. ~Sending(server)'
    BY <1>1, <1>2 DEF Sending
  <1>11. ClientData'
    BY <1>2, <1>5, <1>7, <1>8, <1>9, <1>10 DEF ClientData, Sending, Sent
  <1>12. delivered' \in Seq(Seq(Unit))
    BY <1>1 DEF TypeOK
  <1> QED
    BY <1>1, <1>2, <1>7, <1>11, <1>12, ClientHasSent

LEMMA NextFragmentIsGood ==
    ASSUME InductiveInv, NextFragment
    PROVE  InductiveInv'
  <1>1. /\ TypeOK /\ ~over /\ wire.code \in {"request", "final"} /\ Sending(client)
        /\ UNCHANGED <<server, delivered, over>>
    BY APacketIsUnderWay DEF InductiveInv, NextFragment
  <1> DEFINE c == TakeId(client)
  <1>2. /\ c \in Client /\ c.message = client.message /\ c.offset = client.offset
        /\ c.assembling = client.assembling
    BY <1>1, WireTypes DEF TypeOK, Client, TakeId
  <1>3. SendFragment(c)
    BY DEF NextFragment
  <1>4. c.offset \in 0 .. Len(c.message)
    BY <1>1, <1>2, FieldTypes DEF Sending
  <1> HIDE DEF c
  <1>5. /\ client' \in Client /\ wire' \in Packet
        /\ wire'.code = "response" /\ (wire'.more <=> Sending(client'))
        /\ client'.message = c.message /\ client'.assembling = c.assembling
        /\ SubSeq(c.message, 1, c.offset) \o wire'.data = Sent(client')
    BY <1>2, <1>3, <1>4, SendFragmentFacts
  <1>6. delivered' \in Seq(Seq(Unit))
    BY <1>1 DEF TypeOK
  <1>7. CASE wire.code = "request"
    <2>1. ~server.done /\ ServerAck
      BY <1>1, <1>7 DEF InductiveInv, NothingIsAmiss, ServerData
    <2>2. Speaks(client)' /\ ~client'.assembling
      BY <1>1, <1>2, <1>5, <2>1 DEF ServerAck, Speaks
    <2>3. ~Sending(server)'
      BY <1>1, <2>1 DEF ServerAck, Sending
    <2>4. server'.buffer = SubSeq(c.message, 1, c.offset)
      BY <1>1, <1>2, <2>1 DEF ServerAck, Sent
    <2>5. ClientData'
      BY <1>5, <2>2, <2>3, <2>4 DEF ClientData, Sending, Sent
    <2> QED
      BY <1>1, <1>5, <1>6, <2>1, <2>5, ClientHasSent
  <1>8. CASE wire.code = "final"
    <2>1. server.done /\ ~Sending(server)
      BY <1>1, <1>8 DEF InductiveInv, NothingIsAmiss
    <2> QED
      BY <1>1, <1>5, <1>6, <2>1, ClientHasSent
  <1> QED
    BY <1>1, <1>7, <1>8

(* Data of the server, and what the assembler makes of it. *)
LEMMA FedFacts ==
    ASSUME InductiveInv, ForClient
    PROVE  /\ TypeOK /\ ~over /\ ~server.done /\ ServerData
           /\ Fed \in Client /\ Fed.message = client.message /\ Fed.offset = client.offset
           /\ Fed.buffer = Sent(server) /\ (Fed.assembling <=> Sending(server))
  <1>1. TypeOK /\ ~over /\ wire.code = "request" /\ ~wire.start /\ ~Sending(client)
    BY APacketIsUnderWay DEF InductiveInv, ForClient
  <1>2. ~server.done /\ ServerData
    BY <1>1 DEF InductiveInv, NothingIsAmiss, ServerAck
  <1> DEFINE c == [client EXCEPT !.id = wire.id]
  <1>3. wire.length \in BOOLEAN /\ wire.more \in BOOLEAN /\ wire.data \in Seq(Unit)
    BY <1>1, WireTypes
  <1>4. /\ c \in Client /\ c.message = client.message /\ c.offset = client.offset
        /\ c.buffer = client.buffer /\ c.assembling = client.assembling
    BY <1>1, WireTypes DEF TypeOK, Client
  <1>5. c.buffer \in Seq(Unit) /\ c.assembling \in BOOLEAN
    BY <1>4 DEF Client
  <1>6. Fed = Feed(c, wire)
    BY DEF Fed
  <1> HIDE DEF c
  <1>7. CASE wire.length /\ wire.more
    <2>1. Fed = [c EXCEPT !.buffer = wire.data, !.assembling = TRUE]
      BY <1>6, <1>7 DEF Feed
    <2>2. /\ Fed \in Client /\ Fed.message = c.message /\ Fed.offset = c.offset
          /\ Fed.buffer = wire.data /\ Fed.assembling
      BY <1>3, <1>4, <2>1 DEF Client
    <2>3. wire.data = Sent(server) /\ Sending(server)
      BY <1>2, <1>7 DEF ServerData
    <2> QED
      BY <1>1, <1>2, <1>4, <2>2, <2>3
  <1>8. CASE ~(wire.length /\ wire.more) /\ c.assembling
    <2>1. Fed = [c EXCEPT !.buffer = @ \o wire.data, !.assembling = wire.more]
      BY <1>6, <1>8 DEF Feed
    <2>2. c.buffer \o wire.data \in Seq(Unit)
      BY <1>3, <1>5, ConcatProperties
    <2>3. /\ Fed \in Client /\ Fed.message = c.message /\ Fed.offset = c.offset
          /\ Fed.buffer = c.buffer \o wire.data /\ (Fed.assembling <=> wire.more)
      BY <1>3, <1>4, <2>1, <2>2 DEF Client
    <2>4. c.buffer \o wire.data = Sent(server) /\ (wire.more <=> Sending(server))
      BY <1>2, <1>4, <1>8 DEF ServerData
    <2> QED
      BY <1>1, <1>2, <1>4, <2>3, <2>4
  <1>9. CASE ~(wire.length /\ wire.more) /\ ~c.assembling
    <2>1. Fed = [c EXCEPT !.buffer = wire.data]
      BY <1>6, <1>9 DEF Feed
    <2>2. /\ Fed \in Client /\ Fed.message = c.message /\ Fed.offset = c.offset
          /\ Fed.buffer = wire.data /\ ~Fed.assembling
      BY <1>3, <1>4, <1>9, <2>1 DEF Client
    <2>3. wire.data = Sent(server) /\ ~Sending(server)
      BY <1>2, <1>4, <1>9 DEF ServerData
    <2> QED
      BY <1>1, <1>2, <1>4, <2>2, <2>3
  <1> QED
    BY <1>7, <1>8, <1>9

LEMMA FragmentAckIsGood ==
    ASSUME InductiveInv, FragmentAck
    PROVE  InductiveInv'
  <1>1. /\ ForClient /\ Fed.assembling /\ client' = Fed
        /\ UNCHANGED <<server, delivered, over>>
        /\ wire' = [code |-> "response", id |-> Fed.id, start |-> FALSE,
                    length |-> FALSE, more |-> FALSE, data |-> <<>>]
    BY DEF FragmentAck, Respond
  <1>2. /\ TypeOK /\ ~over /\ ~server.done /\ ServerData
        /\ Fed \in Client /\ Fed.message = client.message /\ Fed.offset = client.offset
        /\ Fed.buffer = Sent(server) /\ (Fed.assembling <=> Sending(server))
    BY <1>1, FedFacts
  <1> HIDE DEF Fed
  <1>3. wire' \in Packet /\ wire'.code = "response" /\ wire'.data = <<>> /\ ~wire'.more
    <2>1. <<>> \in Seq(Unit) /\ Fed.id \in 0 .. IdSpace - 1
      BY <1>2 DEF Client
    <2> QED
      BY <1>1, <2>1 DEF Packet
  <1>4. Speaks(server)' /\ Sending(server)' /\ Sent(server)' = Sent(server)
    BY <1>1, <1>2 DEF ServerData, Speaks, Sending, Sent
  <1>5. ~Sending(client)'
    BY <1>1, <1>2 DEF ServerData, Sending
  <1>6. ClientAck'
    BY <1>1, <1>2, <1>3, <1>4, <1>5 DEF ServerData, ClientAck
  <1>7. delivered' \in Seq(Seq(Unit))
    BY <1>1, <1>2 DEF TypeOK
  <1> QED
    BY <1>1, <1>2, <1>3, <1>6, <1>7, ClientHasSent

(* What is handed on is the next message, all of it. *)
LEMMA HandOnDelivers ==
    ASSUME InductiveInv, HandOn
    PROVE  /\ ~over /\ ~server.done /\ ~Sending(server) /\ server.buffer = <<>>
           /\ Speaks(server) /\ ~Fed.assembling
           /\ delivered' = Append(delivered, server.message)
           /\ delivered' \in Seq(Seq(Unit)) /\ Len(delivered') \in Nat
  <1>1. /\ ForClient /\ ~Fed.assembling
        /\ delivered' = Append(delivered, Fed.buffer)
    BY DEF HandOn
  <1>2. /\ TypeOK /\ ~over /\ ~server.done /\ ServerData
        /\ Fed.buffer = Sent(server) /\ (Fed.assembling <=> Sending(server))
    BY <1>1, FedFacts
  <1>3. server.message \in Seq(Unit) /\ Len(server.message) \in Nat
    BY <1>2, FieldTypes
  <1>4. Sent(server) = server.message
    BY <1>1, <1>2, <1>3, PrefixFacts DEF Sent
  <1>5. delivered' = Append(delivered, server.message)
    BY <1>1, <1>2, <1>4
  <1>6. delivered' \in Seq(Seq(Unit))
    BY <1>2, <1>3, <1>5, AppendProperties DEF TypeOK
  <1> QED
    BY <1>1, <1>2, <1>5, <1>6, LenProperties DEF ServerData

LEMMA HandOnIsGood ==
    ASSUME InductiveInv, HandOn
    PROVE  InductiveInv'
  <1>1. ForClient /\ ~Fed.assembling /\ UNCHANGED <<server, over>>
    BY DEF HandOn
  <1>2. TypeOK /\ Fed \in Client
    BY <1>1, FedFacts
  <1>3. /\ ~over /\ ~server.done /\ ~Sending(server) /\ server.buffer = <<>>
        /\ delivered' \in Seq(Seq(Unit)) /\ Len(delivered') \in Nat
    BY HandOnDelivers
  <1>4. PICK len \in Lengths :
            \/ SendInOne(Fed, FALSE, Following(Len(delivered'), len))
            \/ SendFragmented(Fed, Following(Len(delivered'), len))
    BY DEF HandOn
  <1> DEFINE m == Following(Len(delivered'), len)
  <1>5. m \in Seq(Unit) /\ Len(m) \in Nat
    BY <1>3, LengthsAssumption, FollowingIsAMessage, LenProperties
  <1>6. ~Sending(server)'
    BY <1>1, <1>3 DEF Sending
  <1>7. server'.buffer = <<>>
    BY <1>1, <1>3
  <1>8. ASSUME client'.message = m PROVE Speaks(client)'
    BY <1>8 DEF Speaks
  <1>9. CASE SendInOne(Fed, FALSE, m)
    <2> HIDE DEF m, Fed
    <2>1. /\ client' \in Client /\ wire' \in Packet
          /\ wire'.code = "response" /\ ~wire'.more /\ wire'.data = m
          /\ client'.message = m /\ ~Sending(client')
          /\ client'.assembling = Fed.assembling /\ Sent(client') = m
      BY <1>2, <1>5, <1>9, SendInOneFacts
    <2>2. server'.buffer \o wire'.data = m
      BY <1>5, <1>7, <2>1, ConcatEmptySeq
    <2>3. ClientData'
      BY <1>1, <1>6, <1>8, <2>1, <2>2 DEF ClientData, Sending, Sent
    <2> QED
      BY <1>1, <1>2, <1>3, <2>1, <2>3, ClientHasSent
  <1>10. CASE SendFragmented(Fed, m)
    <2> DEFINE c == [Fed EXCEPT !.message = m, !.offset = 0]
    <2> HIDE DEF m, Fed
    <2>1. /\ c \in Client /\ c.message = m /\ c.offset = 0
          /\ c.assembling = Fed.assembling
      BY <1>2, <1>5 DEF Client
    <2>2. SendFragment(c)
      BY <1>10 DEF SendFragmented
    <2>3. c.offset \in 0 .. Len(c.message)
      BY <1>5, <2>1
    <2> HIDE DEF c
    <2>4. /\ client' \in Client /\ wire' \in Packet
          /\ wire'.code = "response" /\ (wire'.more <=> Sending(client'))
          /\ client'.message = c.message /\ client'.assembling = c.assembling
          /\ SubSeq(c.message, 1, c.offset) \o wire'.data = Sent(client')
      BY <2>1, <2>2, <2>3, SendFragmentFacts
    <2>5. SubSeq(c.message, 1, c.offset) = <<>>
      BY <1>5, <2>1, PrefixFacts
    <2>6. ClientData'
      BY <1>1, <1>6, <1>7, <1>8, <2>1, <2>4, <2>5 DEF ClientData, Sending, Sent
    <2> QED
      BY <1>1, <1>2, <1>3, <2>4, <2>6, ClientHasSent
  <1> QED
    BY <1>4, <1>9, <1>10

LEMMA OverIsGood ==
    ASSUME InductiveInv, over', wire' = None, UNCHANGED <<client, server, delivered>>
    PROVE  InductiveInv'
  <1>1. wire'.code = "none"
    BY DEF None
  <1>2. TypeOK'
    BY DEF InductiveInv, TypeOK
  <1>3. NothingIsAmiss'
    BY <1>1 DEF NothingIsAmiss
  <1> QED
    BY <1>2, <1>3 DEF InductiveInv

LEMMA ServerDecidesIsGood ==
    ASSUME InductiveInv, ServerDecides
    PROVE  InductiveInv'
  <1>1. /\ TypeOK /\ ~over /\ wire.code = "response"
        /\ UNCHANGED <<client, delivered, over>>
    BY APacketIsUnderWay DEF InductiveInv, ServerDecides, ForServer
  <1>2. NextId \in 0 .. IdSpace - 1
    BY <1>1, FieldTypes, NextIdIsAnId
  <1>3. /\ server' = [server EXCEPT !.done = TRUE, !.id = NextId]
        /\ wire' = [code |-> "final", id |-> NextId, start |-> FALSE,
                    length |-> FALSE, more |-> FALSE, data |-> <<>>]
    BY DEF ServerDecides, Decide
  <1> HIDE DEF NextId
  <1>4. /\ server' \in Server /\ server'.done
        /\ server'.message = server.message /\ server'.offset = server.offset
    BY <1>1, <1>2, <1>3 DEF TypeOK, Server
  <1>5. wire' \in Packet /\ wire'.code = "final" /\ wire' # None
    BY <1>2, <1>3, EmptySeq DEF Packet, None
  <1>6. ~(Sending(client) /\ Sending(server))
    BY <1>1 DEF InductiveInv, NothingIsAmiss, ClientData, ClientAck
  <1>7. ~(Sending(client)' /\ Sending(server)')
    BY <1>1, <1>4, <1>6 DEF Sending
  <1>8. TypeOK'
    BY <1>1, <1>4, <1>5 DEF TypeOK
  <1>9. NothingIsAmiss'
    BY <1>1, <1>4, <1>5, <1>7 DEF NothingIsAmiss
  <1> QED
    BY <1>8, <1>9 DEF InductiveInv

LEMMA ServerAcksIsGood ==
    ASSUME InductiveInv, ServerAcks
    PROVE  InductiveInv'
  <1>1. /\ TypeOK /\ ~over /\ wire.code = "response" /\ ~server.done
        /\ ~Sending(server) /\ wire.more
        /\ UNCHANGED <<client, delivered, over>>
    BY APacketIsUnderWay DEF InductiveInv, ServerAcks, ForServer
  <1>2. ClientData
    BY <1>1 DEF InductiveInv, NothingIsAmiss, ClientAck
  <1> DEFINE s == [server EXCEPT !.buffer = @ \o wire.data]
  <1>3. server.buffer \o wire.data \in Seq(Unit)
    BY <1>1, FieldTypes, WireTypes, ConcatProperties
  <1>4. /\ s \in Server /\ s.buffer = server.buffer \o wire.data /\ ~s.done
        /\ s.message = server.message /\ s.offset = server.offset
    BY <1>1, <1>3 DEF TypeOK, Server
  <1>5. Request(s, FALSE, FALSE, <<>>)
    BY DEF ServerAcks
  <1> HIDE DEF s
  <1>6. /\ server' \in Server /\ wire' \in Packet
        /\ wire'.code = "request" /\ ~wire'.start /\ ~wire'.more /\ wire'.data = <<>>
        /\ server'.message = s.message /\ server'.offset = s.offset
        /\ server'.buffer = s.buffer /\ server'.done = s.done
    BY <1>1, <1>4, <1>5, EmptySeq, RequestFacts
  <1>7. /\ Speaks(client)' /\ Sending(client)' /\ ~client'.assembling
        /\ server'.buffer = Sent(client)'
    BY <1>1, <1>2, <1>4, <1>6 DEF ClientData, Speaks, Sending, Sent
  <1>8. ~Sending(server)'
    BY <1>1, <1>4, <1>6 DEF Sending
  <1>9. ServerAck'
    BY <1>6, <1>7, <1>8 DEF ServerAck
  <1>10. delivered' \in Seq(Seq(Unit))
    BY <1>1 DEF TypeOK
  <1> QED
    BY <1>1, <1>4, <1>6, <1>9, <1>10, ServerHasSent

LEMMA ServerContinuesIsGood ==
    ASSUME InductiveInv, ServerContinues
    PROVE  InductiveInv'
  <1>1. /\ TypeOK /\ ~over /\ wire.code = "response" /\ ~server.done
        /\ Sending(server) /\ Send(server)
        /\ UNCHANGED <<client, delivered, over>>
    BY APacketIsUnderWay DEF InductiveInv, ServerContinues, ForServer
  <1>2. ClientAck
    BY <1>1 DEF InductiveInv, NothingIsAmiss, ClientData
  <1>3. server \in Server /\ server.offset \in 0 .. Len(server.message)
    BY <1>1, FieldTypes DEF TypeOK, Sending
  <1>4. /\ server' \in Server /\ wire' \in Packet
        /\ wire'.code = "request" /\ ~wire'.start
        /\ (wire'.more <=> Sending(server'))
        /\ (wire'.more /\ server.offset = 0 => wire'.length)
        /\ (server.offset > 0 => ~wire'.length)
        /\ server'.message = server.message /\ server'.offset <= Len(server.message)
        /\ server'.buffer = server.buffer /\ server'.done = server.done
        /\ SubSeq(server.message, 1, server.offset) \o wire'.data = Sent(server')
    BY <1>1, <1>3, SendFacts
  <1>5. client.buffer = SubSeq(server.message, 1, server.offset)
    BY <1>1, <1>2 DEF ClientAck, Sent
  <1>6. /\ Speaks(server)' /\ server'.buffer = <<>>
        /\ server'.offset <= Len(server'.message)
    BY <1>1, <1>2, <1>4 DEF ClientAck, Speaks
  <1>7. ~Sending(client)' /\ client'.assembling
    BY <1>1, <1>2 DEF ClientAck, Sending
  <1>8. CASE wire'.length /\ wire'.more
    <2>1. server.offset = 0
      BY <1>3, <1>4, <1>8
    <2>2. SubSeq(server.message, 1, server.offset) = <<>>
      BY <1>1, <1>3, <2>1, FieldTypes, PrefixFacts
    <2>3. wire'.data = Sent(server)'
      BY <1>4, <2>2, WireTypes, ConcatEmptySeq DEF Packet, Sent, Sending
    <2>4. ServerData'
      BY <1>4, <1>6, <1>7, <1>8, <2>3 DEF ServerData, Sending
    <2> QED
      BY <1>1, <1>4, <2>4, ServerHasSent DEF TypeOK
  <1>9. CASE ~(wire'.length /\ wire'.more)
    <2>1. client'.buffer \o wire'.data = Sent(server)'
      BY <1>1, <1>4, <1>5 DEF Sent, Sending
    <2>2. ServerData'
      BY <1>4, <1>6, <1>7, <1>9, <2>1 DEF ServerData, Sending
    <2> QED
      BY <1>1, <1>4, <2>2, ServerHasSent DEF TypeOK
  <1> QED
    BY <1>8, <1>9

LEMMA ServerHandsOnDelivers ==
    ASSUME InductiveInv, ServerHandsOn
    PROVE  /\ TypeOK /\ ~over /\ Speaks(client)
           /\ ~Sending(client) /\ ~client.assembling
           /\ delivered' = Append(delivered, client.message)
           /\ delivered' \in Seq(Seq(Unit)) /\ Len(delivered') \in Nat
  <1>1. /\ TypeOK /\ ~over /\ wire.code = "response" /\ ~server.done
        /\ ~Sending(server) /\ ~wire.more
        /\ delivered' = Append(delivered, server.buffer \o wire.data)
    BY APacketIsUnderWay DEF InductiveInv, ServerHandsOn, ForServer
  <1>2. ClientData
    BY <1>1 DEF InductiveInv, NothingIsAmiss, ClientAck
  <1>3. client.message \in Seq(Unit) /\ Len(client.message) \in Nat
    BY <1>1, FieldTypes
  <1>4. Sent(client) = client.message
    BY <1>1, <1>2, <1>3, PrefixFacts DEF Sent, ClientData
  <1>5. delivered' = Append(delivered, client.message)
    BY <1>1, <1>2, <1>4 DEF ClientData
  <1>6. delivered' \in Seq(Seq(Unit))
    BY <1>1, <1>3, <1>5, AppendProperties DEF TypeOK
  <1> QED
    BY <1>1, <1>2, <1>5, <1>6, LenProperties DEF ClientData

LEMMA ServerHandsOnIsGood ==
    ASSUME InductiveInv, ServerHandsOn
    PROVE  InductiveInv'
  <1>1. /\ TypeOK /\ ~over /\ ~Sending(client) /\ ~client.assembling
        /\ delivered' \in Seq(Seq(Unit)) /\ Len(delivered') \in Nat
    BY ServerHandsOnDelivers
  <1>2. ~server.done /\ UNCHANGED <<client, over>>
    BY DEF ServerHandsOn
  <1>3. PICK len \in Lengths :
            Send([server EXCEPT !.buffer = <<>>, !.offset = 0,
                                !.message = Following(Len(delivered'), len)])
    BY DEF ServerHandsOn
  <1> DEFINE m == Following(Len(delivered'), len)
             s == [server EXCEPT !.buffer = <<>>, !.offset = 0, !.message = m]
  <1>4. m \in Seq(Unit) /\ Len(m) \in Nat
    BY <1>1, LengthsAssumption, FollowingIsAMessage, LenProperties
  <1>5. Send(s)
    BY <1>3
  <1>6. ASSUME server'.message = m PROVE Speaks(server)'
    BY <1>6 DEF Speaks
  <1> HIDE DEF m
  <1>7. /\ s \in Server /\ s.message = m /\ s.offset = 0 /\ s.buffer = <<>> /\ ~s.done
    BY <1>1, <1>2, <1>4, EmptySeq DEF TypeOK, Server
  <1>8. s.offset \in 0 .. Len(s.message)
    BY <1>4, <1>7
  <1> HIDE DEF s
  <1>9. /\ server' \in Server /\ wire' \in Packet
        /\ wire'.code = "request" /\ ~wire'.start
        /\ (wire'.more <=> Sending(server'))
        /\ (wire'.more /\ s.offset = 0 => wire'.length)
        /\ server'.message = s.message /\ server'.offset <= Len(s.message)
        /\ server'.buffer = s.buffer /\ server'.done = s.done
        /\ SubSeq(s.message, 1, s.offset) \o wire'.data = Sent(server')
    BY <1>1, <1>5, <1>7, <1>8, SendFacts
  <1>10. SubSeq(s.message, 1, s.offset) = <<>>
    BY <1>4, <1>7, PrefixFacts
  <1>11. wire'.data = Sent(server)'
    BY <1>9, <1>10, ConcatEmptySeq DEF Packet, Sent, Sending
  <1>12. ~Sending(client)' /\ ~client'.assembling
    BY <1>1, <1>2 DEF Sending
  <1>13. ServerData'
    BY <1>6, <1>7, <1>9, <1>11, <1>12 DEF ServerData, Sending
  <1> QED
    BY <1>1, <1>2, <1>7, <1>9, <1>13, ServerHasSent

LEMMA EndIsGood ==
    ASSUME InductiveInv, RunEnds \/ ExchangeFails
    PROVE  InductiveInv' /\ ~over /\ over' /\ UNCHANGED delivered
  <1>1. ~over
    BY APacketIsUnderWay DEF RunEnds, ExchangeFails
  <1>2. over' /\ wire' = None /\ UNCHANGED <<client, server, delivered>>
    BY DEF RunEnds, ExchangeFails
  <1> QED
    BY <1>1, <1>2, OverIsGood

LEMMA StutteringIsGood ==
    ASSUME InductiveInv, UNCHANGED vars
    PROVE  InductiveInv'
  <1>1. TypeOK'
    BY DEF InductiveInv, TypeOK, vars
  <1>2. /\ Sending(client)' = Sending(client) /\ Sending(server)' = Sending(server)
        /\ Sent(client)' = Sent(client) /\ Sent(server)' = Sent(server)
        /\ Speaks(client)' = Speaks(client) /\ Speaks(server)' = Speaks(server)
    BY DEF vars, Sending, Sent, Speaks
  <1>3. /\ ClientData' = ClientData /\ ClientAck' = ClientAck
        /\ ServerData' = ServerData /\ ServerAck' = ServerAck
    BY <1>2 DEF vars, ClientData, ClientAck, ServerData, ServerAck
  <1>4. NothingIsAmiss'
    BY <1>2, <1>3 DEF InductiveInv, NothingIsAmiss, vars
  <1> QED
    BY <1>1, <1>4 DEF InductiveInv

LEMMA NextIsInductive == InductiveInv /\ [Next]_vars => InductiveInv'
<1> SUFFICES ASSUME InductiveInv, [Next]_vars PROVE InductiveInv'
  OBVIOUS
<1>1. CASE TeapStart
  BY <1>1, TeapStartIsGood
<1>2. CASE NextFragment
  BY <1>2, NextFragmentIsGood
<1>3. CASE FragmentAck
  BY <1>3, FragmentAckIsGood
<1>4. CASE HandOn
  BY <1>4, HandOnIsGood
<1>5. CASE RunEnds \/ ExchangeFails
  BY <1>5, EndIsGood
<1>6. CASE ServerDecides
  BY <1>6, ServerDecidesIsGood
<1>7. CASE ServerAcks
  BY <1>7, ServerAcksIsGood
<1>8. CASE ServerContinues
  BY <1>8, ServerContinuesIsGood
<1>9. CASE ServerHandsOn
  BY <1>9, ServerHandsOnIsGood
<1>10. CASE UNCHANGED vars
  BY <1>10, StutteringIsGood
<1> QED
  BY <1>1, <1>2, <1>3, <1>4, <1>5, <1>6, <1>7, <1>8, <1>9, <1>10 DEF Next, ClientStep, ServerStep

-----------------------------------------------------------------------------
(* The theorems *)

(* Between a sender, the packet under way and the receiver nothing of a        *)
(* message is missing, doubled or out of place (_send_fragmented and           *)
(* FragmentAssembler.feed), whatever the two sides do next.                    *)
THEOREM Invariance == Spec => []InductiveInv
<1> QED
  BY InitIsInductive, NextIsInductive, PTL DEF Spec

(* Identifiers stay in their space, however long the conversation, and the     *)
(* buffers hold units of messages.                                             *)
THEOREM TypeCorrectness == Spec => []TypeOK
<1>1. InductiveInv => TypeOK
  BY DEF InductiveInv
<1> QED
  BY <1>1, Invariance, PTL

(* _send_fragmented looks at no reply but the one to the last fragment, and is *)
(* right: until then it gets empty packets, from a server with nothing half    *)
(* sent.  What the client sends in the middle of a message of the server's     *)
(* acknowledges a fragment of it that the assembler holds.                     *)
THEOREM AcknowledgementsAreAcks == Spec => []AcksAreAcks
<1>1. InductiveInv => AcksAreAcks
  <2> SUFFICES ASSUME InductiveInv, ~over PROVE AcksAreAcks
    BY DEF AcksAreAcks
  <2>1. ASSUME Sending(client), wire.code = "request"
        PROVE  wire.data = <<>> /\ ~wire.more /\ ~Sending(server)
    <3>1. ServerAck
      BY <2>1 DEF InductiveInv, NothingIsAmiss, ServerData
    <3> QED
      BY <3>1 DEF ServerAck
  <2>2. ASSUME Sending(server), wire.code = "response"
        PROVE  wire.data = <<>> /\ ~wire.more /\ client.assembling
    <3>1. ClientAck
      BY <2>2 DEF InductiveInv, NothingIsAmiss, ClientData
    <3> QED
      BY <3>1 DEF ClientAck
  <2> QED
    BY <2>1, <2>2 DEF AcksAreAcks
<1> QED
  BY <1>1, Invariance, PTL

LEMMA DeliveryIsAMessage ==
    ASSUME NEW side, Speaks(side), ~over, UNCHANGED over,
           delivered' = Append(delivered, side.message)
    PROVE  Messages!Deliver
  <1>1. PICK len \in Lengths : side.message = Following(Len(delivered), len)
    BY DEF Speaks
  <1> QED
    BY <1>1 DEF Messages!Deliver, Following

(* Fragmentation is invisible from above: whatever the lengths of the messages *)
(* and the cuts, each is handed on once, whole and in its turn                 *)
(* (_send_fragmented, FragmentAssembler).                                      *)
THEOREM FragmentsImplementMessages == Spec => ImplementsMessages
<1>1. Init => Messages!Init
  BY DEF Init, Messages!Init
<1>2. InductiveInv /\ [Next]_vars => [Messages!Next]_(Messages!vars)
  <2> SUFFICES ASSUME InductiveInv, [Next]_vars
               PROVE  [Messages!Next]_(Messages!vars)
    OBVIOUS
  <2>1. CASE TeapStart \/ NextFragment \/ FragmentAck
    BY <2>1 DEF TeapStart, NextFragment, FragmentAck, Messages!vars
  <2>2. CASE ServerDecides \/ ServerAcks \/ ServerContinues \/ UNCHANGED vars
    BY <2>2 DEF ServerDecides, ServerAcks, ServerContinues, vars, Messages!vars
  <2>3. CASE HandOn
    <3>1. Messages!Deliver
      BY <2>3, HandOnDelivers, DeliveryIsAMessage DEF HandOn
    <3> QED
      BY <3>1 DEF Messages!Next
  <2>4. CASE ServerHandsOn
    <3>1. Messages!Deliver
      BY <2>4, ServerHandsOnDelivers, DeliveryIsAMessage DEF ServerHandsOn
    <3> QED
      BY <3>1 DEF Messages!Next
  <2>5. CASE RunEnds \/ ExchangeFails
    <3>1. Messages!End
      BY <2>5, EndIsGood DEF Messages!End
    <3> QED
      BY <3>1 DEF Messages!Next
  <2> QED
    BY <2>1, <2>2, <2>3, <2>4, <2>5 DEF Next, ClientStep, ServerStep
<1> QED
  BY <1>1, <1>2, Invariance, PTL DEF Spec, ImplementsMessages, Messages!Spec
=============================================================================
