----------------------------- MODULE Fragments -----------------------------
(* TEAP messages longer than a packet: the client's _send_fragmented and its   *)
(* FragmentAssembler against a server that fragments as RFC 9930 says.  The    *)
(* exchange below is a call that is answered or fails (RequestReply), so there *)
(* is at most one packet under way; what is in a message is TLS's business and *)
(* here only its units, each of which knows where it belongs.                  *)
(*                                                                             *)
(* Definitions named for a fault (StrictlyBeyond before IsLast) are the        *)
(* variants of the next definition that the checks must tell from it.          *)
EXTENDS Naturals, Sequences

CONSTANTS Lengths,      \* lengths of messages, in units
          MaxChunk,     \* max_chunk: the most units a packet of either side holds
          IdSpace,      \* EAP identifiers: 256
          MaxMessages   \* bound: messages of the conversation

VARIABLES client,      \* the sending loop and the assembler of the TEAPSession
          server,      \* the same for the server
          wire,        \* the packet under way
          delivered,   \* the messages each side has handed on, in order
          over         \* the run has ended

vars == <<client, server, wire, delivered, over>>

ASSUME LengthsAssumption == Lengths \subseteq Nat /\ 0 \in Lengths
ASSUME SizesAssumption   == MaxChunk \in Nat \ {0} /\ IdSpace \in Nat \ {0} /\ MaxMessages \in Nat

Unit == Nat \X Nat

(* start, length and more are the flags S, L and M.  A final packet is an      *)
(* Access-Accept or Access-Reject.                                             *)
Packet == [code : {"request", "response", "final"}, id : 0 .. IdSpace - 1,
           start : BOOLEAN, length : BOOLEAN, more : BOOLEAN, data : Seq(Unit)]

None == [code |-> "none"]

Messages == INSTANCE WholeMessages

(* The message after the first n. *)
Following(n, len) == Messages!Whole(n + 1, len)

(* message and offset: what is being sent and how far; id: _eap_id, and the    *)
(* server's last identifier; buffer and assembling: the assembler.  done: the  *)
(* server has decided the outcome.                                             *)
Init == /\ client = [message |-> <<>>, offset |-> 0, id |-> 0,
                     buffer |-> <<>>, assembling |-> FALSE]
        /\ server = [message |-> <<>>, offset |-> 0, id |-> 0,
                     buffer |-> <<>>, done |-> FALSE]
        /\ wire = [code |-> "request", id |-> 0, start |-> TRUE, length |-> FALSE,
                   more |-> FALSE, data |-> <<>>]
        /\ delivered = <<>>
        /\ over = FALSE

(* In the middle of a message. *)
Sending(side) == side.offset < Len(side.message)

(* n units from the offset on, or as many as there are. *)
Slice(side, n) == SubSeq(side.message, side.offset + 1,
                         IF side.offset + n < Len(side.message) THEN side.offset + n
                         ELSE Len(side.message))

-----------------------------------------------------------------------------
(* The client sends *)

Respond(id, length, more, data) ==
    wire' = [code |-> "response", id |-> id, start |-> FALSE,
             length |-> length, more |-> more, data |-> data]

StrictlyBeyond(c) == c.offset + MaxChunk > Len(c.message)

IsLast(c) == c.offset + MaxChunk >= Len(c.message)

(* One turn of the loop in _send_fragmented. *)
SendFragment(c) ==
    /\ Respond(c.id, c.offset = 0, ~IsLast(c), Slice(c, MaxChunk))
    /\ client' = [c EXCEPT !.offset = @ + MaxChunk]

(* Everything but a flight of the handshake goes out in one packet, whatever   *)
(* its length; only the ClientHello has the length flag.                       *)
SendInOne(c, length, message) ==
    /\ Respond(c.id, length, FALSE, message)
    /\ client' = [c EXCEPT !.message = message, !.offset = Len(message)]

SendFragmented(c, message) ==
    /\ message # <<>>
    /\ SendFragment([c EXCEPT !.message = message, !.offset = 0])

-----------------------------------------------------------------------------
(* The client receives: the server's reply to its last packet *)

(* The assembler is not told of a start. *)
TeapStart == /\ wire.code = "request" /\ wire.start
             /\ \E len \in Lengths \ {0} :
                   SendInOne([client EXCEPT !.id = wire.id], TRUE, Following(0, len))
             /\ UNCHANGED <<server, delivered, over>>

KeepId(c) == c

CountId(c) == [c EXCEPT !.id = @ + 1]

TakeId(c) == [c EXCEPT !.id = wire.id]

(* Any reply to a fragment but the last is taken as its acknowledgement. *)
NextFragment == /\ wire.code \in {"request", "final"}
                /\ Sending(client)
                /\ SendFragment(TakeId(client))
                /\ UNCHANGED <<server, delivered, over>>

FeedForgetful(c, p) ==
    IF p.length /\ p.more THEN [c EXCEPT !.buffer = p.data, !.assembling = TRUE]
    ELSE IF c.assembling THEN [c EXCEPT !.buffer = p.data, !.assembling = p.more]
    ELSE [c EXCEPT !.buffer = p.data]

FeedUntilLength(c, p) ==
    IF p.length /\ p.more THEN [c EXCEPT !.buffer = p.data, !.assembling = TRUE]
    ELSE IF c.assembling THEN [c EXCEPT !.buffer = @ \o p.data, !.assembling = FALSE]
    ELSE [c EXCEPT !.buffer = p.data]

(* FragmentAssembler.feed.  The buffer also stands for the data it returns,    *)
(* when it is not assembling any more (needs_ack).                             *)
Feed(c, p) ==
    IF p.length /\ p.more THEN [c EXCEPT !.buffer = p.data, !.assembling = TRUE]
    ELSE IF c.assembling THEN [c EXCEPT !.buffer = @ \o p.data, !.assembling = p.more]
    ELSE [c EXCEPT !.buffer = p.data]

ForClient == wire.code = "request" /\ ~wire.start /\ ~Sending(client)

Fed == Feed([client EXCEPT !.id = wire.id], wire)

FragmentAck == /\ ForClient
               /\ Fed.assembling
               /\ Respond(Fed.id, FALSE, FALSE, <<>>)
               /\ client' = Fed
               /\ UNCHANGED <<server, delivered, over>>

(* The message goes to TLS, and the client's next one is what TLS, or the TLVs *)
(* in it, call for.                                                            *)
HandOn == /\ ForClient
          /\ ~Fed.assembling
          /\ delivered' = Append(delivered, Fed.buffer)
          /\ \E len \in Lengths :
                LET message == Following(Len(delivered'), len)
                IN  SendInOne(Fed, FALSE, message) \/ SendFragmented(Fed, message)
          /\ UNCHANGED <<server, over>>

RunEnds == /\ wire.code = "final"
           /\ ~Sending(client)
           /\ over' = TRUE
           /\ wire' = None
           /\ UNCHANGED <<client, server, delivered>>

(* The exchange fails: the server or the network lost the packet. *)
ExchangeFails == /\ ~over
                 /\ over' = TRUE
                 /\ wire' = None
                 /\ UNCHANGED <<client, server, delivered>>

-----------------------------------------------------------------------------
(* The server *)

(* It answers the response to its last request only. *)
ForServer == wire.code = "response" /\ wire.id = server.id

NextId == (server.id + 1) % IdSpace

Request(s, length, more, data) ==
    /\ wire' = [code |-> "request", id |-> NextId, start |-> FALSE,
                length |-> length, more |-> more, data |-> data]
    /\ server' = [s EXCEPT !.id = NextId]

(* The next fragment, of any size; the first of several has the length, a      *)
(* message in one packet may have it.                                          *)
Send(s) ==
    \E n \in 0 .. MaxChunk, length \in BOOLEAN :
        LET data == Slice(s, n)
            more == s.offset + n < Len(s.message)
        IN  /\ n > 0 \/ s.message = <<>>
            /\ more \/ s.offset > 0 => (length <=> s.offset = 0)
            /\ Request([s EXCEPT !.offset = @ + Len(data)], length, more, data)

Decide == /\ wire' = [code |-> "final", id |-> NextId, start |-> FALSE,
                      length |-> FALSE, more |-> FALSE, data |-> <<>>]
          /\ server' = [server EXCEPT !.done = TRUE, !.id = NextId]

(* Decided: also where the client ought to acknowledge and does not. *)
ServerDecides ==
    /\ ForServer
    /\ Decide
    /\ UNCHANGED <<client, delivered, over>>

ServerAcks == /\ ForServer /\ ~server.done
              /\ ~Sending(server)
              /\ wire.more
              /\ Request([server EXCEPT !.buffer = @ \o wire.data], FALSE, FALSE, <<>>)
              /\ UNCHANGED <<client, delivered, over>>

ServerContinues == /\ ForServer /\ ~server.done
                   /\ Sending(server)
                   /\ wire.data = <<>>
                   /\ Send(server)
                   /\ UNCHANGED <<client, delivered, over>>

ServerHandsOn ==
    /\ ForServer /\ ~server.done
    /\ ~Sending(server)
    /\ ~wire.more
    /\ Len(delivered) + 2 <= MaxMessages
    /\ delivered' = Append(delivered, server.buffer \o wire.data)
    /\ \E len \in Lengths :
          Send([server EXCEPT !.buffer = <<>>, !.offset = 0,
                              !.message = Following(Len(delivered'), len)])
    /\ UNCHANGED <<client, over>>

ClientStep == TeapStart \/ NextFragment \/ FragmentAck \/ HandOn \/ RunEnds

ServerStep == ServerDecides \/ ServerAcks \/ ServerContinues \/ ServerHandsOn

Next == ClientStep \/ ServerStep \/ ExchangeFails

Spec == Init /\ [][Next]_vars

(* The client processes each reply, and the server answers what it is asked    *)
(* (RequestReply); messages are finite.                                        *)
FairSpec == Spec /\ WF_vars(ClientStep \/ ServerStep)

-----------------------------------------------------------------------------
(* Properties *)

Client == [message : Seq(Unit), offset : Nat, id : 0 .. IdSpace - 1,
           buffer : Seq(Unit), assembling : BOOLEAN]

Server == [message : Seq(Unit), offset : Nat, id : 0 .. IdSpace - 1,
           buffer : Seq(Unit), done : BOOLEAN]

TypeOK == /\ client \in Client
          /\ server \in Server
          /\ wire \in Packet \cup {None}
          /\ delivered \in Seq(Seq(Unit))
          /\ over \in BOOLEAN

(* What a side in the middle of a message takes as an acknowledgement is one,  *)
(* and the other side has nothing half sent of its own (is_last in             *)
(* _send_fragmented, which looks at no reply but the last; needs_ack).         *)
AcksAreAcks ==
    ~over => /\ Sending(client) /\ wire.code = "request"
                   => wire.data = <<>> /\ ~wire.more /\ ~Sending(server)
             /\ Sending(server) /\ wire.code = "response"
                   => wire.data = <<>> /\ ~wire.more /\ client.assembling

(* What these rest on.  The message of a side that is sending is the next one  *)
(* to be handed on; Sent is as much of it as has left.                         *)
Speaks(side) == \E len \in Lengths : side.message = Following(Len(delivered), len)

Sent(side) == SubSeq(side.message, 1, IF Sending(side) THEN side.offset ELSE Len(side.message))

(* Data of the client under way: with what the server has collected, all that  *)
(* has left.                                                                   *)
ClientData == /\ Speaks(client) /\ ~client.assembling
              /\ ~Sending(server)
              /\ server.buffer \o wire.data = Sent(client)
              /\ wire.more <=> Sending(client)

ServerAck == /\ wire.data = <<>> /\ ~wire.more
             /\ Speaks(client) /\ Sending(client) /\ ~client.assembling
             /\ ~Sending(server)
             /\ server.buffer = Sent(client)

(* Data of the server under way.  A packet with the flags of a first fragment  *)
(* starts the assembler over, and may.                                         *)
ServerData == /\ Speaks(server) /\ server.buffer = <<>>
              /\ server.offset <= Len(server.message)
              /\ ~Sending(client)
              /\ wire.more <=> Sending(server)
              /\ IF client.assembling /\ ~(wire.length /\ wire.more)
                 THEN client.buffer \o wire.data = Sent(server)
                 ELSE wire.data = Sent(server) /\ (wire.more => wire.length)

ClientAck == /\ wire.data = <<>> /\ ~wire.more
             /\ Speaks(server) /\ Sending(server) /\ server.buffer = <<>>
             /\ ~Sending(client)
             /\ client.assembling /\ client.buffer = Sent(server)

(* One side sends at a time, and between the receiver and the wire nothing of  *)
(* it is missing, doubled or out of place.  A server that has decided does not *)
(* listen any more, and the client sends the rest of its message to it.        *)
NothingIsAmiss ==
    /\ over <=> wire = None
    /\ wire.code = "final" => server.done
    /\ wire.code = "request" => ~server.done
    /\ ~over /\ server.done => ~(Sending(client) /\ Sending(server))
    /\ wire.code = "response" /\ server.done => ~Sending(server)
    /\ wire.code = "response" /\ ~server.done => ClientData \/ ClientAck
    /\ wire.code = "request" /\ ~wire.start => ServerAck \/ ServerData
    /\ wire.code = "request" /\ wire.start =>
          /\ delivered = <<>> /\ server.buffer = <<>> /\ ~client.assembling
          /\ ~Sending(client) /\ ~Sending(server)

InductiveInv == TypeOK /\ NothingIsAmiss

(* However the two sides cut their messages up, each message is handed on      *)
(* once, whole and in its turn (_send_fragmented and FragmentAssembler).       *)
ImplementsMessages == Messages!Spec

(* Neither side waits for the other for ever: every fragment is acknowledged   *)
(* or followed by the next, under an identifier the server accepts             *)
(* (_send_fragmented takes over the identifier of each acknowledgement), also  *)
(* when the server decides in the middle of a message.                         *)
ConversationEnds == <>over
=============================================================================
