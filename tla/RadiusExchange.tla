--------------------------- MODULE RadiusExchange ---------------------------
(* RADIUS over UDP as radius.send_receive and TEAPSession._radius_exchange use *)
(* it: each exchange opens a socket of its own, sends one packet up to Retries *)
(* times and takes the first datagram with the expected identifier; the reply  *)
(* is then verified against the request's authenticator.  The network loses,   *)
(* duplicates, delays and reorders datagrams.  The server, not part of the     *)
(* repository, answers a request it has seen with the reply it gave it.        *)
(*                                                                             *)
(* Definitions named for a fault (Unverified before Verified) are the variants *)
(* of the next definition that the checks must tell from it.                   *)
EXTENDS Naturals, FiniteSets

CONSTANTS Sessions,      \* sessions running at the same time
          Ports,         \* local ports the operating system hands out
          IdSpace,       \* identifiers: 256 for a session, 1 for accounting
          Retries,       \* config.retries
          Loads          \* bound: how many exchanges each session may make

VARIABLES ex,        \* each session's exchange: socket, request and progress
          requests,  \* datagrams on their way to the server
          replies,   \* datagrams on their way to a client port
          handled,   \* requests the server has taken as new
          losses,    \* history: datagrams of the current exchange lost so far
          load       \* which of Loads this is

vars == <<ex, requests, replies, handled, losses, load>>

ASSUME SizesAssumption == /\ IdSpace \in Nat \ {0}
                          /\ Retries \in Nat \ {0}
                          /\ Loads \subseteq [exchanges : [Sessions -> Nat], patient : BOOLEAN]
ASSUME PortsAssumption == IsFiniteSet(Sessions) /\ IsFiniteSet(Ports)

(* The authenticator is random in the code, so one exchange's alone: it is     *)
(* named by the session and the exchange's number.  A reply is the packet it   *)
(* answers.                                                                    *)
Packet == [port : Ports, id : Nat, auth : Sessions \X Nat]

(* expired: wait_for has cancelled the future and the coroutine has not yet    *)
(* resumed; answered and error: the future is set.  The rest are ends.         *)
Waiting == {"waiting", "expired", "answered", "error"}
Ended   == {"no-answer", "mismatch", "os-error", "cancelled"}
None    == [none |-> TRUE]

(* pkt is the request being sent, heard the datagram the future was set to,    *)
(* and took the last reply that decode_response verified.                      *)
InitExchange == [state |-> "closed", n |-> 0, radiusId |-> 0, attempt |-> 0,
                 pkt |-> None, heard |-> None, took |-> None]

Init == /\ ex = [s \in Sessions |-> InitExchange]
        /\ requests = {}
        /\ replies = {}
        /\ handled = {}
        /\ losses = [s \in Sessions |-> 0]
        /\ load \in Loads

(* Timers longer than any delay: they fire only when nothing is in flight. *)
Patient == load.patient

-----------------------------------------------------------------------------
(* The client *)

(* The socket is open: from the first transmission until the finally clause.   *)
Open(s) == ex[s].state \in Waiting

PortsInUse == {ex[s].pkt.port : s \in {t \in Sessions : Open(t)}}

NextIdUnwrapped(rid) == rid + 1

NextRadiusId(rid) == (rid + 1) % IdSpace

(* sendto: the datagram leaves or is lost, with before lost already.  Unless   *)
(* timers are patient, a lost datagram is one that stays in flight for ever.   *)
Transmit(s, pkt, before) ==
    \/ requests' = requests \cup {pkt} /\ losses' = [losses EXCEPT ![s] = before]
    \/ /\ Patient
       /\ losses' = [losses EXCEPT ![s] = before + 1]
       /\ UNCHANGED requests

(* _radius_exchange: a fresh authenticator, the next identifier, a new socket  *)
(* on a port no open socket has.                                               *)
Begin(s) ==
    /\ ex[s].state = "closed"
    /\ ex[s].n < load.exchanges[s]
    /\ \E port \in Ports \ PortsInUse :
          LET n   == ex[s].n + 1
              pkt == [port |-> port, id |-> ex[s].radiusId, auth |-> <<s, n>>]
          IN  /\ ex' = [ex EXCEPT ![s] = [@ EXCEPT !.state = "waiting", !.n = n,
                                          !.radiusId = NextRadiusId(ex[s].radiusId),
                                          !.attempt = 1, !.pkt = pkt]]
              /\ Transmit(s, pkt, 0)
    /\ UNCHANGED <<replies, handled, load>>

AnyExpected(s, r) == TRUE

(* datagram_received keeps a datagram of the expected identifier. *)
Expected(s, r) == r.id = ex[s].pkt.id

(* A datagram reaches the open socket of its port: the first expected one sets *)
(* the future; others, and any that come when it is done, are dropped.         *)
DatagramReceived(s, r) ==
    /\ Open(s)
    /\ ex[s].pkt.port = r.port
    /\ ex' = IF Expected(s, r) /\ ex[s].state = "waiting"
             THEN [ex EXCEPT ![s].state = "answered", ![s].heard = r]
             ELSE ex

(* The exchange's timer fires on a future that is not set. *)
InFlight(s) == \E r \in requests \cup replies : r.auth = ex[s].pkt.auth

ExpireFirstAttempt(s) ==
    /\ ex[s].state = "waiting"
    /\ ex[s].attempt = 1
    /\ ex' = [ex EXCEPT ![s].state = "expired"]
    /\ UNCHANGED <<requests, replies, handled, losses, load>>

Expire(s) == /\ ex[s].state = "waiting"
             /\ Patient => ~InFlight(s)
             /\ ex' = [ex EXCEPT ![s].state = "expired"]
             /\ UNCHANGED <<requests, replies, handled, losses, load>>

LastButOne(s) == ex[s].attempt = Retries - 1

(* The coroutine resumes after the timeout: the same packet again, or the end. *)
LastAttempt(s) == ex[s].attempt = Retries

RetransmitAsNew(s) ==
    /\ ex[s].state = "expired"
    /\ ~LastAttempt(s)
    /\ LET pkt == [ex[s].pkt EXCEPT !.id = ex[s].radiusId]
       IN  /\ ex' = [ex EXCEPT ![s].state = "waiting", ![s].attempt = @ + 1, ![s].pkt = pkt]
           /\ Transmit(s, pkt, losses[s])
    /\ UNCHANGED <<replies, handled, load>>

Retransmit(s) ==
    /\ ex[s].state = "expired"
    /\ ~LastAttempt(s)
    /\ ex' = [ex EXCEPT ![s].state = "waiting", ![s].attempt = @ + 1]
    /\ Transmit(s, ex[s].pkt, losses[s])
    /\ UNCHANGED <<replies, handled, load>>

GiveUpAndGoOn(s) ==
    /\ ex[s].state = "expired"
    /\ LastAttempt(s)
    /\ ex' = [ex EXCEPT ![s].state = "closed"]
    /\ UNCHANGED <<requests, replies, handled, losses, load>>

GiveUp(s) == /\ ex[s].state = "expired"
             /\ LastAttempt(s)
             /\ ex' = [ex EXCEPT ![s].state = "no-answer"]
             /\ UNCHANGED <<requests, replies, handled, losses, load>>

Unverified(s, r) == TRUE

(* decode_response, once the socket is closed. *)
Verified(s, r) == r.auth = ex[s].pkt.auth

ProcessReply(s) ==
    /\ ex[s].state = "answered"
    /\ ex' = IF Verified(s, ex[s].heard)
             THEN [ex EXCEPT ![s].state = "closed", ![s].took = ex[s].heard]
             ELSE [ex EXCEPT ![s].state = "mismatch"]
    /\ UNCHANGED <<requests, replies, handled, losses, load>>

(* error_received (port unreachable): no retry, the exception ends the run. *)
ErrorReceived(s) == /\ ex[s].state = "waiting"
                    /\ ex' = [ex EXCEPT ![s].state = "error"]
                    /\ UNCHANGED <<requests, replies, handled, losses, load>>

RaiseError(s) == /\ ex[s].state = "error"
                 /\ ex' = [ex EXCEPT ![s].state = "os-error"]
                 /\ UNCHANGED <<requests, replies, handled, losses, load>>

(* The limit of the whole run (run_teap_test) cancels it wherever it waits. *)
Cancel(s) == /\ Open(s)
             /\ ex' = [ex EXCEPT ![s].state = "cancelled"]
             /\ UNCHANGED <<requests, replies, handled, losses, load>>

-----------------------------------------------------------------------------
(* The network and the server.  A datagram delivered may still be in flight:   *)
(* that is a duplicate.                                                        *)

Delivered(net, r) == {net, net \ {r}}

DeliverReply(r) ==
    /\ \/ \E s \in Sessions : DatagramReceived(s, r)
       \/ r.port \notin PortsInUse /\ UNCHANGED ex
    /\ replies' \in Delivered(replies, r)
    /\ UNCHANGED <<requests, handled, losses, load>>

ServerReceives(r) ==
    /\ handled' = handled \cup {r}
    /\ requests' \in Delivered(requests, r)
    /\ LET s == r.auth[1]
       IN  \/ replies' = replies \cup {r} /\ UNCHANGED losses
           \/ /\ Patient
              /\ UNCHANGED replies
              /\ losses' = IF r.auth = ex[s].pkt.auth
                           THEN [losses EXCEPT ![s] = IF @ < Retries THEN @ + 1 ELSE @]
                           ELSE losses
    /\ UNCHANGED <<ex, load>>

Next ==
    \/ \E s \in Sessions : \/ Begin(s) \/ Expire(s) \/ Retransmit(s) \/ GiveUp(s)
                           \/ ProcessReply(s) \/ ErrorReceived(s) \/ RaiseError(s)
                           \/ Cancel(s)
    \/ \E r \in requests : ServerReceives(r)
    \/ \E r \in replies : DeliverReply(r)

Spec == Init /\ [][Next]_vars

(* Timers fire and the event loop resumes whoever is ready; the network and    *)
(* the server owe nothing.                                                     *)
Fairness == \A s \in Sessions :
               /\ WF_vars(Expire(s))
               /\ WF_vars(Retransmit(s) \/ GiveUp(s) \/ ProcessReply(s) \/ RaiseError(s))

FairSpec == Spec /\ Fairness

-----------------------------------------------------------------------------
(* Properties *)

Exchange == [state : {"closed"} \cup Waiting \cup Ended, n : Nat,
             radiusId : 0 .. IdSpace - 1, attempt : 0 .. Retries,
             pkt : Packet \cup {None}, heard : Packet \cup {None}, took : Packet \cup {None}]

TypeOK == /\ ex \in [Sessions -> Exchange]
          /\ requests \subseteq Packet
          /\ replies \subseteq Packet
          /\ handled \subseteq Packet /\ IsFiniteSet(handled)
          /\ losses \in [Sessions -> Nat]
          /\ load \in Loads

(* A reply that is processed answers the request just sent: not another        *)
(* session's, not an earlier exchange's whose delayed reply reached a socket   *)
(* on the same port with the same identifier (decode_response).                *)
RepliesAreOwn ==
    \A s \in Sessions :
        ex[s].state = "closed" /\ ex[s].n > 0
            => ex[s].took # None /\ ex[s].took.auth = <<s, ex[s].n>>

(* A session's own delayed reply never ends its run before the identifiers     *)
(* wrap, even when the operating system hands out the same port again          *)
(* (_next_radius_id and expected_id).                                          *)
OwnDelayedRepliesAreIgnored ==
    \A s \in Sessions :
        LET heard == ex[s].heard.auth
        IN  ex[s].state = "mismatch"
               => heard[1] # s \/ (ex[s].n - heard[2]) % IdSpace = 0

(* However often a request is retransmitted or duplicated, the server takes    *)
(* the exchange as new once: a retry is the identical packet (send_receive).   *)
ServedOnce ==
    \A r, q \in handled : r.auth = q.auth => r = q

(* With timers longer than the round trip, an exchange is reported unanswered  *)
(* only when every attempt lost a datagram (the retry loop of send_receive).   *)
TimeoutMeansLoss ==
    Patient => \A s \in Sessions : ex[s].state = "no-answer" => losses[s] >= Retries

(* To the TEAP session it is a call of a lossless, in-order server: no request *)
(* is taken twice or after a later one, no call returns that the server has    *)
(* not taken, and none follows one that failed (send_receive, decode_response  *)
(* and the run loop, which ends with the first exchange that raises).          *)
Phase(s) == IF ex[s].state = "closed" THEN "idle"
            ELSE IF Open(s) THEN "pending" ELSE "failed"

TakenOf(s) == Cardinality({r \in handled : r.auth[1] = s})

Calls == INSTANCE RequestReply WITH
            Callers <- Sessions,
            calls   <- [s \in Sessions |-> ex[s].n],
            served  <- [s \in Sessions |-> TakenOf(s)],
            phase   <- [s \in Sessions |-> Phase(s)]

ImplementsCalls == Calls!Spec

(* What these rest on.  The client's side: what an exchange sends bears its    *)
(* number, what it hears the server has sent, and open sockets have ports of   *)
(* their own.                                                                  *)
ClientMatches ==
    \A s \in Sessions :
        /\ ex[s].n = 0 => ex[s].state = "closed"
        /\ ex[s].n > 0 => ex[s].pkt \in Packet /\ ex[s].pkt.auth = <<s, ex[s].n>>
        /\ ex[s].state = "answered" => ex[s].heard \in handled
        /\ ex[s].state = "closed" /\ ex[s].n > 0
              => ex[s].took \in handled /\ ex[s].took.auth = <<s, ex[s].n>>
        /\ \A t \in Sessions :
              Open(s) /\ Open(t) /\ ex[s].pkt.port = ex[t].pkt.port => s = t

(* The network's: a packet in flight belongs to one exchange, is the current   *)
(* one's own packet, or has been taken by the server.                          *)
NetworkMatches ==
    /\ replies \subseteq handled
    /\ \A r \in requests \cup handled :
          LET e == ex[r.auth[1]]
          IN  /\ r.auth[2] \in 1 .. e.n
              /\ r.auth[2] = e.n => r = e.pkt
              /\ r \in handled \/ r.auth[2] = e.n

(* Every exchange but the last has been taken, and the last when it is over    *)
(* and answered.                                                               *)
TakenInTurn ==
    \A s \in Sessions :
        TakenOf(s) = IF ex[s].n = 0 \/ ex[s].pkt \in handled THEN ex[s].n ELSE ex[s].n - 1

(* An attempt of the current exchange is under way, or has lost a datagram.    *)
AttemptsAreLost ==
    Patient => \A s \in Sessions :
        /\ ex[s].state = "waiting" => losses[s] + 1 >= ex[s].attempt
        /\ ex[s].state = "waiting" /\ ~InFlight(s) => losses[s] >= ex[s].attempt
        /\ ex[s].state = "expired" => losses[s] >= ex[s].attempt

ExchangesMatch == /\ TypeOK
                  /\ ClientMatches
                  /\ NetworkMatches
                  /\ TakenInTurn
                  /\ AttemptsAreLost
                  /\ ServedOnce
                  /\ TimeoutMeansLoss

(* An identifier is its exchange's number but for the times they have wrapped, *)
(* and what ends an exchange by not verifying the server has sent, under the   *)
(* identifier of the request.                                                  *)
Counted(m, id) == \E wraps \in 0 .. m : m = IdSpace * wraps + id

IdsAreCounted ==
    /\ \A s \in Sessions :
          /\ Counted(ex[s].n, ex[s].radiusId)
          /\ ex[s].n > 0 => Counted(ex[s].n - 1, ex[s].pkt.id)
          /\ ex[s].state \in {"answered", "mismatch"}
                => ex[s].heard \in handled /\ ex[s].heard.id = ex[s].pkt.id
    /\ \A r \in requests \cup handled : Counted(r.auth[2] - 1, r.id)

InductiveInv == ExchangesMatch /\ IdsAreCounted

(* Every exchange ends, whatever the network and the server do: a timer fires  *)
(* when it is due, duplicates in flight or not.                                *)
ExchangesEnd == \A s \in Sessions : Open(s) /\ ~Patient ~> ~Open(s)
=============================================================================
