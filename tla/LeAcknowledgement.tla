------------------------- MODULE LeAcknowledgement -------------------------
(***************************************************************************)
(* Acknowledgement and flow control of one LE connection: each side keeps  *)
(* an Acknowledgement (one-bit transmitSeqNum and nextExpectedSeqNum, at   *)
(* most one PDU in flight) and calls receive and transmit for the PDUs of  *)
(* a connection event.  The air between them loses PDUs and breaks their   *)
(* CRC.  The caller's payloads are modelled too: it queues them, holds the *)
(* one in flight until it is acknowledged, and has a bounded receive room. *)
(***************************************************************************)
EXTENDS Naturals, Sequences

CONSTANTS
    Values,     \* payloads each side's host can send
    QueueDepth, \* PDUs the caller keeps waiting besides the one in flight
    Room        \* received payloads the caller keeps until its host takes them

ASSUME QueueDepthAssumption == QueueDepth \in Nat \ {0}
ASSUME RoomAssumption == Room \in Nat \ {0}

Sides == {"central", "peripheral"}

Peer(s) == IF s = "central" THEN "peripheral" ELSE "central"

None == "none"

ASSUME NoneAssumption == None \notin Values /\ "Empty" \notin Values

VARIABLES
    ack,     \* each side's Acknowledgement
    held,    \* the payload each caller holds for its Data PDU in flight
    queue,   \* payloads waiting behind it
    outside, \* payloads still with the sending host
    host,    \* payloads delivered to this side and not yet taken by its host
    air,     \* the PDU on the air, if any: a set of at most one
    event,   \* "closed", or the side whose turn it is to transmit
    heard    \* which sides received the other's latest PDU with a valid CRC

vars == <<ack, held, queue, outside, host, air, event, heard>>

SequenceNumber == {0, 1}

NextSequence(n) == 1 - n

Acknowledgement ==
    [transmit_sequence : SequenceNumber, next_expected : SequenceNumber,
     in_flight : {None, "Data", "Empty"},
     sent_more_data : BOOLEAN, received_more_data : BOOLEAN]

\* Acknowledgement::new: both counters zero and nothing in flight.
New ==
    [transmit_sequence |-> 0, next_expected |-> 0, in_flight |-> None,
     sent_more_data |-> FALSE, received_more_data |-> FALSE]

MoreData(a) == a.sent_more_data \/ a.received_more_data

Init ==
    /\ ack = [s \in Sides |-> New]
    /\ held = [s \in Sides |-> None]
    /\ queue = [s \in Sides |-> <<>>]
    /\ outside = [s \in Sides |-> Values]
    /\ host = [s \in Sides |-> <<>>]
    /\ air = {}
    /\ event = "closed"
    /\ heard = [s \in Sides |-> FALSE]

-----------------------------------------------------------------------------
\* The two calls, as functions of one side's Acknowledgement.

\* Whether a PDU with this NESN releases what is in flight.  A peer
\* acknowledging nothing in flight is ignored.
Released(a, nesn) == nesn # a.transmit_sequence /\ a.in_flight # None

Delivery(a, pdu, room) ==
    CASE pdu.sn # a.next_expected -> "Duplicate"
      [] pdu.sn = a.next_expected /\ pdu.payload = "Empty" -> "Empty"
      [] pdu.sn = a.next_expected /\ pdu.payload # "Empty" /\ room -> "Deliver"
      [] OTHER -> "Deferred"

\* Mutant of Received: a resent PDU does not update the peer's MD.
ReceivedKeepingMoreData(a, pdu, room) ==
    [a EXCEPT
        !.received_more_data =
            IF Delivery(a, pdu, room) = "Duplicate" THEN @ ELSE pdu.md,
        !.in_flight = IF Released(a, pdu.nesn) THEN None ELSE @,
        !.transmit_sequence =
            IF Released(a, pdu.nesn) THEN NextSequence(@) ELSE @,
        !.next_expected =
            IF Delivery(a, pdu, room) \in {"Empty", "Deliver"}
            THEN NextSequence(@) ELSE @]

\* Mutant of Received: a PDU without room is acknowledged as well.
ReceivedAlways(a, pdu, room) ==
    [a EXCEPT
        !.received_more_data = pdu.md,
        !.in_flight = IF Released(a, pdu.nesn) THEN None ELSE @,
        !.transmit_sequence =
            IF Released(a, pdu.nesn) THEN NextSequence(@) ELSE @,
        !.next_expected =
            IF Delivery(a, pdu, room) # "Duplicate" THEN NextSequence(@) ELSE @]

\* Mutant of Received: empty PDUs are not acknowledged.
ReceivedDataOnly(a, pdu, room) ==
    [a EXCEPT
        !.received_more_data = pdu.md,
        !.in_flight = IF Released(a, pdu.nesn) THEN None ELSE @,
        !.transmit_sequence =
            IF Released(a, pdu.nesn) THEN NextSequence(@) ELSE @,
        !.next_expected =
            IF Delivery(a, pdu, room) = "Deliver" THEN NextSequence(@) ELSE @]

Received(a, pdu, room) ==
    [a EXCEPT
        !.received_more_data = pdu.md,
        !.in_flight = IF Released(a, pdu.nesn) THEN None ELSE @,
        !.transmit_sequence =
            IF Released(a, pdu.nesn) THEN NextSequence(@) ELSE @,
        !.next_expected =
            IF Delivery(a, pdu, room) \in {"Empty", "Deliver"}
            THEN NextSequence(@) ELSE @]

\* Mutant of Transmitted: an empty PDU is not in flight.
TransmittedEmptyForgotten(a, queued) ==
    [a EXCEPT
        !.in_flight = IF @ # None THEN @
                      ELSE IF queued > 0 THEN "Data" ELSE None,
        !.sent_more_data =
            IF a.in_flight # None THEN queued > 0 ELSE queued > 1]

Transmitted(a, queued) ==
    [a EXCEPT
        !.in_flight = IF @ # None THEN @
                      ELSE IF queued > 0 THEN "Data" ELSE "Empty",
        !.sent_more_data =
            IF a.in_flight # None THEN queued > 0 ELSE queued > 1]

-----------------------------------------------------------------------------
\* The PDU of a transmission: the held payload, fresh or resent, or none.
TransmitAs(s, a) ==
    LET fresh == ack[s].in_flight = None /\ queue[s] # <<>>
        payload == IF fresh THEN Head(queue[s]) ELSE held[s]
    IN  /\ ack' = [ack EXCEPT ![s] = a]
        /\ held' = [held EXCEPT ![s] = payload]
        /\ queue' = [queue EXCEPT ![s] = IF fresh THEN Tail(@) ELSE @]
        /\ air' = {[to |-> Peer(s),
                    payload |-> IF a.in_flight = "Data" THEN payload ELSE "Empty",
                    sn |-> a.transmit_sequence, nesn |-> a.next_expected,
                    md |-> a.sent_more_data]}
        /\ heard' = [heard EXCEPT ![Peer(s)] = FALSE]
        /\ UNCHANGED <<outside, host, event>>

\* The central opens an event, or goes on while more data was announced; the
\* peripheral answers what it heard.
Transmit(s) ==
    /\ air = {}
    /\ \/ event = "closed" /\ s = "central"
       \/ event = s /\ (s = "central" => MoreData(ack[s]))
    /\ TransmitAs(s, Transmitted(ack[s], Len(queue[s])))

\* The PDU arrives with a valid CRC: the caller releases its own payload when
\* it was acknowledged and keeps the received one when it is to be delivered.
ReceivePdu(s, pdu, room) ==
    /\ ack' = [ack EXCEPT ![s] = Received(@, pdu, room)]
    /\ held' = [held EXCEPT
          ![s] = IF Released(ack[s], pdu.nesn) THEN None ELSE @]
    /\ host' = [host EXCEPT
          ![s] = IF Delivery(ack[s], pdu, room) = "Deliver"
                 THEN Append(@, pdu.payload) ELSE @]
    /\ air' = {}
    /\ event' = s
    /\ heard' = [heard EXCEPT ![s] = TRUE]
    /\ UNCHANGED <<queue, outside>>

Receive(s) ==
    \E pdu \in air :
        pdu.to = s /\ ReceivePdu(s, pdu, Len(host[s]) < Room)

\* A PDU with a broken CRC never reaches receive; its receiver still answers.
Corrupt(s) ==
    /\ \E pdu \in air : pdu.to = s
    /\ air' = {}
    /\ event' = s
    /\ UNCHANGED <<ack, held, queue, outside, host, heard>>

\* Nothing is heard, and the event is over.
Lose ==
    /\ air # {}
    /\ air' = {}
    /\ event' = "closed"
    /\ UNCHANGED <<ack, held, queue, outside, host, heard>>

\* The central ends the event: no more data, or the scheduler needs the radio.
CloseEvent ==
    /\ air = {}
    /\ event = "central"
    /\ event' = "closed"
    /\ UNCHANGED <<ack, held, queue, outside, host, air, heard>>

\* The sending host queues a payload; the receiving host takes one (and it
\* may be sent again later).
Submit(s, v) ==
    /\ v \in outside[s]
    /\ Len(queue[s]) < QueueDepth
    /\ queue' = [queue EXCEPT ![s] = Append(@, v)]
    /\ outside' = [outside EXCEPT ![s] = @ \ {v}]
    /\ UNCHANGED <<ack, held, host, air, event, heard>>

Take(s) ==
    /\ host[s] # <<>>
    /\ host' = [host EXCEPT ![s] = Tail(@)]
    /\ outside' = [outside EXCEPT ![Peer(s)] = @ \union {Head(host[s])}]
    /\ UNCHANGED <<ack, held, queue, air, event, heard>>

Next ==
    \/ \E s \in Sides : Transmit(s) \/ Receive(s) \/ Corrupt(s) \/ Take(s)
    \/ \E s \in Sides, v \in Values : Submit(s, v)
    \/ Lose
    \/ CloseEvent

Spec == Init /\ [][Next]_vars

\* The schedule keeps holding events, a side whose turn it is transmits, the
\* host takes what it was given, and the air does not break every PDU for
\* ever: a connection whose PDUs never arrive ends by supervision timeout.
Fairness ==
    /\ WF_vars(Transmit("central") \/ CloseEvent)
    /\ WF_vars(Transmit("peripheral"))
    /\ WF_vars(Lose)
    /\ \A s \in Sides : SF_vars(Receive(s)) /\ WF_vars(Take(s))

FairSpec == Spec /\ Fairness

-----------------------------------------------------------------------------
Pdu ==
    [to : Sides, payload : Values \union {"Empty"}, sn : SequenceNumber,
     nesn : SequenceNumber, md : BOOLEAN]

\* Types of the two state machines and of what their callers hold.
TypeOK ==
    /\ ack \in [Sides -> Acknowledgement]
    /\ held \in [Sides -> Values \union {None}]
    /\ queue \in [Sides -> Seq(Values)]
    /\ outside \in [Sides -> SUBSET Values]
    /\ host \in [Sides -> Seq(Values)]
    /\ air \in {{}} \union {{pdu} : pdu \in Pdu}
    /\ event \in {"closed"} \union Sides
    /\ heard \in [Sides -> BOOLEAN]

\* The PDU in flight from s has been taken by the peer, whose acknowledgement
\* s has not received.
TakenByPeer(s) == ack[Peer(s)].next_expected # ack[s].transmit_sequence

\* A peer only ever acknowledges what is in flight, so the branch "a peer
\* acknowledging nothing in flight is ignored" is not taken between two
\* sides that run this code, and no acknowledgement is lost by it.
AcknowledgedIsInFlight ==
    /\ \A s \in Sides : TakenByPeer(s) => ack[s].in_flight # None
    /\ \A pdu \in air : pdu.nesn # ack[pdu.to].transmit_sequence
                          => ack[pdu.to].in_flight # None

\* After an exchange in which both PDUs were received, both sides agree on
\* whether the event goes on, although each computes more_data from what it
\* sent and what it last received.
SidesAgreeOnMoreData ==
    (event = "central" /\ air = {} /\ \A s \in Sides : heard[s])
       => MoreData(ack["central"]) = MoreData(ack["peripheral"])

\* What direction s still owes its peer: the PDU in flight unless the peer
\* took it, then the caller's queue.
Owed(s) ==
    (IF ack[s].in_flight = "Data" /\ ~TakenByPeer(s) THEN <<held[s]>> ELSE <<>>)
       \o queue[s]

Held(s) == {host[s][i] : i \in 1..Len(host[s])}

ToPeripheral == INSTANCE FifoQueue
    WITH Capacity <- QueueDepth + 1, queue <- Owed("central"),
         outside <- outside["central"], received <- Held("peripheral"),
         dropped <- {}

ToCentral == INSTANCE FifoQueue
    WITH Capacity <- QueueDepth + 1, queue <- Owed("peripheral"),
         outside <- outside["peripheral"], received <- Held("central"),
         dropped <- {}

\* Each direction is a reliable FIFO although PDUs and acknowledgements are
\* lost: every payload is delivered once and in order, and transmit_sequence
\* and in_flight never release a payload the peer has not taken.
ImplementsFifo == ToPeripheral!Spec /\ ToCentral!Spec

\* Every payload a host submits is delivered to the other host.
EveryPayloadArrives ==
    \A s \in Sides, v \in Values :
        (\E i \in 1..Len(queue[s]) : queue[s][i] = v) ~>
            (\E i \in 1..Len(host[Peer(s)]) : host[Peer(s)][i] = v)
=============================================================================
