----------------------- MODULE LeAcknowledgementProofs -----------------------
(***************************************************************************)
(* Safety of LeAcknowledgement for every set of payloads, every queue and  *)
(* every receive room.                                                     *)
(***************************************************************************)
EXTENDS LeAcknowledgement, SequenceTheorems, TLAPS

\* The two sides are each other's peers.
LEMMA PeerFacts ==
    ASSUME NEW s \in Sides
    PROVE  Peer(s) \in Sides /\ Peer(s) # s /\ Peer(Peer(s)) = s
           /\ \A q \in Sides : q = s \/ q = Peer(s)
BY DEF Sides, Peer

-----------------------------------------------------------------------------
\* The inductive invariant.  A PDU on the air still carries the state of its
\* sender, whose PDU it is; a side whose PDU the peer took has it in flight;
\* a side that heard the peer's latest PDU knows its MD.
AckInv ==
    /\ TypeOK
    /\ \A s \in Sides : ack[s].in_flight = "Data" => held[s] \in Values
    /\ \A s \in Sides : TakenByPeer(s) => ack[s].in_flight # None
    /\ \A s \in Sides :
          heard[s] => ack[s].received_more_data = ack[Peer(s)].sent_more_data
    /\ \A pdu \in air :
          /\ pdu.sn = ack[Peer(pdu.to)].transmit_sequence
          /\ pdu.nesn = ack[Peer(pdu.to)].next_expected
          /\ pdu.md = ack[Peer(pdu.to)].sent_more_data
          /\ ack[Peer(pdu.to)].in_flight # None
          /\ pdu.payload = IF ack[Peer(pdu.to)].in_flight = "Data"
                           THEN held[Peer(pdu.to)] ELSE "Empty"

\* What receive does to each field of one side's state.
LEMMA ReceivedFields ==
    ASSUME NEW a \in Acknowledgement, NEW pdu \in Pdu, NEW room \in BOOLEAN
    PROVE  /\ Received(a, pdu, room) \in Acknowledgement
           /\ Received(a, pdu, room).transmit_sequence =
                 IF Released(a, pdu.nesn) THEN pdu.nesn ELSE a.transmit_sequence
           /\ Received(a, pdu, room).in_flight =
                 IF Released(a, pdu.nesn) THEN None ELSE a.in_flight
           /\ Received(a, pdu, room).next_expected =
                 IF Delivery(a, pdu, room) \in {"Empty", "Deliver"}
                 THEN 1 - a.next_expected ELSE a.next_expected
           /\ Received(a, pdu, room).received_more_data = pdu.md
           /\ Received(a, pdu, room).sent_more_data = a.sent_more_data
<1>1. pdu.md \in BOOLEAN /\ pdu.nesn \in {0, 1}
    BY DEF Pdu, SequenceNumber
<1>2. /\ a.transmit_sequence \in {0, 1} /\ a.next_expected \in {0, 1}
      /\ a.in_flight \in {None, "Data", "Empty"}
      /\ a.sent_more_data \in BOOLEAN
      /\ DOMAIN a = {"transmit_sequence", "next_expected", "in_flight",
                     "sent_more_data", "received_more_data"}
    BY DEF Acknowledgement, SequenceNumber
<1>3. Released(a, pdu.nesn) => pdu.nesn = 1 - a.transmit_sequence
    BY <1>1, <1>2, SMT DEF Released
<1>4. /\ Received(a, pdu, room).in_flight =
            IF Released(a, pdu.nesn) THEN None ELSE a.in_flight
      /\ Received(a, pdu, room).transmit_sequence =
            IF Released(a, pdu.nesn) THEN 1 - a.transmit_sequence
            ELSE a.transmit_sequence
      /\ Received(a, pdu, room).next_expected =
            IF Delivery(a, pdu, room) \in {"Empty", "Deliver"}
            THEN 1 - a.next_expected ELSE a.next_expected
      /\ Received(a, pdu, room).received_more_data = pdu.md
      /\ Received(a, pdu, room).sent_more_data = a.sent_more_data
    BY <1>2 DEF Received, NextSequence
<1>5. Received(a, pdu, room) \in Acknowledgement
    <2> DEFINE b == Received(a, pdu, room)
    <2>1. /\ b.transmit_sequence \in {0, 1} /\ b.next_expected \in {0, 1}
          /\ b.in_flight \in {None, "Data", "Empty"}
        BY <1>1, <1>2, <1>4
    <2>2. b.sent_more_data \in BOOLEAN /\ b.received_more_data \in BOOLEAN
        BY <1>1, <1>2, <1>4
    <2>3. b = [f \in {"transmit_sequence", "next_expected", "in_flight",
                     "sent_more_data", "received_more_data"} |-> b[f]]
        BY <1>2, Zenon DEF Received
    <2> HIDE DEF b
    <2>4. b \in Acknowledgement
        BY <2>1, <2>2, <2>3 DEF Acknowledgement, SequenceNumber
    <2> QED BY <2>4 DEF b
<1> QED BY <1>3, <1>4, <1>5

\* What transmit does to each field of one side's state.
LEMMA TransmittedFields ==
    ASSUME NEW a \in Acknowledgement, NEW queued \in Nat
    PROVE  /\ Transmitted(a, queued) \in Acknowledgement
           /\ Transmitted(a, queued).transmit_sequence = a.transmit_sequence
           /\ Transmitted(a, queued).next_expected = a.next_expected
           /\ Transmitted(a, queued).received_more_data = a.received_more_data
           /\ Transmitted(a, queued).in_flight =
                 IF a.in_flight # None THEN a.in_flight
                 ELSE IF queued > 0 THEN "Data" ELSE "Empty"
<1>1. /\ a.in_flight \in {None, "Data", "Empty"}
      /\ DOMAIN a = {"transmit_sequence", "next_expected", "in_flight",
                     "sent_more_data", "received_more_data"}
    BY DEF Acknowledgement
<1>2. (IF a.in_flight # None THEN queued > 0 ELSE queued > 1) \in BOOLEAN
    <2>1. CASE a.in_flight # None
        BY <2>1
    <2>2. CASE a.in_flight = None
        BY <2>2
    <2> QED BY <2>1, <2>2
<1>3. /\ Transmitted(a, queued).transmit_sequence = a.transmit_sequence
      /\ Transmitted(a, queued).next_expected = a.next_expected
      /\ Transmitted(a, queued).received_more_data = a.received_more_data
      /\ Transmitted(a, queued).in_flight =
            IF a.in_flight # None THEN a.in_flight
            ELSE IF queued > 0 THEN "Data" ELSE "Empty"
    BY <1>1 DEF Transmitted
<1>4. Transmitted(a, queued) \in Acknowledgement
    BY <1>1, <1>2, Zenon DEF Transmitted, Acknowledgement
<1> QED BY <1>3, <1>4

\* A new connection satisfies the invariant.
LEMMA InitAckInv == Init => AckInv
BY SMT DEF Init, AckInv, TypeOK, New, Acknowledgement, SequenceNumber, TakenByPeer,
           None, Sides, Peer

\* Transmission: the PDU put on the air carries the sender's state.
LEMMA TransmitAckInv ==
    ASSUME AckInv, NEW s \in Sides, Transmit(s)
    PROVE  AckInv'
<1> DEFINE p == Peer(s)
           a == Transmitted(ack[s], Len(queue[s]))
           fresh == ack[s].in_flight = None /\ queue[s] # <<>>
           payload == IF fresh THEN Head(queue[s]) ELSE held[s]
           pdu == [to |-> p,
                   payload |-> IF a.in_flight = "Data" THEN payload ELSE "Empty",
                   sn |-> a.transmit_sequence, nesn |-> a.next_expected,
                   md |-> a.sent_more_data]
<1>1. p \in Sides /\ p # s /\ Peer(p) = s /\ \A q \in Sides : q = s \/ q = p
    BY PeerFacts
<1>2. /\ ack \in [Sides -> Acknowledgement] /\ held \in [Sides -> Values \union {None}]
      /\ queue \in [Sides -> Seq(Values)] /\ heard \in [Sides -> BOOLEAN]
      /\ outside \in [Sides -> SUBSET Values] /\ host \in [Sides -> Seq(Values)]
      /\ event \in {"closed"} \union Sides
    BY DEF AckInv, TypeOK
<1>3. /\ ack' = [ack EXCEPT ![s] = a] /\ held' = [held EXCEPT ![s] = payload]
      /\ queue' = [queue EXCEPT ![s] = IF fresh THEN Tail(@) ELSE @]
      /\ air' = {pdu} /\ heard' = [heard EXCEPT ![p] = FALSE]
      /\ outside' = outside /\ host' = host /\ event' = event
    BY DEF Transmit, TransmitAs
<1>4. Len(queue[s]) \in Nat /\ (Len(queue[s]) > 0 <=> queue[s] # <<>>)
    BY <1>2, EmptySeq, LenProperties
<1>5. /\ a \in Acknowledgement
      /\ a.transmit_sequence = ack[s].transmit_sequence
      /\ a.next_expected = ack[s].next_expected
      /\ a.received_more_data = ack[s].received_more_data
      /\ a.in_flight = IF ack[s].in_flight # None THEN ack[s].in_flight
                       ELSE IF Len(queue[s]) > 0 THEN "Data" ELSE "Empty"
    BY <1>2, <1>4, TransmittedFields, Zenon
<1> HIDE DEF a
<1>6. ack[s].in_flight \in {None, "Data", "Empty"} /\ None = "none"
    BY <1>2 DEF Acknowledgement, None
<1>7. queue[s] # <<>> => Head(queue[s]) \in Values /\ Tail(queue[s]) \in Seq(Values)
    BY <1>2, HeadTailProperties
<1>8. payload \in Values \union {None}
    BY <1>2, <1>7
<1>9. a.in_flight = "Data" => payload \in Values
    <2>1. ack[s].in_flight = "Data" => held[s] \in Values
        BY DEF AckInv
    <2> QED BY <2>1, <1>4, <1>5, <1>6, <1>7
<1>10. a.in_flight # None
    BY <1>5, <1>6
<1>11. queue' \in [Sides -> Seq(Values)]
    <2>1. (IF fresh THEN Tail(queue[s]) ELSE queue[s]) \in Seq(Values)
        BY <1>2, <1>7
    <2> QED BY <2>1, <1>2, <1>3
<1> HIDE DEF fresh, payload
<1>12. pdu \in Pdu
    <2>1. a.sent_more_data \in BOOLEAN /\ a.transmit_sequence \in SequenceNumber
          /\ a.next_expected \in SequenceNumber
        BY <1>5 DEF Acknowledgement
    <2>2. (IF a.in_flight = "Data" THEN payload ELSE "Empty") \in Values \union {"Empty"}
        BY <1>9
    <2> QED BY <2>1, <2>2, <1>1 DEF Pdu
<1>13. /\ pdu.to = p /\ pdu.sn = a.transmit_sequence /\ pdu.nesn = a.next_expected
       /\ pdu.md = a.sent_more_data
       /\ pdu.payload = IF a.in_flight = "Data" THEN payload ELSE "Empty"
    OBVIOUS
<1> HIDE DEF pdu
<1>14. /\ ack'[s] = a /\ ack'[p] = ack[p] /\ held'[s] = payload /\ held'[p] = held[p]
       /\ heard'[p] = FALSE /\ heard'[s] = heard[s]
    BY <1>1, <1>2, <1>3, Zenon
<1>15. TypeOK'
    <2>1. ack' \in [Sides -> Acknowledgement]
        BY <1>2, <1>3, <1>5
    <2>2. held' \in [Sides -> Values \union {None}]
        BY <1>2, <1>3, <1>8
    <2>3. heard' \in [Sides -> BOOLEAN]
        BY <1>1, <1>2, <1>3
    <2> QED BY <2>1, <2>2, <2>3, <1>2, <1>3, <1>11, <1>12 DEF TypeOK
<1>16. \A q \in Sides : ack'[q].in_flight = "Data" => held'[q] \in Values
    BY <1>1, <1>9, <1>14 DEF AckInv
<1>17. \A q \in Sides : TakenByPeer(q)' => ack'[q].in_flight # None
    BY <1>1, <1>5, <1>10, <1>14 DEF AckInv, TakenByPeer
<1>18. \A q \in Sides :
          heard'[q] => ack'[q].received_more_data = ack'[Peer(q)].sent_more_data
    BY <1>1, <1>5, <1>14 DEF AckInv
<1> QED BY <1>1, <1>3, <1>10, <1>13, <1>14, <1>15, <1>16, <1>17, <1>18 DEF AckInv

\* Reception: an acknowledgement releases what is in flight, and the two
\* sides know the state of each other.
LEMMA ReceiveAckInv ==
    ASSUME AckInv, NEW s \in Sides, Receive(s)
    PROVE  AckInv'
<1>1. PICK pdu \in air : pdu.to = s /\ ReceivePdu(s, pdu, Len(host[s]) < Room)
    BY DEF Receive
<1> DEFINE p == Peer(s)
           room == Len(host[s]) < Room
           b == Received(ack[s], pdu, room)
<1>2. p \in Sides /\ p # s /\ Peer(p) = s /\ \A q \in Sides : q = s \/ q = p
    BY PeerFacts
<1>3. /\ ack \in [Sides -> Acknowledgement] /\ held \in [Sides -> Values \union {None}]
      /\ queue \in [Sides -> Seq(Values)] /\ heard \in [Sides -> BOOLEAN]
      /\ outside \in [Sides -> SUBSET Values] /\ host \in [Sides -> Seq(Values)]
      /\ pdu \in Pdu
    BY DEF AckInv, TypeOK
<1>4. /\ ack' = [ack EXCEPT ![s] = b]
      /\ held' = [held EXCEPT ![s] = IF Released(ack[s], pdu.nesn) THEN None ELSE @]
      /\ host' = [host EXCEPT ![s] = IF Delivery(ack[s], pdu, room) = "Deliver"
                                     THEN Append(@, pdu.payload) ELSE @]
      /\ air' = {} /\ event' = s /\ heard' = [heard EXCEPT ![s] = TRUE]
      /\ queue' = queue /\ outside' = outside
    BY <1>1 DEF ReceivePdu
<1>5. room \in BOOLEAN
    OBVIOUS
<1> HIDE DEF room
<1>6. /\ b \in Acknowledgement
      /\ b.transmit_sequence =
            IF Released(ack[s], pdu.nesn) THEN pdu.nesn ELSE ack[s].transmit_sequence
      /\ b.in_flight =
            IF Released(ack[s], pdu.nesn) THEN None ELSE ack[s].in_flight
      /\ b.received_more_data = pdu.md
      /\ b.sent_more_data = ack[s].sent_more_data
    BY <1>3, <1>5, ReceivedFields
<1> HIDE DEF b
<1>7. /\ ack'[s] = b /\ ack'[p] = ack[p] /\ held'[p] = held[p]
      /\ held'[s] = IF Released(ack[s], pdu.nesn) THEN None ELSE held[s]
      /\ heard'[p] = heard[p]
    BY <1>2, <1>3, <1>4
<1>8. /\ pdu.nesn = ack[p].next_expected /\ pdu.md = ack[p].sent_more_data
      /\ ack[p].in_flight # None
    BY <1>1 DEF AckInv
<1>9. TypeOK'
    <2>1. ack' \in [Sides -> Acknowledgement]
        BY <1>3, <1>4, <1>6
    <2>2. held' \in [Sides -> Values \union {None}]
        BY <1>3, <1>4
    <2>3. heard' \in [Sides -> BOOLEAN]
        BY <1>3, <1>4
    <2>4. Delivery(ack[s], pdu, room) = "Deliver" => pdu.payload \in Values
        BY <1>3, <1>5 DEF Delivery, Pdu
    <2>5. host' \in [Sides -> Seq(Values)]
        BY <2>4, <1>3, <1>4, AppendProperties
    <2> QED BY <2>1, <2>2, <2>3, <2>5, <1>3, <1>4 DEF TypeOK
<1>10. \A q \in Sides : ack'[q].in_flight = "Data" => held'[q] \in Values
    BY <1>2, <1>6, <1>7 DEF AckInv, None
<1>11. \A q \in Sides : TakenByPeer(q)' => ack'[q].in_flight # None
    <2>1. TakenByPeer(p)' => ack'[p].in_flight # None
        BY <1>7, <1>8
    <2>2. pdu.nesn # ack[s].transmit_sequence => Released(ack[s], pdu.nesn)
        BY <1>8 DEF AckInv, TakenByPeer, Released
    <2>3. b.transmit_sequence = ack[p].next_expected
        BY <2>2, <1>6, <1>8
    <2>4. ~TakenByPeer(s)'
        BY <2>3, <1>7 DEF TakenByPeer
    <2> QED BY <2>1, <2>4, <1>2
<1>12. \A q \in Sides :
          heard'[q] => ack'[q].received_more_data = ack'[Peer(q)].sent_more_data
    BY <1>2, <1>6, <1>7, <1>8 DEF AckInv
<1> QED BY <1>4, <1>9, <1>10, <1>11, <1>12 DEF AckInv

\* Every step preserves the invariant.
LEMMA NextAckInv == AckInv /\ [Next]_vars => AckInv'
<1> SUFFICES ASSUME AckInv, [Next]_vars
             PROVE  AckInv'
    OBVIOUS
<1>1. ASSUME NEW s \in Sides, Transmit(s) PROVE AckInv'
    BY <1>1, TransmitAckInv
<1>2. ASSUME NEW s \in Sides, Receive(s) PROVE AckInv'
    BY <1>2, ReceiveAckInv
<1>3. ASSUME NEW s \in Sides, Corrupt(s) PROVE AckInv'
    BY <1>3 DEF Corrupt, AckInv, TypeOK, TakenByPeer
<1>4. ASSUME NEW s \in Sides, Take(s) PROVE AckInv'
    <2>1. host[s] \in Seq(Values) /\ host[s] # <<>>
        BY <1>4 DEF Take, AckInv, TypeOK
    <2>2. Head(host[s]) \in Values /\ Tail(host[s]) \in Seq(Values)
        BY <2>1, HeadTailProperties
    <2>3. host' \in [Sides -> Seq(Values)]
        BY <1>4, <2>2 DEF Take, AckInv, TypeOK
    <2>4. outside' \in [Sides -> SUBSET Values]
        BY <1>4, <2>2, PeerFacts DEF Take, AckInv, TypeOK
    <2> QED BY <1>4, <2>3, <2>4 DEF Take, AckInv, TypeOK, TakenByPeer
<1>5. ASSUME NEW s \in Sides, NEW v \in Values, Submit(s, v) PROVE AckInv'
    <2>1. queue' \in [Sides -> Seq(Values)]
        BY <1>5, AppendProperties DEF Submit, AckInv, TypeOK
    <2>2. outside' \in [Sides -> SUBSET Values]
        BY <1>5 DEF Submit, AckInv, TypeOK
    <2> QED BY <1>5, <2>1, <2>2 DEF Submit, AckInv, TypeOK, TakenByPeer
<1>6. ASSUME Lose PROVE AckInv'
    BY <1>6 DEF Lose, AckInv, TypeOK, TakenByPeer
<1>7. ASSUME CloseEvent PROVE AckInv'
    BY <1>7 DEF CloseEvent, AckInv, TypeOK, TakenByPeer
<1>8. ASSUME UNCHANGED vars PROVE AckInv'
    BY <1>8 DEF vars, AckInv, TypeOK, TakenByPeer
<1> QED BY <1>1, <1>2, <1>3, <1>4, <1>5, <1>6, <1>7, <1>8 DEF Next

-----------------------------------------------------------------------------
\* The invariant holds in every reachable state.
THEOREM Invariance == Spec => []AckInv
BY InitAckInv, NextAckInv, PTL DEF Spec

\* Both Acknowledgements, the payloads their callers hold and the PDU on the
\* air keep their types, for every set of payloads and every room.
THEOREM TypeCorrect == Spec => []TypeOK
<1>1. AckInv => TypeOK
    BY DEF AckInv
<1> QED BY <1>1, Invariance, PTL

\* receive never meets an acknowledgement of nothing in flight from a peer
\* that runs the same code, whatever the air loses or breaks.
THEOREM AcknowledgedInFlight == Spec => []AcknowledgedIsInFlight
<1>1. AckInv => AcknowledgedIsInFlight
    <2> SUFFICES ASSUME AckInv PROVE AcknowledgedIsInFlight
        OBVIOUS
    <2>1. ASSUME NEW pdu \in air, pdu.nesn # ack[pdu.to].transmit_sequence
          PROVE  ack[pdu.to].in_flight # None
        <3>1. pdu.to \in Sides
            BY DEF AckInv, TypeOK, Pdu
        <3> QED BY <2>1, <3>1 DEF AckInv, TakenByPeer
    <2> QED BY <2>1 DEF AckInv, AcknowledgedIsInFlight
<1> QED BY <1>1, Invariance, PTL

\* After an exchange both sides heard, more_data answers the same on both.
THEOREM AgreeOnMoreData == Spec => []SidesAgreeOnMoreData
<1>1. AckInv => SidesAgreeOnMoreData
    BY DEF AckInv, SidesAgreeOnMoreData, MoreData, Sides, Peer
<1> QED BY <1>1, Invariance, PTL

-----------------------------------------------------------------------------
\* The refinement.  A direction is what it owes, what its host still has and
\* what was delivered; each step of the link is one of four steps of it.
Elements(q) == {q[i] : i \in 1..Len(q)}

Distinct(q) == \A i, j \in 1..Len(q) : i # j => q[i] # q[j]

\* No payload of the direction is in two places.
Owned(s) ==
    /\ Owed(s) \in Seq(Values)
    /\ Distinct(Owed(s)) /\ Distinct(host[Peer(s)])
    /\ Elements(Owed(s)) \intersect Elements(host[Peer(s)]) = {}
    /\ Elements(Owed(s)) \intersect outside[s] = {}
    /\ Elements(host[Peer(s)]) \intersect outside[s] = {}

DirectionQuiet(s) ==
    Owed(s)' = Owed(s) /\ outside'[s] = outside[s] /\ host'[Peer(s)] = host[Peer(s)]

DirectionPut(s, v) ==
    /\ v \in outside[s] /\ Len(Owed(s)) < QueueDepth + 1
    /\ Owed(s)' = Append(Owed(s), v) /\ outside'[s] = outside[s] \ {v}
    /\ host'[Peer(s)] = host[Peer(s)]

DirectionGet(s) ==
    /\ Owed(s) # <<>> /\ Owed(s)' = Tail(Owed(s)) /\ outside'[s] = outside[s]
    /\ host'[Peer(s)] = Append(host[Peer(s)], Head(Owed(s)))

DirectionSupply(s) ==
    /\ host[Peer(s)] # <<>> /\ host'[Peer(s)] = Tail(host[Peer(s)])
    /\ outside'[s] = outside[s] \union {Head(host[Peer(s)])} /\ Owed(s)' = Owed(s)

DirectionStep(s) ==
    DirectionQuiet(s) \/ (\E v \in Values : DirectionPut(s, v))
      \/ DirectionGet(s) \/ DirectionSupply(s)

\* What appending does to the elements of a sequence.
LEMMA AppendElements ==
    ASSUME NEW q \in Seq(Values), NEW v \in Values
    PROVE  /\ Append(q, v) \in Seq(Values)
           /\ Elements(Append(q, v)) = Elements(q) \union {v}
           /\ Distinct(q) /\ v \notin Elements(q) => Distinct(Append(q, v))
<1> DEFINE r == Append(q, v)
           n == Len(q)
<1>1. /\ r \in Seq(Values) /\ Len(r) = n + 1 /\ n \in Nat
      /\ \A i \in 1..n : r[i] = q[i]
      /\ r[n + 1] = v
    BY AppendProperties, LenProperties
<1> HIDE DEF r, n
<1>2. Elements(r) = {q[i] : i \in 1..n} \union {v}
    <2>1. ASSUME NEW e \in Elements(r) PROVE e \in {q[i] : i \in 1..n} \union {v}
        <3>1. PICK i \in 1..(n + 1) : e = r[i]
            BY <2>1, <1>1 DEF Elements
        <3>2. i \in 1..n \/ i = n + 1
            BY <1>1
        <3> QED BY <3>1, <3>2, <1>1
    <2>2. ASSUME NEW i \in 1..n PROVE q[i] \in Elements(r)
        <3>1. i \in 1..(n + 1) /\ r[i] = q[i]
            BY <1>1
        <3> QED BY <3>1, <1>1 DEF Elements
    <2>3. v \in Elements(r)
        <3>1. n + 1 \in 1..(n + 1)
            BY <1>1
        <3> QED BY <3>1, <1>1 DEF Elements
    <2> QED BY <2>1, <2>2, <2>3
<1>3. ASSUME Distinct(q), v \notin Elements(q) PROVE Distinct(r)
    <2> SUFFICES ASSUME NEW i \in 1..(n + 1), NEW j \in 1..(n + 1), i # j
                 PROVE  r[i] # r[j]
        BY <1>1 DEF Distinct
    <2>1. (i \in 1..n \/ i = n + 1) /\ (j \in 1..n \/ j = n + 1)
        BY <1>1
    <2>2. \A k \in 1..n : q[k] # v
        BY <1>3 DEF Elements, n
    <2>3. \A k, l \in 1..n : k # l => q[k] # q[l]
        BY <1>3 DEF Distinct, n
    <2> QED BY <2>1, <2>2, <2>3, <1>1
<1> QED BY <1>1, <1>2, <1>3 DEF r, n, Elements

\* What dropping the head does to the elements of a sequence.
LEMMA TailElements ==
    ASSUME NEW q \in Seq(Values), q # <<>>, Distinct(q)
    PROVE  /\ Tail(q) \in Seq(Values) /\ Head(q) \in Values
           /\ Distinct(Tail(q)) /\ Head(q) \in Elements(q)
           /\ Elements(Tail(q)) = Elements(q) \ {Head(q)}
<1> DEFINE r == Tail(q)
           n == Len(q)
<1>1. /\ r \in Seq(Values) /\ Len(r) = n - 1 /\ n \in Nat \ {0}
      /\ Head(q) \in Values /\ Head(q) = q[1]
      /\ \A i \in 1..Len(r) : r[i] = q[i + 1]
    BY HeadTailProperties, EmptySeq
<1>2. \A k, l \in 1..n : k # l => q[k] # q[l]
    BY DEF Distinct
<1>3. Elements(q) = {q[i] : i \in 1..n}
    BY DEF Elements
<1> HIDE DEF r, n
<1>4. \A i \in 1..(n - 1) : i + 1 \in 1..n /\ i + 1 # 1 /\ r[i] = q[i + 1]
    BY <1>1
<1>5. Distinct(r)
    <2> SUFFICES ASSUME NEW i \in 1..(n - 1), NEW j \in 1..(n - 1), i # j
                 PROVE  r[i] # r[j]
        BY <1>1 DEF Distinct
    <2>1. i + 1 # j + 1
        OBVIOUS
    <2> QED BY <2>1, <1>2, <1>4
<1>6. 1 \in 1..n
    BY <1>1
<1>7. Elements(r) = Elements(q) \ {q[1]}
    <2>1. ASSUME NEW e \in Elements(r) PROVE e \in Elements(q) /\ e # q[1]
        <3>1. PICK i \in 1..(n - 1) : e = r[i]
            BY <2>1, <1>1 DEF Elements
        <3> QED BY <3>1, <1>2, <1>3, <1>4, <1>6
    <2>2. ASSUME NEW i \in 1..n, q[i] # q[1] PROVE q[i] \in Elements(r)
        <3>1. i - 1 \in 1..(n - 1) /\ (i - 1) + 1 = i
            BY <2>2, <1>1
        <3>2. r[i - 1] = q[i]
            BY <3>1, <1>4
        <3> QED BY <3>1, <3>2, <1>1 DEF Elements
    <2> QED BY <2>1, <2>2, <1>3
<1> QED BY <1>1, <1>3, <1>5, <1>6, <1>7 DEF r

\* Each step of a direction keeps every payload in one place.
LEMMA DirectionOwned ==
    ASSUME AckInv, NEW s \in Sides, Owned(s), DirectionStep(s)
    PROVE  Owned(s)'
<1> DEFINE q == Owed(s)
           h == host[Peer(s)]
           o == outside[s]
<1>1. q \in Seq(Values) /\ h \in Seq(Values) /\ o \subseteq Values
    BY PeerFacts DEF AckInv, TypeOK, Owned
<1>2. /\ Distinct(q) /\ Distinct(h)
      /\ Elements(q) \intersect Elements(h) = {}
      /\ Elements(q) \intersect o = {} /\ Elements(h) \intersect o = {}
    BY DEF Owned
<1> SUFFICES /\ q' \in Seq(Values) /\ Distinct(q') /\ Distinct(h')
             /\ Elements(q') \intersect Elements(h') = {}
             /\ Elements(q') \intersect o' = {} /\ Elements(h') \intersect o' = {}
    BY Zenon DEF Owned, Elements, Distinct
<1>3. CASE DirectionQuiet(s)
    <2>1. q' = q /\ h' = h /\ o' = o
        BY <1>3 DEF DirectionQuiet
    <2> HIDE DEF q, h, o
    <2> QED BY <2>1, <1>1, <1>2
<1>4. ASSUME NEW v \in Values, DirectionPut(s, v) PROVE
             /\ q' \in Seq(Values) /\ Distinct(q') /\ Distinct(h')
             /\ Elements(q') \intersect Elements(h') = {}
             /\ Elements(q') \intersect o' = {} /\ Elements(h') \intersect o' = {}
    <2>1. v \in o /\ q' = Append(q, v) /\ h' = h /\ o' = o \ {v}
        BY <1>4 DEF DirectionPut
    <2> HIDE DEF q, h, o
    <2>2. v \notin Elements(q)
        BY <2>1, <1>2
    <2> QED BY <2>1, <2>2, <1>1, <1>2, AppendElements
<1>5. CASE DirectionGet(s)
    <2>1. q # <<>> /\ q' = Tail(q) /\ h' = Append(h, Head(q)) /\ o' = o
        BY <1>5 DEF DirectionGet
    <2> HIDE DEF q, h, o
    <2>2. /\ Tail(q) \in Seq(Values) /\ Head(q) \in Values
          /\ Distinct(Tail(q)) /\ Head(q) \in Elements(q)
          /\ Elements(Tail(q)) = Elements(q) \ {Head(q)}
        BY <2>1, <1>1, <1>2, TailElements
    <2>3. Head(q) \notin Elements(h) /\ Head(q) \notin o
        BY <2>2, <1>2
    <2>4. Elements(Append(h, Head(q))) = Elements(h) \union {Head(q)}
          /\ Distinct(Append(h, Head(q)))
        BY <2>2, <2>3, <1>1, <1>2, AppendElements
    <2> QED BY <2>1, <2>2, <2>3, <2>4, <1>2
<1>6. CASE DirectionSupply(s)
    <2>1. h # <<>> /\ h' = Tail(h) /\ q' = q /\ o' = o \union {Head(h)}
        BY <1>6 DEF DirectionSupply
    <2> HIDE DEF q, h, o
    <2>2. /\ Distinct(Tail(h)) /\ Head(h) \in Elements(h)
          /\ Elements(Tail(h)) = Elements(h) \ {Head(h)}
        BY <2>1, <1>1, <1>2, TailElements
    <2> QED BY <2>1, <2>2, <1>1, <1>2
<1> QED BY <1>3, <1>4, <1>5, <1>6 DEF DirectionStep

\* What a direction owes, by whether its Data PDU is still to be taken.
LEMMA OwedForm ==
    ASSUME AckInv, NEW s \in Sides
    PROVE  /\ Owed(s) = IF ack[s].in_flight = "Data" /\ ~TakenByPeer(s)
                        THEN <<held[s]>> \o queue[s] ELSE queue[s]
           /\ Owed(s) \in Seq(Values)
           /\ Len(Owed(s)) <= Len(queue[s]) + 1
<1>1. queue[s] \in Seq(Values) /\ Len(queue[s]) \in Nat
    BY LenProperties DEF AckInv, TypeOK
<1>2. <<>> \o queue[s] = queue[s]
    BY <1>1, ConcatEmptySeq
<1>3. ack[s].in_flight = "Data" => <<held[s]>> \in Seq(Values) /\ Len(<<held[s]>>) = 1
    BY DEF AckInv
<1>4. ack[s].in_flight = "Data" =>
          /\ <<held[s]>> \o queue[s] \in Seq(Values)
          /\ Len(<<held[s]>> \o queue[s]) = 1 + Len(queue[s])
    BY <1>1, <1>3, ConcatProperties
<1>5. CASE ack[s].in_flight = "Data" /\ ~TakenByPeer(s)
    <2>1. Owed(s) = <<held[s]>> \o queue[s]
        BY <1>5 DEF Owed
    <2> QED BY <2>1, <1>1, <1>4, <1>5
<1>6. CASE ~(ack[s].in_flight = "Data" /\ ~TakenByPeer(s))
    <2>1. Owed(s) = queue[s]
        BY <1>2, <1>6, Zenon DEF Owed
    <2> QED BY <2>1, <1>1, <1>6
<1> QED BY <1>5, <1>6

\* A transmission moves the queue's head into flight, which the direction
\* still owes.
LEMMA TransmitDirections ==
    ASSUME AckInv, AckInv', NEW s \in Sides, Transmit(s), NEW d \in Sides
    PROVE  DirectionStep(d)
<1> DEFINE p == Peer(s)
           a == Transmitted(ack[s], Len(queue[s]))
           fresh == ack[s].in_flight = None /\ queue[s] # <<>>
           payload == IF fresh THEN Head(queue[s]) ELSE held[s]
<1>1. p \in Sides /\ p # s /\ Peer(p) = s /\ \A q \in Sides : q = s \/ q = p
    BY PeerFacts
<1>2. /\ ack \in [Sides -> Acknowledgement] /\ held \in [Sides -> Values \union {None}]
      /\ queue \in [Sides -> Seq(Values)]
    BY DEF AckInv, TypeOK
<1>3. /\ ack' = [ack EXCEPT ![s] = a] /\ held' = [held EXCEPT ![s] = payload]
      /\ queue' = [queue EXCEPT ![s] = IF fresh THEN Tail(@) ELSE @]
      /\ outside' = outside /\ host' = host
    BY DEF Transmit, TransmitAs
<1>4. Len(queue[s]) \in Nat /\ (Len(queue[s]) > 0 <=> queue[s] # <<>>)
    BY <1>2, EmptySeq, LenProperties
<1>5. /\ a.transmit_sequence = ack[s].transmit_sequence
      /\ a.next_expected = ack[s].next_expected
      /\ a.in_flight = IF ack[s].in_flight # None THEN ack[s].in_flight
                       ELSE IF Len(queue[s]) > 0 THEN "Data" ELSE "Empty"
    BY <1>2, <1>4, TransmittedFields, Zenon
<1> HIDE DEF a
<1>6. /\ ack'[s] = a /\ ack'[p] = ack[p] /\ held'[p] = held[p] /\ queue'[p] = queue[p]
      /\ held'[s] = payload
      /\ queue'[s] = IF fresh THEN Tail(queue[s]) ELSE queue[s]
    BY <1>1, <1>2, <1>3
<1>7. \A q \in Sides : TakenByPeer(q)' <=> TakenByPeer(q)
    BY <1>1, <1>5, <1>6 DEF TakenByPeer
<1>8. Owed(p)' = Owed(p)
    BY <1>1, <1>6, <1>7, Zenon DEF Owed
<1>9. Owed(s)' = Owed(s)
    <2>1. Owed(s)' = IF a.in_flight = "Data" /\ ~TakenByPeer(s)
                     THEN <<held'[s]>> \o queue'[s] ELSE queue'[s]
        <3>1. <<>> \o queue'[s] = queue'[s]
            <4>1. queue'[s] \in Seq(Values)
                BY Zenon DEF AckInv, TypeOK
            <4> QED BY <4>1, ConcatEmptySeq
        <3> QED BY <3>1, <1>6, <1>7, Zenon DEF Owed
    <2>2. Owed(s) = IF ack[s].in_flight = "Data" /\ ~TakenByPeer(s)
                    THEN <<held[s]>> \o queue[s] ELSE queue[s]
        BY OwedForm, Zenon
    <2>3. CASE fresh
        <3>1. a.in_flight = "Data" /\ ~TakenByPeer(s) /\ ack[s].in_flight # "Data"
            BY <2>3, <1>4, <1>5, Zenon DEF AckInv, None
        <3>2. <<Head(queue[s])>> \o Tail(queue[s]) = queue[s]
            <4> DEFINE q == queue[s]
                       r == <<Head(q)>> \o Tail(q)
            <4>1. /\ q \in Seq(Values) /\ q # <<>> /\ Head(q) = q[1]
                BY <2>3, <1>2
            <4> HIDE DEF q
            <4>2. /\ Tail(q) \in Seq(Values) /\ Len(Tail(q)) = Len(q) - 1
                  /\ Head(q) \in Values /\ Len(q) \in Nat \ {0}
                  /\ \A i \in 1..Len(Tail(q)) : Tail(q)[i] = q[i + 1]
                BY <4>1, HeadTailProperties, EmptySeq
            <4>3. <<Head(q)>> \in Seq(Values) /\ Len(<<Head(q)>>) = 1
                  /\ <<Head(q)>>[1] = Head(q)
                BY <4>2
            <4>4. /\ r \in Seq(Values) /\ Len(r) = 1 + (Len(q) - 1)
                  /\ \A i \in 1..(1 + (Len(q) - 1)) :
                        r[i] = IF i <= 1 THEN <<Head(q)>>[i] ELSE Tail(q)[i - 1]
                BY <4>2, <4>3, ConcatProperties
            <4> HIDE DEF r
            <4>5. \A i \in 1..Len(r) : r[i] = q[i]
                <5> SUFFICES ASSUME NEW i \in 1..Len(r) PROVE r[i] = q[i]
                    OBVIOUS
                <5>1. CASE i = 1
                    BY <5>1, <4>1, <4>2, <4>3, <4>4
                <5>2. CASE i # 1
                    <6>1. i - 1 \in 1..(Len(q) - 1) /\ (i - 1) + 1 = i /\ ~(i <= 1)
                        BY <5>2, <4>2, <4>4
                    <6>2. Tail(q)[i - 1] = q[i]
                        BY <6>1, <4>2
                    <6> QED BY <6>1, <6>2, <4>2, <4>4
                <5> QED BY <5>1, <5>2
            <4>6. Len(r) = Len(q)
                BY <4>2, <4>4
            <4>7. r = q
                BY <4>1, <4>4, <4>5, <4>6, SeqEqual
            <4> QED BY <4>7 DEF r, q
        <3> QED BY <2>1, <2>2, <2>3, <3>1, <3>2, <1>6
    <2>4. CASE ~fresh
        <3>1. held'[s] = held[s] /\ queue'[s] = queue[s]
            BY <2>4, <1>6
        <3>2. a.in_flight = "Data" <=> ack[s].in_flight = "Data"
            BY <2>4, <1>4, <1>5 DEF None
        <3> QED BY <2>1, <2>2, <3>1, <3>2
    <2> QED BY <2>3, <2>4
<1> QED BY <1>1, <1>3, <1>8, <1>9 DEF DirectionStep, DirectionQuiet

\* A reception hands over what the peer's direction owes first, or nothing;
\* an acknowledgement changes nothing of what its own direction owes.
LEMMA ReceiveDirections ==
    ASSUME AckInv, AckInv', NEW s \in Sides, Receive(s), NEW d \in Sides
    PROVE  DirectionStep(d)
<1>1. PICK pdu \in air : pdu.to = s /\ ReceivePdu(s, pdu, Len(host[s]) < Room)
    BY DEF Receive
<1> DEFINE p == Peer(s)
           room == Len(host[s]) < Room
           b == Received(ack[s], pdu, room)
<1>2. p \in Sides /\ p # s /\ Peer(p) = s /\ \A q \in Sides : q = s \/ q = p
    BY PeerFacts
<1>3. /\ ack \in [Sides -> Acknowledgement] /\ held \in [Sides -> Values \union {None}]
      /\ queue \in [Sides -> Seq(Values)] /\ host \in [Sides -> Seq(Values)]
      /\ pdu \in Pdu
    BY DEF AckInv, TypeOK
<1>4. /\ ack' = [ack EXCEPT ![s] = b]
      /\ held' = [held EXCEPT ![s] = IF Released(ack[s], pdu.nesn) THEN None ELSE @]
      /\ host' = [host EXCEPT ![s] = IF Delivery(ack[s], pdu, room) = "Deliver"
                                     THEN Append(@, pdu.payload) ELSE @]
      /\ queue' = queue /\ outside' = outside
    BY <1>1 DEF ReceivePdu
<1>5. room \in BOOLEAN
    OBVIOUS
<1> HIDE DEF room
<1>6. /\ b.transmit_sequence =
            IF Released(ack[s], pdu.nesn) THEN pdu.nesn ELSE ack[s].transmit_sequence
      /\ b.in_flight =
            IF Released(ack[s], pdu.nesn) THEN None ELSE ack[s].in_flight
      /\ b.next_expected =
            IF Delivery(ack[s], pdu, room) \in {"Empty", "Deliver"}
            THEN 1 - ack[s].next_expected ELSE ack[s].next_expected
    BY <1>3, <1>5, ReceivedFields
<1> HIDE DEF b
<1>7. /\ ack'[s] = b /\ ack'[p] = ack[p] /\ held'[p] = held[p]
      /\ held'[s] = IF Released(ack[s], pdu.nesn) THEN None ELSE held[s]
      /\ host'[p] = host[p]
      /\ host'[s] = IF Delivery(ack[s], pdu, room) = "Deliver"
                    THEN Append(host[s], pdu.payload) ELSE host[s]
    BY <1>2, <1>3, <1>4
<1>8. /\ pdu.nesn = ack[p].next_expected /\ pdu.sn = ack[p].transmit_sequence
      /\ ack[p].in_flight # None
      /\ pdu.payload = IF ack[p].in_flight = "Data" THEN held[p] ELSE "Empty"
      /\ (ack[p].in_flight = "Data" => held[p] \in Values)
    BY <1>1, <1>2, Zenon DEF AckInv
<1>9. \A q \in Sides : queue[q] \in Seq(Values) /\ <<>> \o queue[q] = queue[q]
    BY <1>3, ConcatEmptySeq
<1>10. CASE d = s
    <2>1. ~TakenByPeer(s)'
        <3>1. pdu.nesn # ack[s].transmit_sequence => Released(ack[s], pdu.nesn)
            BY <1>8 DEF AckInv, TakenByPeer, Released
        <3> QED BY <3>1, <1>6, <1>7, <1>8, Zenon DEF TakenByPeer
    <2>2. Released(ack[s], pdu.nesn) <=> TakenByPeer(s)
        BY <1>8 DEF AckInv, TakenByPeer, Released
    <2>3. Owed(s)' = Owed(s)
        <3>1. CASE Released(ack[s], pdu.nesn)
            <4>1. ack'[s].in_flight # "Data"
                BY <3>1, <1>6, <1>7 DEF None
            <4> QED BY <3>1, <4>1, <2>2, <1>4, Zenon DEF Owed
        <3>2. CASE ~Released(ack[s], pdu.nesn)
            <4>1. ack'[s].in_flight = ack[s].in_flight /\ held'[s] = held[s]
                BY <3>2, <1>6, <1>7
            <4>2. CASE ack[s].in_flight = "Data"
                <5>1. Owed(s) = <<held[s]>> \o queue[s]
                    BY <3>2, <4>2, <2>2, Zenon DEF Owed
                <5>2. Owed(s)' = <<held[s]>> \o queue[s]
                    BY <4>1, <4>2, <2>1, <1>4 DEF Owed
                <5> QED BY <5>1, <5>2
            <4>3. CASE ack[s].in_flight # "Data"
                BY <4>1, <4>3, <1>4, Zenon DEF Owed
            <4> QED BY <4>2, <4>3
        <3> QED BY <3>1, <3>2
    <2> QED BY <1>10, <2>3, <1>4, <1>7 DEF DirectionStep, DirectionQuiet
<1>11. CASE d = p
    <2>1. ack[s].next_expected \in {0, 1} /\ ack[p].transmit_sequence \in {0, 1}
        BY <1>2, <1>3 DEF Acknowledgement, SequenceNumber
    <2>2. /\ TakenByPeer(p) <=> ack[s].next_expected # pdu.sn
          /\ TakenByPeer(p)' <=> b.next_expected # pdu.sn
        BY <1>2, <1>7, <1>8, Zenon DEF TakenByPeer
    <2>3. CASE Delivery(ack[s], pdu, room) = "Deliver"
        <3>1. pdu.sn = ack[s].next_expected /\ pdu.payload # "Empty"
            BY <2>3 DEF Delivery
        <3>2. ack[p].in_flight = "Data" /\ pdu.payload = held[p] /\ held[p] \in Values
            BY <3>1, <1>8
        <3>3. ~TakenByPeer(p) /\ TakenByPeer(p)'
            BY <3>1, <2>1, <2>2, <2>3, <1>6, <1>8
        <3>4. Owed(p) = <<held[p]>> \o queue[p]
            BY <3>2, <3>3 DEF Owed
        <3>5. Owed(p)' = queue[p]
            BY <3>3, <1>2, <1>4, <1>7, <1>9 DEF Owed
        <3>6. /\ <<held[p]>> \o queue[p] # <<>>
              /\ Head(<<held[p]>> \o queue[p]) = held[p]
              /\ Tail(<<held[p]>> \o queue[p]) = queue[p]
            <4> DEFINE q == queue[p]
                       v == held[p]
                       r == <<v>> \o q
            <4>1. q \in Seq(Values) /\ v \in Values /\ Len(q) \in Nat
                BY <3>2, <1>2, <1>9, LenProperties
            <4> HIDE DEF q, v
            <4>2. <<v>> \in Seq(Values) /\ Len(<<v>>) = 1 /\ <<v>>[1] = v
                BY <4>1
            <4>3. /\ r \in Seq(Values) /\ Len(r) = 1 + Len(q)
                  /\ \A i \in 1..(1 + Len(q)) :
                        r[i] = IF i <= 1 THEN <<v>>[i] ELSE q[i - 1]
                BY <4>1, <4>2, ConcatProperties
            <4> HIDE DEF r
            <4>4. r # <<>>
                BY <4>1, <4>3
            <4>5. Head(r) = v
                <5>1. 1 \in 1..(1 + Len(q))
                    BY <4>1
                <5>2. Head(r) = r[1]
                    BY <4>3, <4>4
                <5> QED BY <5>1, <5>2, <4>2, <4>3
            <4>6. /\ Tail(r) \in Seq(Values) /\ Len(Tail(r)) = Len(r) - 1
                  /\ \A i \in 1..Len(Tail(r)) : Tail(r)[i] = r[i + 1]
                BY <4>3, <4>4, HeadTailProperties
            <4>7. \A i \in 1..Len(Tail(r)) : Tail(r)[i] = q[i]
                <5> SUFFICES ASSUME NEW i \in 1..Len(Tail(r)) PROVE Tail(r)[i] = q[i]
                    OBVIOUS
                <5>1. i + 1 \in 1..(1 + Len(q)) /\ ~(i + 1 <= 1) /\ (i + 1) - 1 = i
                    BY <4>1, <4>3, <4>6
                <5>2. r[i + 1] = q[i]
                    BY <5>1, <4>3
                <5> QED BY <5>2, <4>6
            <4>8. Len(Tail(r)) = Len(q)
                BY <4>1, <4>3, <4>6
            <4>9. Tail(r) = q
                BY <4>1, <4>6, <4>7, <4>8, SeqEqual
            <4> QED BY <4>4, <4>5, <4>9 DEF r, q, v
        <3>7. DirectionGet(p)
            BY <2>3, <3>2, <3>4, <3>5, <3>6, <1>2, <1>4, <1>7, Zenon DEF DirectionGet
        <3> QED BY <3>7, <1>11 DEF DirectionStep
    <2>4. CASE Delivery(ack[s], pdu, room) # "Deliver"
        <3>1. Owed(p)' = Owed(p)
            <4>1. CASE Delivery(ack[s], pdu, room) = "Empty"
                <5>1. pdu.payload = "Empty"
                    BY <4>1, <1>5 DEF Delivery
                <5>2. ack[p].in_flight # "Data"
                    BY <5>1, <1>8, NoneAssumption
                <5> QED BY <5>2, <1>4, <1>7, Zenon DEF Owed
            <4>2. CASE Delivery(ack[s], pdu, room) # "Empty"
                <5>1. TakenByPeer(p)' <=> TakenByPeer(p)
                    BY <4>2, <2>2, <2>4, <1>6
                <5>2. CASE ack[p].in_flight = "Data" /\ ~TakenByPeer(p)
                    <6>1. Owed(p) = <<held[p]>> \o queue[p]
                        BY <5>2 DEF Owed
                    <6>2. Owed(p)' = <<held[p]>> \o queue[p]
                        BY <5>1, <5>2, <1>4, <1>7, Zenon DEF Owed
                    <6> QED BY <6>1, <6>2
                <5>3. CASE ~(ack[p].in_flight = "Data" /\ ~TakenByPeer(p))
                    <6>1. Owed(p) = <<>> \o queue[p]
                        BY <5>3, Zenon DEF Owed
                    <6>2. Owed(p)' = <<>> \o queue[p]
                        BY <5>1, <5>3, <1>4, <1>7, Zenon DEF Owed
                    <6> QED BY <6>1, <6>2
                <5> QED BY <5>2, <5>3
            <4> QED BY <4>1, <4>2
        <3> QED BY <2>4, <3>1, <1>2, <1>4, <1>7, <1>11
                DEF DirectionStep, DirectionQuiet
    <2> QED BY <2>3, <2>4
<1> QED BY <1>2, <1>10, <1>11

\* A step that leaves both sides' state alone changes no direction.
LEMMA QuietDirections ==
    ASSUME NEW d \in Sides, ack' = ack, held' = held, queue' = queue,
           outside' = outside, host' = host
    PROVE  DirectionStep(d)
<1>1. Owed(d)' = Owed(d)
    BY DEF Owed, TakenByPeer
<1> QED BY <1>1 DEF DirectionStep, DirectionQuiet

\* A submitted payload is the last its direction owes.
LEMMA SubmitDirections ==
    ASSUME AckInv, NEW s \in Sides, NEW v \in Values, Submit(s, v), NEW d \in Sides
    PROVE  DirectionStep(d)
<1> DEFINE p == Peer(s)
<1>1. p \in Sides /\ p # s /\ \A q \in Sides : q = s \/ q = p
    BY PeerFacts
<1>2. /\ v \in outside[s] /\ Len(queue[s]) < QueueDepth
      /\ queue'[s] = Append(queue[s], v) /\ queue'[p] = queue[p]
      /\ outside'[s] = outside[s] \ {v} /\ outside'[p] = outside[p]
      /\ ack' = ack /\ held' = held /\ host' = host
    BY <1>1, Zenon DEF Submit, AckInv, TypeOK
<1>3. queue[s] \in Seq(Values) /\ Append(queue[s], v) \in Seq(Values)
    BY AppendProperties DEF AckInv, TypeOK
<1>4. \A q \in Sides : TakenByPeer(q)' <=> TakenByPeer(q)
    BY <1>2, Zenon DEF TakenByPeer
<1>5. CASE d = p
    <2>1. CASE ack[p].in_flight = "Data" /\ ~TakenByPeer(p)
        <3>1. Owed(p) = <<held[p]>> \o queue[p]
            BY <2>1 DEF Owed
        <3>2. Owed(p)' = <<held[p]>> \o queue[p]
            BY <2>1, <1>1, <1>2, <1>4, Zenon DEF Owed
        <3> QED BY <3>1, <3>2, <1>2, <1>5, Zenon DEF DirectionStep, DirectionQuiet
    <2>2. CASE ~(ack[p].in_flight = "Data" /\ ~TakenByPeer(p))
        <3>1. Owed(p) = <<>> \o queue[p]
            BY <2>2, Zenon DEF Owed
        <3>2. Owed(p)' = <<>> \o queue[p]
            BY <2>2, <1>1, <1>2, <1>4, Zenon DEF Owed
        <3> QED BY <3>1, <3>2, <1>2, <1>5, Zenon DEF DirectionStep, DirectionQuiet
    <2> QED BY <2>1, <2>2, Zenon
<1>6. CASE d = s
    <2>1. Owed(s)' = Append(Owed(s), v)
        <3>1. CASE ack[s].in_flight = "Data" /\ ~TakenByPeer(s)
            <4>1. Owed(s) = <<held[s]>> \o queue[s]
                BY <3>1 DEF Owed
            <4>2. Owed(s)' = <<held[s]>> \o Append(queue[s], v)
                BY <3>1, <1>2, <1>4, Zenon DEF Owed
            <4>3. <<held[s]>> \in Seq(Values) /\ <<v>> \in Seq(Values)
                BY <3>1 DEF AckInv
            <4>4. <<held[s]>> \o queue[s] \in Seq(Values)
                BY <4>3, <1>3, ConcatProperties
            <4>5. /\ Append(queue[s], v) = queue[s] \o <<v>>
                  /\ Append(<<held[s]>> \o queue[s], v)
                       = (<<held[s]>> \o queue[s]) \o <<v>>
                BY <4>4, <1>3, AppendIsConcat
            <4>6. (<<held[s]>> \o queue[s]) \o <<v>> = <<held[s]>> \o (queue[s] \o <<v>>)
                <5>1. \A x, y, z \in Seq(Values) : (x \o y) \o z = x \o (y \o z)
                    BY ConcatAssociative
                <5> QED BY <5>1, <4>3, <1>3, Zenon
            <4> QED BY <4>1, <4>2, <4>5, <4>6, Zenon
        <3>2. CASE ~(ack[s].in_flight = "Data" /\ ~TakenByPeer(s))
            <4>1. Owed(s) = <<>> \o queue[s]
                BY <3>2, Zenon DEF Owed
            <4>2. Owed(s)' = <<>> \o Append(queue[s], v)
                BY <3>2, <1>2, <1>4, Zenon DEF Owed
            <4>3. <<>> \o queue[s] = queue[s]
                  /\ <<>> \o Append(queue[s], v) = Append(queue[s], v)
                BY <1>3, ConcatEmptySeq
            <4> QED BY <4>1, <4>2, <4>3
        <3> QED BY <3>1, <3>2
    <2>2. Len(Owed(s)) < QueueDepth + 1
        <3>1. Len(Owed(s)) <= Len(queue[s]) + 1 /\ Owed(s) \in Seq(Values)
            BY OwedForm, Zenon
        <3>2. Len(queue[s]) \in Nat /\ Len(Owed(s)) \in Nat
            BY <3>1, <1>3, LenProperties
        <3> QED BY <3>1, <3>2, <1>2, QueueDepthAssumption
    <2>3. DirectionPut(s, v)
        BY <2>1, <2>2, <1>2 DEF DirectionPut
    <2> QED BY <2>3, <1>6 DEF DirectionStep
<1> QED BY <1>1, <1>5, <1>6

\* A payload the receiving host takes is the sending host's again.
LEMMA TakeDirections ==
    ASSUME AckInv, NEW s \in Sides, Take(s), NEW d \in Sides
    PROVE  DirectionStep(d)
<1> DEFINE p == Peer(s)
<1>1. p \in Sides /\ p # s /\ Peer(p) = s /\ \A q \in Sides : q = s \/ q = p
    BY PeerFacts
<1>2. /\ host[s] # <<>> /\ host'[s] = Tail(host[s]) /\ host'[p] = host[p]
      /\ outside'[p] = outside[p] \union {Head(host[s])} /\ outside'[s] = outside[s]
      /\ ack' = ack /\ held' = held /\ queue' = queue
    BY <1>1, Zenon DEF Take, AckInv, TypeOK
<1>3. \A q \in Sides : Owed(q)' = Owed(q)
    BY <1>2 DEF Owed, TakenByPeer
<1>4. CASE d = s
    BY <1>2, <1>3, <1>4, Zenon DEF DirectionStep, DirectionQuiet
<1>5. CASE d = p
    BY <1>1, <1>2, <1>3, <1>5, Zenon DEF DirectionStep, DirectionSupply
<1> QED BY <1>1, <1>4, <1>5

\* Every step of the link is one step of each direction.
LEMMA NextDirections ==
    ASSUME AckInv, AckInv', [Next]_vars, NEW d \in Sides
    PROVE  DirectionStep(d)
<1>1. ASSUME NEW s \in Sides, Transmit(s) PROVE DirectionStep(d)
    BY <1>1, TransmitDirections
<1>2. ASSUME NEW s \in Sides, Receive(s) PROVE DirectionStep(d)
    BY <1>2, ReceiveDirections
<1>3. ASSUME NEW s \in Sides, Take(s) PROVE DirectionStep(d)
    BY <1>3, TakeDirections
<1>4. ASSUME NEW s \in Sides, NEW v \in Values, Submit(s, v) PROVE DirectionStep(d)
    BY <1>4, SubmitDirections
<1>5. ASSUME NEW s \in Sides, Corrupt(s) PROVE DirectionStep(d)
    BY <1>5, QuietDirections DEF Corrupt
<1>6. CASE Lose \/ CloseEvent \/ UNCHANGED vars
    BY <1>6, QuietDirections DEF Lose, CloseEvent, vars
<1> QED BY <1>1, <1>2, <1>3, <1>4, <1>5, <1>6 DEF Next

\* One step of a direction, in the terms of the abstract queue.
FifoStep(s) ==
    \/ /\ Owed(s)' = Owed(s) /\ outside'[s] = outside[s]
       /\ Held(Peer(s))' = Held(Peer(s))
    \/ \E v \in Values :
          /\ v \in outside[s] /\ Len(Owed(s)) < QueueDepth + 1
          /\ Owed(s)' = Append(Owed(s), v) /\ outside'[s] = outside[s] \ {v}
          /\ Held(Peer(s))' = Held(Peer(s))
    \/ /\ Owed(s) # <<>> /\ Owed(s)' = Tail(Owed(s)) /\ outside'[s] = outside[s]
       /\ Held(Peer(s))' = Held(Peer(s)) \union {Head(Owed(s))}
    \/ \E v \in Values :
          /\ v \in Held(Peer(s)) /\ outside'[s] = outside[s] \union {v}
          /\ Held(Peer(s))' = Held(Peer(s)) \ {v} /\ Owed(s)' = Owed(s)

\* With every payload in one place, a direction's step is a queue's step.
LEMMA DirectionFifo ==
    ASSUME AckInv, NEW s \in Sides, Owned(s), DirectionStep(s)
    PROVE  FifoStep(s)
<1> DEFINE h == host[Peer(s)]
<1>1. h \in Seq(Values) /\ Owed(s) \in Seq(Values) /\ Distinct(h) /\ Distinct(Owed(s))
    BY PeerFacts, Zenon DEF AckInv, TypeOK, Owned
<1>2. Held(Peer(s)) = Elements(h) /\ Held(Peer(s))' = Elements(h')
    BY Zenon DEF Held, Elements
<1>3. CASE DirectionQuiet(s)
    <2>1. h' = h
        BY <1>3, Zenon DEF DirectionQuiet
    <2> QED BY <2>1, <1>2, <1>3, Zenon DEF DirectionQuiet, FifoStep
<1>4. ASSUME NEW v \in Values, DirectionPut(s, v) PROVE FifoStep(s)
    <2>1. h' = h
        BY <1>4 DEF DirectionPut
    <2> QED BY <2>1, <1>2, <1>4, Zenon DEF DirectionPut, FifoStep
<1>5. CASE DirectionGet(s)
    <2>1. h' = Append(h, Head(Owed(s))) /\ Owed(s) # <<>>
        BY <1>5 DEF DirectionGet
    <2>2. Elements(Append(h, Head(Owed(s)))) = Elements(h) \union {Head(Owed(s))}
        BY <2>1, <1>1, AppendElements, TailElements
    <2> QED BY <2>1, <2>2, <1>2, <1>5, Zenon DEF DirectionGet, FifoStep
<1>6. CASE DirectionSupply(s)
    <2>1. h' = Tail(h) /\ h # <<>> /\ outside'[s] = outside[s] \union {Head(h)}
          /\ Owed(s)' = Owed(s)
        BY <1>6 DEF DirectionSupply
    <2>2. /\ Head(h) \in Elements(h) /\ Head(h) \in Values
          /\ Elements(Tail(h)) = Elements(h) \ {Head(h)}
        BY <2>1, <1>1, TailElements, Zenon
    <2> QED BY <2>1, <2>2, <1>2, Zenon DEF FifoStep
<1> QED BY <1>3, <1>4, <1>5, <1>6 DEF DirectionStep

\* Each direction is a reliable FIFO queue, for every set of payloads, queue
\* depth and room: whatever PDUs and acknowledgements the air takes, receive
\* and transmit deliver every payload at most once and in order, and release
\* none the peer has not taken.
THEOREM Refinement == Spec => ImplementsFifo
<1> DEFINE AllOwned == \A s \in Sides : Owned(s)
<1>1. Init => AllOwned /\ ToPeripheral!Init /\ ToCentral!Init
    <2> SUFFICES ASSUME Init PROVE AllOwned /\ ToPeripheral!Init /\ ToCentral!Init
        OBVIOUS
    <2>1. \A s \in Sides : host[s] = <<>> /\ queue[s] = <<>> /\ outside[s] = Values
                           /\ ack[s].in_flight # "Data"
        BY DEF Init, New, None
    <2>2. <<>> \o <<>> = <<>> /\ Len(<<>>) = 0 /\ <<>> \in Seq(Values)
        BY EmptySeq, ConcatEmptySeq
    <2>3. \A s \in Sides : Owed(s) = <<>>
        BY <2>1, <2>2 DEF Owed
    <2>4. Elements(<<>>) = {} /\ Distinct(<<>>)
        BY <2>2 DEF Elements, Distinct
    <2>5. \A s \in Sides : Held(s) = {}
        BY <2>1, <2>2 DEF Held
    <2>6. AllOwned
        BY <2>1, <2>2, <2>3, <2>4, PeerFacts, Zenon DEF Owned
    <2> HIDE DEF AllOwned
    <2>7. "central" \in Sides /\ "peripheral" \in Sides
        BY DEF Sides
    <2> QED BY <2>1, <2>3, <2>5, <2>6, <2>7 DEF ToPeripheral!Init, ToCentral!Init
<1>2. AckInv /\ AckInv' /\ AllOwned /\ [Next]_vars => AllOwned'
    BY NextDirections, DirectionOwned DEF Sides
<1>3. AckInv /\ AckInv' /\ AllOwned /\ [Next]_vars =>
          [ToPeripheral!Next]_ToPeripheral!vars /\ [ToCentral!Next]_ToCentral!vars
    <2> SUFFICES ASSUME AckInv, AckInv', AllOwned, [Next]_vars
                 PROVE  /\ [ToPeripheral!Next]_ToPeripheral!vars
                        /\ [ToCentral!Next]_ToCentral!vars
        OBVIOUS
    <2>1. FifoStep("central") /\ FifoStep("peripheral")
        BY NextDirections, DirectionFifo DEF Sides
    <2>2. Peer("central") = "peripheral" /\ Peer("peripheral") = "central"
        BY DEF Peer
    <2>3. [ToPeripheral!Next]_ToPeripheral!vars
        BY <2>1, <2>2 DEF FifoStep, ToPeripheral!Next, ToPeripheral!vars,
                          ToPeripheral!Put, ToPeripheral!Get, ToPeripheral!Supply
    <2>4. [ToCentral!Next]_ToCentral!vars
        BY <2>1, <2>2, Zenon DEF FifoStep, ToCentral!Next, ToCentral!vars,
                          ToCentral!Put, ToCentral!Get, ToCentral!Supply
    <2> QED BY <2>3, <2>4
<1> HIDE DEF AllOwned
<1> QED BY <1>1, <1>2, <1>3, Invariance, PTL
        DEF Spec, ImplementsFifo, ToPeripheral!Spec, ToCentral!Spec
=============================================================================
