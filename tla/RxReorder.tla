----------------------------- MODULE RxReorder -----------------------------
(***************************************************************************)
(* RxReorderBuffer, the receive reorder window of one Block Ack agreement: *)
(* a circular table of retained MPDUs addressed relative to head, over     *)
(* sequence numbers modulo Modulus.  Its caller owns the frame slots and   *)
(* the gap timer.  The originator resends what it has no acknowledgement   *)
(* for, gives up on some MPDUs, and sends BlockAckReqs.  MPDUs also carry  *)
(* their number without the wrap, n, which the code never sees.            *)
(***************************************************************************)
EXTENDS Integers, Sequences, FiniteSets

CONSTANTS
    Modulus,        \* the sequence-number space: 4096
    WindowCapacity, \* WINDOW_CAPACITY
    Slots,          \* the caller's slot domain
    Total,          \* MPDUs the originator has to send
    First           \* number of the first one, so that the space wraps

HalfSpace == Modulus \div 2

ASSUME ReorderAssumption ==
    /\ Modulus \in Nat /\ Modulus % 2 = 0
    /\ WindowCapacity \in 1..(HalfSpace - 1)
    /\ First \in Nat /\ Total \in Nat

VARIABLES
    buffer,  \* the RxReorderBuffer
    open,    \* the agreement is in force
    fresh,   \* no MPDU of this agreement was received yet
    base,    \* oldest MPDU the originator still sends
    done,    \* later ones it no longer sends: acknowledged or abandoned
    nextN,   \* number of the MPDU the window waits for
    out,     \* numbers released by the latest operation, in order
    last,    \* greatest number released before it
    balance, \* numbers the window passed, less those released or missing
    busy     \* slots the caller has not got back

vars == <<buffer, open, fresh, base, done, nextN, out, last, balance, busy>>

Sequence(n) == n % Modulus

ForwardDistance(from, to) == (to - from) % Modulus

Positions == 0..(WindowCapacity - 1)

NewBuffer(sequence, window) ==
    [starting_sequence |-> sequence, next_sequence |-> sequence,
     window |-> window, occupied |-> {}, head |-> 0,
     frames |-> [i \in Positions |-> {}]]

Retained(b) == UNION {b.frames[i] : i \in Positions}

RelativeIndex(head, distance) == (head + distance) % WindowCapacity

HasSequence(b, sequence) ==
    LET distance == ForwardDistance(b.next_sequence, sequence)
        index == RelativeIndex(b.head, distance)
    IN  /\ distance < b.window
        /\ index \in b.occupied
        /\ \E f \in b.frames[index] : f.sequence = sequence

\* contiguous_from: how long the run from start is, given what arrives.
ContiguousFrom(b, start, received) ==
    LET present(offset) ==
            LET sequence == Sequence(start + offset)
            IN  (\E f \in received : f.sequence = sequence) \/ HasSequence(b, sequence)
    IN  CHOOSE k \in 0..b.window :
            /\ \A offset \in 0..(k - 1) : present(offset)
            /\ k < b.window => ~present(k)

\* The operations return the new buffer, the released frames, how many
\* sequence numbers were passed without one, and whether the input stays.
Unchanged(b) == [buffer |-> b, released |-> {}, missing |-> 0, buffered |-> FALSE]

\* finish: what is skipped without a frame.
Missing(b, advance) ==
    advance - Cardinality({f \in Retained(b) :
                              ForwardDistance(b.next_sequence, f.sequence) < advance})

\* Mutant of Place: the MPDU is placed relative to the window it came to.
PlaceFromOldStart(b, span, frame) ==
    RelativeIndex(RelativeIndex(b.head, span),
                  ForwardDistance(b.next_sequence, frame.sequence))

\* finish: where a retained MPDU goes, relative to the window after the span.
Place(b, span, frame) ==
    RelativeIndex(RelativeIndex(b.head, span),
                  ForwardDistance(Sequence(b.next_sequence + span), frame.sequence))

\* finish: frames of the passed span leave their own position; the received
\* MPDU takes the vacant head's place in the result, or its own in the table.
Finish(b, advance, contiguous, received) ==
    LET start == b.next_sequence
        span == advance + contiguous
        leaving == [i \in Positions |->
            {f \in b.frames[i] : ForwardDistance(start, f.sequence) < span}]
        passes == \E f \in received : ForwardDistance(start, f.sequence) < span
        places == {Place(b, span, f) : f \in IF passes THEN {} ELSE received}
    IN  [buffer |-> [b EXCEPT
            !.next_sequence = Sequence(start + span),
            !.head = RelativeIndex(@, span),
            !.occupied = (@ \ {i \in Positions : leaving[i] # {}}) \union places,
            !.frames = [i \in Positions |->
                IF i \in places THEN received ELSE @[i] \ leaving[i]]],
         released |-> UNION {IF passes /\ i = b.head THEN received ELSE leaving[i] :
                                i \in Positions},
         missing |-> Missing(b, advance),
         buffered |-> received # {} /\ ~passes]

\* The order of a release: by distance from the window start before it.
Ordered(frames, start) ==
    [i \in 1..Cardinality(frames) |->
        CHOOSE f \in frames : i = 1 + Cardinality({g \in frames :
            ForwardDistance(start, g.sequence) < ForwardDistance(start, f.sequence)})]

Behind(b, sequence) == ForwardDistance(b.next_sequence, sequence) >= HalfSpace

Advance(b, sequence) ==
    LET distance == ForwardDistance(b.next_sequence, sequence)
    IN  IF distance >= b.window THEN distance - b.window + 1 ELSE 0

\* ingest of a sequence that is neither stale nor a duplicate.
Ingest(b, frame) ==
    LET advance == Advance(b, frame.sequence)
        start == Sequence(b.next_sequence + advance)
    IN  Finish(b, advance, ContiguousFrom(b, start, {frame}), {frame})

\* Mutant of TakesImmediate: the run behind the missing MPDU is forgotten.
TakesImmediateAlways(b, sequence) == sequence = b.next_sequence

\* try_ingest_immediate: the in-order MPDU without a buffered successor.
TakesImmediate(b, sequence) ==
    /\ sequence = b.next_sequence
    /\ ~HasSequence(b, Sequence(b.next_sequence + 1))

Immediate(b, frame) ==
    [buffer |-> [b EXCEPT !.head = RelativeIndex(@, 1),
                          !.next_sequence = Sequence(@ + 1)],
     released |-> {frame}, missing |-> 0, buffered |-> FALSE]

RetainsOnIngest(b, sequence) ==
    LET distance == ForwardDistance(b.next_sequence, sequence)
    IN  /\ ~Behind(b, sequence)
        /\ (IF distance >= b.window THEN b.window - 1 ELSE distance) # 0

\* expire_gap: the first buffered run, if any.
ExpireGap(b) ==
    LET held == {d \in 0..(b.window - 1) :
                    HasSequence(b, Sequence(b.next_sequence + d))}
        first == CHOOSE d \in held : \A e \in held : d <= e
    IN  IF held = {} THEN Unchanged(b)
        ELSE Finish(b, first,
                    ContiguousFrom(b, Sequence(b.next_sequence + first), {}), {})

\* Mutant of MovesWindow: a start in the backward half moves the window too.
MovesWindowAnywhere(b, sequence) == ForwardDistance(b.next_sequence, sequence) # 0

MovesWindow(b, sequence) ==
    ForwardDistance(b.next_sequence, sequence) # 0 /\ ~Behind(b, sequence)

MoveWindowTo(b, sequence) ==
    Finish(b, ForwardDistance(b.next_sequence, sequence),
           ContiguousFrom(b, sequence, {}), {})

StopBuffer(b) ==
    [buffer |-> [b EXCEPT !.occupied = {}, !.frames = [i \in Positions |-> {}]],
     released |-> Retained(b), missing |-> 0, buffered |-> FALSE]

\* resynchronize_stale_initial_ampdu: where a stale first MPDU moves the window.
ResynchronizedTo(b, sequence, use_received_sequence) ==
    IF use_received_sequence THEN sequence
    ELSE IF ForwardDistance(b.starting_sequence, sequence) >= HalfSpace
         THEN Sequence(sequence - (b.window - 1))
         ELSE b.starting_sequence

-----------------------------------------------------------------------------
Numbers == First..(First + Total - 1)

LastReleased ==
    IF out = <<>> THEN last ELSE out[Len(out)]

Moved(from, to) == ForwardDistance(from.next_sequence, to.next_sequence)

\* One operation of the buffer: the caller gets the released slots back.
Operate(result, input) ==
    LET order == Ordered(result.released, buffer.next_sequence)
    IN  /\ buffer' = result.buffer
        /\ out' = [i \in DOMAIN order |-> order[i].n]
        /\ last' = LastReleased
        /\ nextN' = nextN + Moved(buffer, result.buffer)
        /\ balance' = balance + Moved(buffer, result.buffer)
                      - Cardinality(result.released) - result.missing
        /\ busy' = (busy \union input) \ {f.slot : f \in result.released}

\* What the originator sends again after it lost the acknowledgement of n.
Acknowledge(n, heard) ==
    LET gone == IF heard THEN done \union {n} ELSE done
        rest == {m \in (base..(First + Total)) : m \notin gone}
        oldest == CHOOSE m \in rest : \A k \in rest : m <= k
    IN  base' = oldest /\ done' = {m \in gone : m > oldest}

\* The originator's window, and its distance to what the recipient waits for.
Sendable(n) ==
    /\ n \in Numbers
    /\ n >= base /\ n < base + buffer.window /\ n \notin done
    /\ n - nextN < HalfSpace

\* An MPDU arrives: discarded when stale or already buffered, else ingested.
Receive(n, slot, heard) ==
    LET frame == [sequence |-> Sequence(n), slot |-> slot, n |-> n]
    IN  /\ open
        /\ Sendable(n)
        /\ slot \in Slots \ busy
        /\ fresh => ~Behind(buffer, frame.sequence)
        /\ \/ /\ Behind(buffer, frame.sequence) \/ HasSequence(buffer, frame.sequence)
              /\ Operate(Unchanged(buffer), {})
           \/ /\ ~Behind(buffer, frame.sequence)
              /\ ~HasSequence(buffer, frame.sequence)
              /\ IF TakesImmediate(buffer, frame.sequence)
                 THEN Operate(Immediate(buffer, frame), {slot})
                 ELSE Operate(Ingest(buffer, frame), {slot})
        /\ fresh' = FALSE
        /\ Acknowledge(n, heard)
        /\ UNCHANGED open

\* The first MPDU of an agreement lies behind it: the caller resynchronizes.
Resynchronize(n, use_received_sequence) ==
    LET sequence == Sequence(n)
        to == ResynchronizedTo(buffer, sequence, use_received_sequence)
    IN  /\ open
        /\ fresh
        /\ Sendable(n)
        /\ Behind(buffer, sequence)
        /\ buffer' = [StopBuffer(buffer).buffer EXCEPT !.next_sequence = to]
        /\ nextN' = n - ForwardDistance(to, sequence)
        /\ out' = <<>>
        /\ last' = First - Modulus
        /\ balance' = 0
        /\ fresh' = FALSE
        /\ busy' = busy \ {f.slot : f \in Retained(buffer)}
        /\ UNCHANGED <<open, base, done>>

GapExpires ==
    /\ open
    /\ Operate(ExpireGap(buffer), {})
    /\ UNCHANGED <<open, fresh, base, done>>

\* The originator abandons an MPDU it was sending.
Abandon(n) ==
    /\ open
    /\ Sendable(n)
    /\ Acknowledge(n, TRUE)
    /\ UNCHANGED <<buffer, open, fresh, nextN, out, last, balance, busy>>

\* A BlockAckReq names the oldest MPDU the originator still sends.
BlockAckReq ==
    /\ open
    /\ base - nextN < HalfSpace
    /\ IF MovesWindow(buffer, Sequence(base))
       THEN Operate(MoveWindowTo(buffer, Sequence(base)), {})
       ELSE Operate(Unchanged(buffer), {})
    /\ UNCHANGED <<open, fresh, base, done>>

Stop ==
    /\ open
    /\ open' = FALSE
    /\ Operate(StopBuffer(buffer), {})
    /\ UNCHANGED <<fresh, base, done>>

\* A new agreement from the originator's start, which may be ahead of MPDUs
\* it still resends.
Start(n, window) ==
    /\ ~open
    /\ n \in base..(base + 1)
    /\ open' = TRUE
    /\ fresh' = TRUE
    /\ buffer' = NewBuffer(Sequence(n), window)
    /\ nextN' = n
    /\ out' = <<>>
    /\ last' = First - Modulus
    /\ balance' = 0
    /\ UNCHANGED <<base, done, busy>>

Init ==
    /\ \E window \in 1..WindowCapacity :
          buffer = NewBuffer(Sequence(First), window)
    /\ open = TRUE
    /\ fresh = TRUE
    /\ base = First
    /\ done = {}
    /\ nextN = First
    /\ out = <<>>
    /\ last = First - Modulus
    /\ balance = 0
    /\ busy = {}

Next ==
    \/ \E n \in Numbers :
          \/ \E slot \in Slots, heard \in BOOLEAN : Receive(n, slot, heard)
          \/ \E use \in BOOLEAN : Resynchronize(n, use)
          \/ Abandon(n)
    \/ GapExpires
    \/ BlockAckReq
    \/ Stop
    \/ \E n \in base..(base + 1), window \in 1..WindowCapacity : Start(n, window)

Spec == Init /\ [][Next]_vars

-----------------------------------------------------------------------------
\* The table is what its relative index says: every retained MPDU lies in the
\* window and is found at its own position, the head is vacant, which is what
\* lets finish put the received MPDU in the head's result position, and the
\* busy slots are those of the retained MPDUs, one each.
TableIsExact ==
    /\ buffer.head \notin buffer.occupied
    /\ buffer.occupied = {i \in Positions : buffer.frames[i] # {}}
    /\ \A i \in Positions : \A f \in buffer.frames[i] :
          /\ HasSequence(buffer, f.sequence)
          /\ i = RelativeIndex(buffer.head,
                               ForwardDistance(buffer.next_sequence, f.sequence))
    /\ busy = {f.slot : f \in Retained(buffer)}
    /\ Cardinality(busy) = Cardinality(Retained(buffer))

\* MPDUs are released in the originator's order and never twice, whatever is
\* resent, skipped by a timeout or moved by a BlockAckReq, and across the wrap;
\* every sequence number the window passes is released or counted missing.
ReleasedInOrder ==
    /\ \A i, j \in 1..Len(out) : i < j => out[i] < out[j]
    /\ \A i \in 1..Len(out) : out[i] > last
    /\ open => balance = 0

\* The fast path decides as ingest would, and storage is reserved whenever
\* ingest keeps the MPDU (try_ingest_immediate, retains_on_ingest).
FastPathAgrees ==
    \A n \in Numbers, slot \in Slots \ busy :
        LET frame == [sequence |-> Sequence(n), slot |-> slot, n |-> n]
            taken == Ingest(buffer, frame)
        IN  (~Behind(buffer, frame.sequence) /\ ~HasSequence(buffer, frame.sequence))
              => /\ TakesImmediate(buffer, frame.sequence) =>
                       taken = Immediate(buffer, frame)
                 /\ taken.buffered => RetainsOnIngest(buffer, frame.sequence)
=============================================================================
