------------------------------ MODULE AffineSpsc -----------------------------
(***************************************************************************)
(* AffineSpscQueue (crates/memory/src/affine_spsc.rs): a bounded ring that *)
(* moves affine values from one producer to one consumer on another core.  *)
(*                                                                         *)
(* Every atomic access and every access to a cell is a step of its own.    *)
(* A load of the other side's cursor may return a stale value: any cursor  *)
(* from the last one this side saw up to the current one (coherence of one *)
(* atomic location).  Release/Acquire is what lets the cell be read after  *)
(* its cursor was seen; the cells are therefore plain memory here.         *)
(***************************************************************************)
EXTENDS Integers, Sequences

CONSTANTS DEPTH,    \* cells of the ring
          Values,   \* the affine values that travel through it
          NoValue   \* an uninitialized cell

ASSUME DepthAssumption == DEPTH \in Nat \ {0}
ASSUME NoValueAssumption == NoValue \notin Values

VARIABLES
    alive,          \* the queue's storage exists
    values,         \* the cells
    producer,       \* producer cursor
    consumer,       \* consumer cursor
    ppc,            \* producer: "idle", "reserved" (holds a permit), "written"
    permit,         \* producer cursor captured in the permit
    seenConsumer,   \* latest consumer cursor the producer loaded
    cpc,            \* consumer: "idle", "claimed" (saw a value), "read"
    seenProducer,   \* latest producer cursor the consumer loaded
    taken,          \* value moved out of its cell, not yet returned
    outside,        \* values owned by the sender's caller
    received,       \* values owned by the receiver's caller
    dropped         \* values destroyed with a queue

producerVars == <<producer, ppc, permit, seenConsumer>>
consumerVars == <<consumer, cpc, seenProducer, taken>>
vars == <<alive, values, producerVars, consumerVars, outside, received, dropped>>

Cursors == 0..(2 * DEPTH - 1)
Cells == 0..(DEPTH - 1)

cursor_distance(c, p) == IF p >= c THEN p - c ELSE DEPTH * 2 - (c - p)

advance(cursor) == IF cursor + 1 = DEPTH * 2 THEN 0 ELSE cursor + 1

\* Cursors a load may return after `seen` was returned before.
Views(seen, current) ==
    {c \in Cursors : cursor_distance(seen, c) <= cursor_distance(seen, current)}

Length == cursor_distance(consumer, producer)

TypeOK ==
    /\ alive \in BOOLEAN
    /\ values \in [Cells -> Values \union {NoValue}]
    /\ producer \in Cursors
    /\ consumer \in Cursors
    /\ ppc \in {"idle", "reserved", "written"}
    /\ permit \in Cursors
    /\ seenConsumer \in Cursors
    /\ cpc \in {"idle", "claimed", "read"}
    /\ seenProducer \in Cursors
    /\ taken \in Values \union {NoValue}
    /\ outside \subseteq Values
    /\ received \subseteq Values
    /\ dropped \subseteq Values

Init ==
    /\ alive = TRUE
    /\ values = [i \in Cells |-> NoValue]
    /\ producer = 0 /\ consumer = 0
    /\ permit = 0
    /\ seenConsumer = 0 /\ seenProducer = 0
    /\ ppc = "idle" /\ cpc = "idle"
    /\ taken = NoValue
    /\ outside = Values /\ received = {} /\ dropped = {}

-----------------------------------------------------------------------------
(* The producer: try_send and try_reserve both go through vacant_slot.      *)

\* Mutant of Reserve: a full queue still counts as vacant.
ReserveWhenFull ==
    /\ alive /\ ppc = "idle"
    /\ \E view \in Views(seenConsumer, consumer) :
         /\ cursor_distance(view, producer) <= DEPTH
         /\ seenConsumer' = view
    /\ ppc' = "reserved"
    /\ permit' = producer
    /\ UNCHANGED <<alive, values, producer, consumerVars, outside, received, dropped>>

\* vacant_slot finds a vacant cell: the permit captures the cursor.
Reserve ==
    /\ alive /\ ppc = "idle"
    /\ \E view \in Views(seenConsumer, consumer) :
         /\ cursor_distance(view, producer) < DEPTH
         /\ seenConsumer' = view
    /\ ppc' = "reserved"
    /\ permit' = producer
    /\ UNCHANGED <<alive, values, producer, consumerVars, outside, received, dropped>>

\* vacant_slot finds the queue full: the caller keeps its value.
Refuse ==
    /\ alive /\ ppc = "idle"
    /\ \E view \in Views(seenConsumer, consumer) :
         /\ cursor_distance(view, producer) >= DEPTH
         /\ seenConsumer' = view
    /\ UNCHANGED <<alive, values, producer, ppc, permit, consumerVars,
                   outside, received, dropped>>

\* A permit dropped unused returns the producer borrow and nothing else.
DropPermit ==
    /\ ppc = "reserved"
    /\ ppc' = "idle"
    /\ UNCHANGED <<alive, values, producer, permit, seenConsumer, consumerVars,
                   outside, received, dropped>>

\* AffineSpscSendPermit::send, the cell write ...
Write(v) ==
    /\ ppc = "reserved"
    /\ v \in outside
    /\ outside' = outside \ {v}
    /\ values' = [values EXCEPT ![permit % DEPTH] = v]
    /\ ppc' = "written"
    /\ UNCHANGED <<alive, producer, permit, seenConsumer, consumerVars,
                   received, dropped>>

\* ... and the Release store that publishes it.
Publish ==
    /\ ppc = "written"
    /\ producer' = advance(permit)
    /\ ppc' = "idle"
    /\ UNCHANGED <<alive, values, permit, seenConsumer, consumerVars,
                   outside, received, dropped>>

\* AffineSpscSender::len, is_empty and free_capacity load the consumer cursor.
SenderLen ==
    /\ alive /\ ppc = "idle"
    /\ seenConsumer' \in Views(seenConsumer, consumer)
    /\ UNCHANGED <<alive, values, producer, ppc, permit, consumerVars,
                   outside, received, dropped>>

-----------------------------------------------------------------------------
(* The consumer: try_receive.                                               *)

\* Mutant of Claim: the consumer does not compare its cursor.
ClaimUnchecked ==
    /\ alive /\ cpc = "idle"
    /\ seenProducer' \in Views(seenProducer, producer)
    /\ cpc' = "claimed"
    /\ UNCHANGED <<alive, values, producerVars, consumer, taken,
                   outside, received, dropped>>

\* The load of the producer cursor shows a published value.
Claim ==
    /\ alive /\ cpc = "idle"
    /\ \E view \in Views(seenProducer, producer) :
         /\ consumer # view
         /\ seenProducer' = view
    /\ cpc' = "claimed"
    /\ UNCHANGED <<alive, values, producerVars, consumer, taken,
                   outside, received, dropped>>

\* try_receive reports Empty; len and is_empty perform the same load.
ReceiverLen ==
    /\ alive /\ cpc = "idle"
    /\ seenProducer' \in Views(seenProducer, producer)
    /\ UNCHANGED <<alive, values, producerVars, consumer, cpc, taken,
                   outside, received, dropped>>

\* Mutant of Read: the cell before the producer cursor, the newest value.
ReadNewest ==
    /\ cpc = "claimed"
    /\ taken' = values[(seenProducer + DEPTH - 1) % DEPTH]
    /\ cpc' = "read"
    /\ UNCHANGED <<alive, values, producerVars, consumer, seenProducer,
                   outside, received, dropped>>

\* assume_init_read moves the value out of its cell.
Read ==
    /\ cpc = "claimed"
    /\ taken' = values[consumer % DEPTH]
    /\ cpc' = "read"
    /\ UNCHANGED <<alive, values, producerVars, consumer, seenProducer,
                   outside, received, dropped>>

\* The Release store of the consumer cursor gives the cell back.
Return ==
    /\ cpc = "read"
    /\ consumer' = advance(consumer)
    /\ cpc' = "idle"
    /\ received' = received \union {taken}
    /\ taken' = NoValue
    /\ UNCHANGED <<alive, values, producerVars, seenProducer, outside, dropped>>

-----------------------------------------------------------------------------
(* The owner of the storage.  split and drop need `&mut self`, so neither   *)
(* endpoint is inside a call; the borrow orders everything before it.       *)

Contents == [i \in 1..Length |-> values[(consumer + i - 1) % DEPTH]]

\* A new endpoint pair inherits the values its predecessor left.
Split ==
    /\ alive /\ ppc = "idle" /\ cpc = "idle"
    /\ seenConsumer' = consumer
    /\ seenProducer' = producer
    /\ UNCHANGED <<alive, values, producer, ppc, permit, consumer, cpc, taken,
                   outside, received, dropped>>

\* Mutant of Drop: the last value is forgotten.
DropAllButLast ==
    /\ alive /\ ppc = "idle" /\ cpc = "idle"
    /\ dropped' = dropped \union {Contents[i] : i \in 1..(Length - 1)}
    /\ consumer' = producer
    /\ seenConsumer' = producer /\ seenProducer' = producer
    /\ alive' = FALSE
    /\ UNCHANGED <<values, producer, ppc, permit, cpc, taken, outside, received>>

\* Drop destroys every value between the cursors.
Drop ==
    /\ alive /\ ppc = "idle" /\ cpc = "idle"
    /\ dropped' = dropped \union {Contents[i] : i \in 1..Length}
    /\ consumer' = producer
    /\ seenConsumer' = producer /\ seenProducer' = producer
    /\ alive' = FALSE
    /\ UNCHANGED <<values, producer, ppc, permit, cpc, taken, outside, received>>

\* A new queue in new storage.
New ==
    /\ ~alive
    /\ alive' = TRUE
    /\ values' = [i \in Cells |-> NoValue]
    /\ producer' = 0 /\ consumer' = 0
    /\ permit' = 0
    /\ seenConsumer' = 0 /\ seenProducer' = 0
    /\ UNCHANGED <<ppc, cpc, taken, outside, received, dropped>>

\* The environment: owners send again what they received, or something new.
Supply(v) ==
    /\ v \in received \union dropped
    /\ outside' = outside \union {v}
    /\ received' = received \ {v}
    /\ dropped' = dropped \ {v}
    /\ UNCHANGED <<alive, values, producerVars, consumerVars>>

Producer == Reserve \/ Refuse \/ DropPermit \/ Publish \/ SenderLen \/ \E v \in Values : Write(v)
Consumer == Claim \/ ReceiverLen \/ Read \/ Return
Owner == Split \/ Drop \/ New \/ \E v \in Values : Supply(v)

Next == Producer \/ Consumer \/ Owner

Spec == Init /\ [][Next]_vars

-----------------------------------------------------------------------------
(* Properties.                                                              *)

\* The producer writes a cell only while the consumer cannot read it: a
\* permit never names the cell of a value between the cursors, so no write
\* races a read and none overwrites a value nobody took (affine_spsc.rs:67,
\* the SAFETY argument of the Sync impl).
NoDataRace ==
    ppc \in {"reserved", "written"} =>
        \A i \in 0..(Length - 1) : (consumer + i) % DEPTH # permit % DEPTH

\* Every value has one owner: the sender's caller, the queue (once), the
\* cell being published, the receiver's caller, or nobody once dropped.
\* Nothing is duplicated by a read and nothing lost by a refusal, a dropped
\* permit, a new split or the queue's drop.
Inside ==
    {Contents[i] : i \in 1..Length}
        \union (IF ppc = "written" THEN {values[permit % DEPTH]} ELSE {})

Affine ==
    /\ \A i, j \in 1..Length : Contents[i] = Contents[j] => i = j
    /\ ppc = "written" => \A i \in 1..Length : Contents[i] # values[permit % DEPTH]
    /\ outside \union Inside \union received \union dropped = Values
    /\ outside \intersect (Inside \union received \union dropped) = {}
    /\ Inside \intersect (received \union dropped) = {}
    /\ received \intersect dropped = {}

\* Whatever stale cursor a load returned, the sender's length never
\* underestimates the queue and the receiver's never overestimates it, and
\* both stay within DEPTH, so `min(DEPTH)` in len never hides an overrun.
LenIsConservative ==
    /\ Length <= cursor_distance(seenConsumer, producer)
    /\ cursor_distance(seenConsumer, producer) <= DEPTH
    /\ cpc = "idle" => cursor_distance(consumer, seenProducer) <= Length

\* The ring implements the bounded FIFO: a value enters at the store of the
\* producer cursor and leaves at the store of the consumer cursor.
Fifo == INSTANCE FifoQueue WITH
    Capacity <- DEPTH,
    queue <- Contents,
    outside <- outside \union
        (IF ppc = "written" THEN {values[permit % DEPTH]} ELSE {})

ImplementsFifo == Fifo!Spec
=============================================================================
