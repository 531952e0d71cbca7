------------------------------ MODULE FifoQueue ------------------------------
(***************************************************************************)
(* What a bounded single-producer single-consumer queue of affine values   *)
(* promises: values leave in the order they entered, at most Capacity are  *)
(* inside, and every value has exactly one owner - the sender's caller,    *)
(* the queue, the receiver's caller, or nobody once the queue dropped it.  *)
(* AffineSpsc is shown to implement it.                                    *)
(***************************************************************************)
EXTENDS Naturals, Sequences

CONSTANTS Capacity, Values

VARIABLES queue, outside, received, dropped

vars == <<queue, outside, received, dropped>>

Init ==
    /\ queue = <<>>
    /\ outside = Values
    /\ received = {}
    /\ dropped = {}

Put(v) ==
    /\ v \in outside
    /\ Len(queue) < Capacity
    /\ queue' = Append(queue, v)
    /\ outside' = outside \ {v}
    /\ UNCHANGED <<received, dropped>>

Get ==
    /\ queue # <<>>
    /\ queue' = Tail(queue)
    /\ received' = received \union {Head(queue)}
    /\ UNCHANGED <<outside, dropped>>

\* Dropping the queue destroys what it still holds.
Discard ==
    /\ queue' = <<>>
    /\ dropped' = dropped \union {queue[i] : i \in 1..Len(queue)}
    /\ UNCHANGED <<outside, received>>

\* The owner of a received value, or of a new one, hands it to the sender.
Supply(v) ==
    /\ v \in received \union dropped
    /\ outside' = outside \union {v}
    /\ received' = received \ {v}
    /\ dropped' = dropped \ {v}
    /\ UNCHANGED queue

Next ==
    \/ \E v \in Values : Put(v) \/ Supply(v)
    \/ Get
    \/ Discard

Spec == Init /\ [][Next]_vars
=============================================================================
