--------------------------- MODULE RxReorderProofs ---------------------------
(***************************************************************************)
(* Safety of the reorder buffer for every sequence-number space, window    *)
(* capacity, slot domain and number of MPDUs.                              *)
(***************************************************************************)
EXTENDS RxReorderTableProofs

\* The caller's slots are those of the retained MPDUs, one each.
SlotInv ==
    /\ busy = {f.slot : f \in Retained(buffer)}
    /\ \A f, g \in Retained(buffer) : f.slot = g.slot => f = g
    /\ ~open => Retained(buffer) = {}

\* The originator has not sent past its list.
OriginatorInv == base \in First..(First + Total) /\ done \subseteq Numbers

\* Numbers and sequence numbers tell the same story: the window starts at
\* nextN, a retained MPDU lies its offset ahead, neither is past the window of
\* the originator, and everything released was before nextN.
NumberInv ==
    /\ nextN \in Int
    /\ buffer.next_sequence = Sequence(nextN)
    /\ nextN >= First - HalfSpace
    /\ open => nextN <= base + buffer.window
    /\ \A f \in Retained(buffer) :
          f.n = nextN + Offset(buffer, f) /\ f.n < base + buffer.window
    /\ last \in Int /\ out \in Seq(Int)
    /\ open => last < nextN /\ \A i \in 1..Len(out) : out[i] < nextN

ReorderInv == TableInv(buffer) /\ SlotInv /\ OriginatorInv /\ NumberInv /\ ReleasedInOrder

-----------------------------------------------------------------------------
(* One operation of the buffer keeps the invariant.                         *)

\* Finitely many MPDUs are retained or arrive.
LEMMA RetainedFinite ==
    ASSUME NEW b, TableInv(b), NEW received, Arrives(b, received),
           NEW F \in SUBSET (Retained(b) \union received)
    PROVE  IsFiniteSet(F) /\ Cardinality(F) \in Nat
<1>1. /\ \A f \in F : Offset(b, f) \in 0..(0 + Modulus - 1)
      /\ \A f, g \in F : Offset(b, f) = Offset(b, g) => f = g
    BY AllDistinct, Spaces
<1>2. 0 \in Int /\ Modulus \in Nat
    BY Spaces
<1> QED BY <1>1, <1>2, OffsetsCount, Zenon

\* MPDUs that may be handed over now: they carry the number their offset says,
\* within the originator's window, in slots the caller holds free.
Comes(received) ==
    /\ Arrives(buffer, received)
    /\ \A f \in received : /\ f.n = nextN + Offset(buffer, f) /\ f.slot \notin busy
                           /\ f.n < base + buffer.window

\* Finitely many MPDUs at distinct offsets, numbered by them.
Numbered(F) ==
    /\ IsFiniteSet(F)
    /\ \A f \in F : Offset(buffer, f) \in Nat /\ f.n = nextN + Offset(buffer, f)
    /\ \A f, g \in F : Offset(buffer, f) = Offset(buffer, g) => f = g

\* The numbers given out are those of F, in order, and all of them follow what
\* was released before.
GivenOut(F) ==
    /\ out' \in Seq(Int)
    /\ \A i, j \in 1..Len(out') : i < j => out'[i] < out'[j]
    /\ \A i \in 1..Len(out') :
          out'[i] >= nextN /\ \E f \in F : out'[i] = nextN + Offset(buffer, f)
    /\ last' \in Int /\ last' < nextN

\* No MPDU at all may always be handed over.
LEMMA NothingComes == Comes({})
BY Zenon DEF Comes, Arrives

\* Retained and arriving MPDUs are numbered by their offsets.
LEMMA FramesNumbered ==
    ASSUME ReorderInv, NEW received, Comes(received),
           NEW F \in SUBSET (Retained(buffer) \union received)
    PROVE  Numbered(F)
<1>1. TableInv(buffer) /\ Arrives(buffer, received)
    BY DEF ReorderInv, Comes
<1>2. IsFiniteSet(F)
    BY <1>1, RetainedFinite
<1>3. \A f \in Retained(buffer) \union received : f.n = nextN + Offset(buffer, f)
    BY DEF ReorderInv, NumberInv, Comes
<1>4. /\ \A f \in F : Offset(buffer, f) \in Nat
      /\ \A f, g \in F : Offset(buffer, f) = Offset(buffer, g) => f = g
    BY <1>1, AllDistinct
<1> QED BY <1>2, <1>3, <1>4 DEF Numbered

\* An operation gives out what it releases, in order.
LEMMA ReleaseOut ==
    ASSUME ReorderInv, open, NEW r, NEW input, Operate(r, input),
           NEW F, F = r.released, Numbered(F)
    PROVE  GivenOut(F)
<1>1. nextN \in Int
    BY DEF ReorderInv, NumberInv
<1>2. IsFiniteSet(F)
    BY DEF Numbered
<1>3. /\ \A f \in F : Offset(buffer, f) \in Nat
      /\ \A f, g \in F : Offset(buffer, f) = Offset(buffer, g) => f = g
    BY DEF Numbered
<1>4. \A f \in F : f.n = nextN + Offset(buffer, f)
    BY DEF Numbered
<1>5. PICK o : o = Ordered(F, buffer.next_sequence)
    OBVIOUS
<1>6. out' = [i \in DOMAIN o |-> o[i].n] /\ last' = LastReleased
    BY <1>5, Zenon DEF Operate
<1>7. /\ Cardinality(F) \in Nat /\ o \in [1..Cardinality(F) -> F]
      /\ \A i, j \in 1..Cardinality(F) :
            i < j => Offset(buffer, o[i]) < Offset(buffer, o[j])
    BY <1>2, <1>3, <1>5, OrderedByOffset, Zenon
<1>8. PICK n \in Nat : n = Cardinality(F)
    BY <1>7
<1>9. o \in [1..n -> F] /\ out' = [i \in 1..n |-> o[i].n]
    BY <1>6, <1>7, <1>8, Zenon
<1>10. \A i \in 1..n : /\ o[i] \in F /\ Offset(buffer, o[i]) \in Nat
                       /\ o[i].n = nextN + Offset(buffer, o[i])
    BY <1>3, <1>4, <1>9, Zenon
<1>11. out' \in Seq(Int) /\ Len(out') = n /\ \A i \in 1..n : out'[i] = o[i].n
    <2>1. \A i \in 1..n : o[i].n \in Int
        BY <1>1, <1>10
    <2> QED BY <1>9, <2>1
<1>12. \A i, j \in 1..n : i < j => Offset(buffer, o[i]) < Offset(buffer, o[j])
    BY <1>7, <1>8, Zenon
<1>13. \A i \in 1..n : /\ out'[i] >= nextN
                       /\ \E f \in F : out'[i] = nextN + Offset(buffer, f)
    <2>1. SUFFICES ASSUME NEW i \in 1..n
                   PROVE  /\ out'[i] >= nextN
                          /\ \E f \in F : out'[i] = nextN + Offset(buffer, f)
        OBVIOUS
    <2>2. PICK f \in F : f = o[i]
        BY <1>10, Zenon
    <2>3. out'[i] = nextN + Offset(buffer, f) /\ Offset(buffer, f) \in Nat
        BY <1>10, <1>11, <2>2, Zenon
    <2>4. out'[i] >= nextN
        BY <1>1, <2>3
    <2> QED BY <2>3, <2>4
<1>14. \A i, j \in 1..n : i < j => out'[i] < out'[j]
    <2>1. SUFFICES ASSUME NEW i \in 1..n, NEW j \in 1..n, i < j PROVE out'[i] < out'[j]
        OBVIOUS
    <2>2. PICK c \in Nat, d \in Nat : c = Offset(buffer, o[i]) /\ d = Offset(buffer, o[j])
        BY <1>10, Zenon
    <2>3. out'[i] = nextN + c /\ out'[j] = nextN + d
        BY <1>10, <1>11, <2>2, Zenon
    <2>4. c < d
        BY <1>12, <2>1, <2>2, Zenon
    <2> QED BY <1>1, <2>3, <2>4
<1>15. last' \in Int /\ last' < nextN
    <2>1. /\ last \in Int /\ out \in Seq(Int) /\ last < nextN
          /\ \A i \in 1..Len(out) : out[i] < nextN
        BY DEF ReorderInv, NumberInv
    <2>2. CASE out = <<>>
        BY <1>6, <2>1, <2>2 DEF LastReleased
    <2>3. CASE out # <<>>
        <3>1. Len(out) \in 1..Len(out) /\ out[Len(out)] \in Int
            BY <2>1, <2>3
        <3> QED BY <1>6, <2>1, <2>3, <3>1 DEF LastReleased
    <2> QED BY <2>2, <2>3
<1>16. 1..Len(out') = 1..n
    BY <1>11
<1> QED BY <1>11, <1>13, <1>14, <1>15, <1>16, Zenon DEF GivenOut

\* The caller's slots are those of the kept frames, one each.
SlotsOf(received, released, kept) ==
    /\ (busy \union {f.slot : f \in received}) \ {f.slot : f \in released}
          = {f.slot : f \in kept}
    /\ \A f, g \in kept : f.slot = g.slot => f = g

\* The slots given back are those of the released frames.
LEMMA ReleaseSlots ==
    ASSUME SlotInv, NEW received, NEW released, NEW kept,
           \A f, g \in received : f = g,
           \A f \in received : f.slot \notin busy,
           released \intersect kept = {},
           Retained(buffer) \union received = released \union kept
    PROVE  SlotsOf(received, released, kept)
<1>1. \A f, g \in Retained(buffer) \union received : f.slot = g.slot => f = g
    BY DEF SlotInv
<1>2. busy \union {f.slot : f \in received} = {f.slot : f \in Retained(buffer) \union received}
    BY DEF SlotInv
<1>3. ASSUME NEW s \in {f.slot : f \in kept} PROVE s \notin {f.slot : f \in released}
    BY <1>1
<1> QED BY <1>1, <1>2, <1>3 DEF SlotsOf

\* An operation that passes the window over a span, and the caller's part in it.
Passes(received, r, span, input) ==
    /\ Comes(received)
    /\ Passed(buffer, r, received, span)
    /\ nextN + span <= base + buffer.window
    /\ input = {f.slot : f \in received}
    /\ Operate(r, input)

\* What such an operation does to the caller's numbers and slots.
LEMMA PassesFields ==
    ASSUME ReorderInv, NEW received, NEW r, NEW span, NEW input,
           Passes(received, r, span, input)
    PROVE  /\ span \in Nat /\ nextN' = nextN + span /\ nextN \in Int /\ nextN' \in Int
           /\ buffer' = r.buffer /\ buffer'.window = buffer.window
           /\ buffer'.next_sequence = Sequence(nextN')
           /\ busy' = (busy \union {f.slot : f \in received}) \ {f.slot : f \in r.released}
           /\ open => balance' = 0
<1>1. Passed(buffer, r, received, span) /\ Operate(r, input) /\ Comes(received)
      /\ input = {f.slot : f \in received}
    BY Zenon DEF Passes
<1>2. /\ TableInv(buffer) /\ nextN \in Int /\ buffer.next_sequence = Sequence(nextN)
      /\ Arrives(buffer, received)
    BY <1>1 DEF ReorderInv, NumberInv, Comes
<1>3. PICK s \in SequenceNumbers : s = buffer.next_sequence
    BY <1>2, BufferFields DEF TableInv
<1>4. /\ span \in 0..(Modulus - 1) /\ r.buffer.window = buffer.window
      /\ r.buffer.next_sequence = Sequence(s + span)
      /\ r.missing = span - Cardinality(r.released)
      /\ r.released \in SUBSET (Retained(buffer) \union received)
    BY <1>1, <1>3, Zenon DEF Passed
<1>5. s \in Int /\ span \in Nat /\ span \in Int /\ Modulus \in Nat /\ Modulus > 0
    BY <1>3, <1>4, Spaces DEF SequenceNumbers
<1>6. /\ buffer' = r.buffer
      /\ nextN' = nextN + Moved(buffer, r.buffer)
      /\ balance' = balance + Moved(buffer, r.buffer) - Cardinality(r.released) - r.missing
      /\ busy' = (busy \union input) \ {f.slot : f \in r.released}
    BY <1>1, Zenon DEF Operate
<1>7. Moved(buffer, r.buffer) = span
    <2>1. ForwardDistance(s, Sequence(s + span)) = span
        BY <1>4, <1>5, DistanceAt, Zenon
    <2> QED BY <1>3, <1>4, <2>1, Zenon DEF Moved
<1>8. nextN' = nextN + span /\ nextN' \in Int
    BY <1>2, <1>5, <1>6, <1>7
<1>9. open => balance' = 0
    <2>1. open => balance = 0
        BY DEF ReorderInv, ReleasedInOrder
    <2>2. PICK k \in Nat : k = Cardinality(r.released)
        BY <1>2, <1>4, RetainedFinite, Zenon
    <2> QED BY <1>4, <1>5, <1>6, <1>7, <2>1, <2>2
<1>10. Sequence(s + span) = Sequence(nextN')
    <2>1. Remainder(Remainder(nextN, Modulus) + span, Modulus) = Remainder(nextN + span, Modulus)
        BY <1>2, <1>5, RemainderAdd, Zenon
    <2>2. s = Remainder(nextN, Modulus)
        BY <1>2, <1>3, AsRemainders, Zenon
    <2>3. /\ Sequence(s + span) = Remainder(s + span, Modulus)
          /\ Sequence(nextN') = Remainder(nextN', Modulus)
        BY AsRemainders, Zenon
    <2> QED BY <1>8, <2>1, <2>2, <2>3, Zenon
<1> QED BY <1>1, <1>2, <1>4, <1>5, <1>6, <1>8, <1>9, <1>10, Zenon

\* What such an operation releases and keeps.
LEMMA PassesFrames ==
    ASSUME ReorderInv, NEW received, NEW r, NEW span, NEW input,
           Passes(received, r, span, input)
    PROVE  \E A :
             /\ A = Retained(buffer) \union received /\ Numbered(A)
             /\ \A f \in A : f.n < base + buffer.window
             /\ r.released = {f \in A : Offset(buffer, f) < span}
             /\ Retained(r.buffer) = {f \in A : Offset(buffer, f) >= span}
             /\ \A f \in Retained(r.buffer) : Offset(r.buffer, f) = Offset(buffer, f) - span
<1>1. Comes(received) /\ Passed(buffer, r, received, span)
    BY Zenon DEF Passes
<1>2. PICK A : A = Retained(buffer) \union received
    BY Zenon
<1>3. Numbered(A)
    <2>1. A \in SUBSET (Retained(buffer) \union received)
        BY <1>2, Zenon
    <2> QED BY <1>1, <2>1, FramesNumbered, Zenon
<1>4. \A f \in A : f.n < base + buffer.window
    BY <1>1, <1>2, Zenon DEF Comes, ReorderInv, NumberInv
<1> QED BY <1>1, <1>2, <1>3, <1>4, Zenon DEF Passed

\* Such an operation keeps the table, the slots, the numbers and the release
\* order.
LEMMA PassedInv ==
    ASSUME ReorderInv, open, NEW received, NEW r, NEW span, NEW input,
           Passes(received, r, span, input),
           base' \in Int, base' >= base, open' = open
    PROVE  TableInv(buffer)' /\ SlotInv' /\ NumberInv' /\ ReleasedInOrder'
<1>1. /\ Comes(received) /\ Passed(buffer, r, received, span) /\ Operate(r, input)
      /\ nextN + span <= base + buffer.window
    BY Zenon DEF Passes
<1>2. /\ span \in Nat /\ nextN' = nextN + span /\ nextN \in Int /\ nextN' \in Int
      /\ buffer' = r.buffer /\ buffer'.window = buffer.window
      /\ buffer'.next_sequence = Sequence(nextN')
      /\ busy' = (busy \union {f.slot : f \in received}) \ {f.slot : f \in r.released}
      /\ balance' = 0
    BY PassesFields, Zenon
<1>3. PICK A :
         /\ A = Retained(buffer) \union received /\ Numbered(A)
         /\ \A f \in A : f.n < base + buffer.window
         /\ r.released = {f \in A : Offset(buffer, f) < span}
         /\ Retained(r.buffer) = {f \in A : Offset(buffer, f) >= span}
         /\ \A f \in Retained(r.buffer) : Offset(r.buffer, f) = Offset(buffer, f) - span
    BY PassesFrames, Zenon
<1>4. PICK w \in Nat : w = buffer.window
    BY BufferFields DEF ReorderInv, TableInv
<1>5. base \in Int /\ nextN >= First - HalfSpace
    BY DEF ReorderInv, OriginatorInv, NumberInv
<1>6. \A f \in A : Offset(buffer, f) \in Nat /\ f.n = nextN + Offset(buffer, f)
    BY <1>3, Zenon DEF Numbered
<1>7. PICK released, kept : released = r.released /\ kept = Retained(r.buffer)
    BY Zenon
<1>8. TableInv(buffer)'
    BY <1>1, <1>2, Zenon DEF Passed
<1>9. SlotInv'
    <2>1. released \intersect kept = {} /\ A = released \union kept
        <3>1. \A f \in A : Offset(buffer, f) < span <=> ~(Offset(buffer, f) >= span)
            BY <1>2, <1>6
        <3> QED BY <1>3, <1>7, <3>1, Zenon
    <2>2. SlotInv /\ (\A f, g \in received : f = g) /\ \A f \in received : f.slot \notin busy
        BY <1>1, Zenon DEF ReorderInv, Comes, Arrives
    <2>3. Retained(buffer) \union received = released \union kept
        BY <1>3, <2>1, Zenon
    <2>4. /\ (busy \union {f.slot : f \in received}) \ {f.slot : f \in released}
                = {f.slot : f \in kept}
          /\ \A f, g \in kept : f.slot = g.slot => f = g
        <3>1. released \intersect kept = {}
            BY <2>1, Zenon
        <3>2. SlotsOf(received, released, kept)
            BY <2>2, <2>3, <3>1, ReleaseSlots, Zenon
        <3> QED BY <3>2, Zenon DEF SlotsOf
    <2>5. Retained(buffer') = kept /\ busy' = {f.slot : f \in kept}
        BY <1>2, <1>7, <2>4, Zenon
    <2> QED BY <2>4, <2>5, Zenon DEF SlotInv
<1>10. GivenOut(released)
    <2>1. released \in SUBSET (Retained(buffer) \union received)
        BY <1>3, <1>7, Zenon
    <2>2. Numbered(released)
        BY <1>1, <2>1, FramesNumbered, Zenon
    <2> QED BY <1>1, <1>7, <2>2, ReleaseOut, Zenon
<1>11. \A i \in 1..Len(out') : out'[i] \in Int /\ out'[i] < nextN' /\ out'[i] > last'
    <2>1. SUFFICES ASSUME NEW i \in 1..Len(out')
                   PROVE  out'[i] \in Int /\ out'[i] < nextN' /\ out'[i] > last'
        OBVIOUS
    <2>2. PICK f \in released : out'[i] = nextN + Offset(buffer, f)
        BY <1>10, Zenon DEF GivenOut
    <2>3. f \in A /\ Offset(buffer, f) < span
        BY <1>3, <1>7, <2>2, Zenon
    <2>4. PICK d \in Nat : d = Offset(buffer, f)
        BY <1>6, <2>3, Zenon
    <2>5. last' \in Int /\ last' < nextN
        BY <1>10, Zenon DEF GivenOut
    <2> QED BY <1>2, <2>2, <2>3, <2>4, <2>5
<1>12. last' \in Int /\ last' < nextN' /\ out' \in Seq(Int)
    <2>1. last' \in Int /\ last' < nextN /\ out' \in Seq(Int)
        BY <1>10, Zenon DEF GivenOut
    <2> QED BY <1>2, <2>1
<1>13. \A f \in Retained(buffer') :
          f.n = nextN' + Offset(buffer', f) /\ f.n < base' + buffer'.window
    <2>1. SUFFICES ASSUME NEW f \in kept
                   PROVE  f.n = nextN' + Offset(buffer', f) /\ f.n < base' + buffer'.window
        BY <1>2, <1>7, Zenon
    <2>2. /\ f \in A /\ f.n < base + buffer.window
          /\ Offset(buffer', f) = Offset(buffer, f) - span
        BY <1>2, <1>3, <1>7, <2>1, Zenon
    <2>3. PICK d \in Nat : d = Offset(buffer, f)
        BY <1>6, <2>2, Zenon
    <2>4. f.n = nextN + d /\ f.n < base + w /\ Offset(buffer', f) = d - span
        BY <1>4, <1>6, <2>2, <2>3, Zenon
    <2> QED BY <1>2, <1>4, <1>5, <2>4
<1>14. nextN' >= First - HalfSpace /\ nextN' <= base' + buffer'.window
    <2>1. First \in Int /\ HalfSpace \in Int
        BY Spaces, ReorderAssumption
    <2> QED BY <1>1, <1>2, <1>4, <1>5, <2>1
<1>15. NumberInv'
    <2>1. \A i \in 1..Len(out') : out'[i] < nextN'
        BY <1>11, Zenon
    <2> QED BY <1>2, <1>12, <1>13, <1>14, <2>1, Zenon DEF NumberInv
<1>16. ReleasedInOrder'
    <2>1. \A i, j \in 1..Len(out') : i < j => out'[i] < out'[j]
        BY <1>10, Zenon DEF GivenOut
    <2> QED BY <1>2, <1>11, <2>1, Zenon DEF ReleasedInOrder
<1> QED BY <1>8, <1>9, <1>15, <1>16

-----------------------------------------------------------------------------
(* The actions.                                                             *)

\* The originator's window only moves forward, up to the end of its list.
LEMMA AcknowledgeInv ==
    ASSUME OriginatorInv, NEW n \in Numbers, NEW heard, Acknowledge(n, heard)
    PROVE  OriginatorInv' /\ base' \in Int /\ base' >= base
<1> DEFINE gone == IF heard THEN done \union {n} ELSE done
           rest == {m \in (base..(First + Total)) : m \notin gone}
           oldest == CHOOSE m \in rest : \A k \in rest : m <= k
<1>1. base' = oldest /\ done' = {m \in gone : m > oldest}
    BY DEF Acknowledge
<1>2. First \in Nat /\ Total \in Nat /\ base \in First..(First + Total)
    BY ReorderAssumption DEF OriginatorInv
<1>3. gone \subseteq Numbers
    BY DEF OriginatorInv
<1>4. First + Total \notin Numbers
    BY <1>2 DEF Numbers
<1>5. rest \subseteq Nat /\ First + Total \in rest
    BY <1>2, <1>3, <1>4
<1>6. \E m \in rest : \A k \in rest : m <= k
    BY <1>5, LeastElement, Zenon
<1>7. oldest \in rest
    BY <1>6
<1>8. oldest \in base..(First + Total)
    BY <1>7
<1> HIDE DEF oldest
<1> QED BY <1>1, <1>2, <1>3, <1>8 DEF OriginatorInv

\* What a sendable MPDU's sequence number says about its number.
LEMMA SendableOffset ==
    ASSUME ReorderInv, open, NEW n \in Numbers, Sendable(n)
    PROVE  /\ n \in Int /\ Sequence(n) \in SequenceNumbers /\ n < base + buffer.window
           /\ ~Behind(buffer, Sequence(n)) =>
                 n = nextN + ForwardDistance(buffer.next_sequence, Sequence(n))
<1>1. /\ nextN \in Int /\ buffer.next_sequence = Sequence(nextN) /\ base \in Int
      /\ buffer.window \in Nat /\ buffer.window < HalfSpace /\ nextN <= base + buffer.window
    BY BufferFields, ReorderAssumption DEF ReorderInv, TableInv, NumberInv, OriginatorInv
<1>2. n \in Int /\ n >= base /\ n < base + buffer.window /\ n - nextN < HalfSpace
    BY ReorderAssumption DEF Sendable, Numbers
<1>3. Sequence(n) \in SequenceNumbers
    BY <1>2, SequenceType
<1>4. ASSUME ~Behind(buffer, Sequence(n))
      PROVE  n = nextN + ForwardDistance(buffer.next_sequence, Sequence(n))
    <2>1. n >= nextN
        <3>1. SUFFICES ASSUME n < nextN PROVE FALSE
            BY <1>1, <1>2
        <3>2. nextN - n <= HalfSpace
            BY <1>1, <1>2, Spaces
        <3>3. ForwardDistance(buffer.next_sequence, Sequence(n)) >= HalfSpace
            BY <1>1, <1>2, <3>1, <3>2, DistanceOfNumbers
        <3> QED BY <1>4, <3>3 DEF Behind
    <2>2. n - nextN < Modulus
        BY <1>1, <1>2, Spaces
    <2>3. ForwardDistance(buffer.next_sequence, Sequence(n)) = n - nextN
        BY <1>1, <1>2, <2>1, <2>2, DistanceOfNumbers
    <2> QED BY <1>1, <1>2, <2>3
<1> QED BY <1>2, <1>3, <1>4

\* A received MPDU, by the fast path or by ingest, keeps the invariant.
LEMMA ReceiveInv ==
    ASSUME ReorderInv, NEW n \in Numbers, NEW slot \in Slots, NEW heard, Receive(n, slot, heard)
    PROVE  ReorderInv'
<1>1. PICK frame : frame = [sequence |-> Sequence(n), slot |-> slot, n |-> n]
    BY Zenon
<1>2. /\ open /\ Sendable(n) /\ slot \in Slots \ busy
      /\ Acknowledge(n, heard) /\ open' = open
    BY DEF Receive
<1>3. \/ /\ Behind(buffer, frame.sequence) \/ HasSequence(buffer, frame.sequence)
         /\ Operate(Unchanged(buffer), {})
      \/ /\ ~Behind(buffer, frame.sequence)
         /\ ~HasSequence(buffer, frame.sequence)
         /\ IF TakesImmediate(buffer, frame.sequence)
            THEN Operate(Immediate(buffer, frame), {slot})
            ELSE Operate(Ingest(buffer, frame), {slot})
    BY <1>1 DEF Receive
<1>4. /\ n \in Int /\ Sequence(n) \in SequenceNumbers /\ n < base + buffer.window
      /\ ~Behind(buffer, Sequence(n)) =>
            n = nextN + ForwardDistance(buffer.next_sequence, Sequence(n))
    BY <1>2, SendableOffset
<1>5. frame \in Frames /\ frame.sequence = Sequence(n) /\ frame.slot = slot /\ frame.n = n
    BY <1>1, <1>4 DEF Frames
<1>6. TableInv(buffer) /\ OriginatorInv /\ nextN \in Int
    BY DEF ReorderInv, NumberInv
<1>7. OriginatorInv' /\ base' \in Int /\ base' >= base
    BY <1>2, <1>6, AcknowledgeInv
<1>8. base \in Int /\ buffer.window \in Nat /\ buffer.window >= 1
    BY <1>6, BufferFields DEF OriginatorInv, TableInv
<1>9. nextN <= base + buffer.window
    BY <1>2 DEF ReorderInv, NumberInv
<1>10. CASE Operate(Unchanged(buffer), {})
    <2>1. PICK r : r = Unchanged(buffer)
        OBVIOUS
    <2>2. PICK received, span : received = {} /\ span = 0
        BY Zenon
    <2>3. Passed(buffer, r, received, span)
        BY <1>6, <2>1, <2>2, UnchangedPassed, Zenon
    <2>4. PICK input : input = {f.slot : f \in received}
        BY Zenon
    <2>5. Operate(r, input)
        <3>1. input = {}
            BY <2>2, <2>4, Zenon
        <3> QED BY <1>10, <2>1, <3>1, Zenon
    <2>6. nextN + span <= base + buffer.window
        BY <1>6, <1>9, <2>2
    <2>7. Passes(received, r, span, input)
        BY <2>2, <2>3, <2>4, <2>5, <2>6, NothingComes, Zenon DEF Passes
    <2>8. TableInv(buffer)' /\ SlotInv' /\ NumberInv' /\ ReleasedInOrder'
        BY <1>2, <1>7, <2>7, PassedInv, Zenon
    <2> QED BY <1>7, <2>8, Zenon DEF ReorderInv
<1>11. CASE /\ ~Behind(buffer, frame.sequence) /\ ~HasSequence(buffer, frame.sequence)
            /\ IF TakesImmediate(buffer, frame.sequence)
               THEN Operate(Immediate(buffer, frame), {slot})
               ELSE Operate(Ingest(buffer, frame), {slot})
    <2>1. Operate(Ingest(buffer, frame), {slot})
        BY <1>5, <1>6, <1>11, ImmediateIsIngest
    <2>2. PICK r : r = Ingest(buffer, frame)
        OBVIOUS
    <2>3. PICK received : received = {frame}
        BY Zenon
    <2>4. PICK span \in Nat :
              /\ Passed(buffer, r, received, span)
              /\ \/ span = 0 \/ span = Offset(buffer, frame) - buffer.window + 1
                 \/ \E f \in Retained(buffer) \union {frame} : Offset(buffer, f) = span - 1
        BY <1>5, <1>6, <1>11, <2>2, <2>3, IngestPassed, Zenon
    <2>5. Arrives(buffer, received)
        BY <1>5, <1>6, <1>11, <2>3, IngestIs
    <2>6. frame.n = nextN + Offset(buffer, frame) /\ Offset(buffer, frame) \in Int
        <3>1. Offset(buffer, frame) \in Int
            BY <1>5, <1>6, OffsetType DEF TableInv
        <3>2. frame.n = nextN + Offset(buffer, frame)
            BY <1>4, <1>5, <1>11, Zenon DEF Offset
        <3> QED BY <3>1, <3>2
    <2>7. Comes(received)
        <3>1. slot \notin busy
            BY <1>2
        <3> QED BY <1>4, <1>5, <2>3, <2>5, <2>6, <3>1, Zenon DEF Comes
    <2>8. PICK input : input = {f.slot : f \in received}
        BY Zenon
    <2>9. Operate(r, input)
        <3>1. input = {slot}
            BY <1>5, <2>3, <2>8
        <3> QED BY <2>1, <2>2, <3>1
    <2>10. nextN + span <= base + buffer.window
        <3>1. CASE span = 0
            BY <1>6, <1>9, <3>1
        <3>2. CASE span = Offset(buffer, frame) - buffer.window + 1
            BY <1>4, <1>5, <1>6, <1>8, <2>6, <3>2
        <3>3. ASSUME NEW f \in Retained(buffer) \union {frame}, Offset(buffer, f) = span - 1
              PROVE  nextN + span <= base + buffer.window
            <4>1. f.n = nextN + Offset(buffer, f) /\ f.n < base + buffer.window
                BY <2>3, <2>7, <3>3, Zenon DEF ReorderInv, NumberInv, Comes
            <4> QED BY <1>6, <1>8, <2>4, <3>3, <4>1
        <3> QED BY <2>4, <3>1, <3>2, <3>3
    <2>11. TableInv(buffer)' /\ SlotInv' /\ NumberInv' /\ ReleasedInOrder'
        <3>1. Passes(received, r, span, input)
            BY <2>4, <2>7, <2>8, <2>9, <2>10, Zenon DEF Passes
        <3> QED BY <1>2, <1>7, <3>1, PassedInv, Zenon
    <2> QED BY <1>7, <2>11, Zenon DEF ReorderInv
<1> QED BY <1>3, <1>10, <1>11

\* The operations nothing arrives with.
LEMMA EmptyInv ==
    ASSUME ReorderInv, open, NEW r, NEW span \in Nat, Passed(buffer, r, {}, span),
           nextN + span <= base + buffer.window, Operate(r, {}),
           base' = base, done' = done, open' = open
    PROVE  ReorderInv'
<1>1. PICK received : received = {}
    OBVIOUS
<1>2. PICK input : input = {f.slot : f \in received}
    BY Zenon
<1>3. input = {}
    BY <1>1, <1>2
<1>4. Passes(received, r, span, input)
    BY <1>1, <1>2, <1>3, NothingComes, Zenon DEF Passes
<1>5. base' \in Int /\ base' >= base /\ OriginatorInv'
    BY DEF ReorderInv, OriginatorInv, Numbers
<1>6. TableInv(buffer)' /\ SlotInv' /\ NumberInv' /\ ReleasedInOrder'
    BY <1>4, <1>5, PassedInv, Zenon
<1> QED BY <1>5, <1>6 DEF ReorderInv

\* expire_gap keeps the invariant.
LEMMA GapExpiresInv ==
    ASSUME ReorderInv, GapExpires
    PROVE  ReorderInv'
<1>1. /\ open /\ Operate(ExpireGap(buffer), {})
      /\ base' = base /\ done' = done /\ open' = open
    BY DEF GapExpires
<1>2. /\ TableInv(buffer) /\ nextN \in Int /\ base \in Int /\ buffer.window \in Nat
      /\ nextN <= base + buffer.window
    BY <1>1, BufferFields DEF ReorderInv, NumberInv, OriginatorInv, TableInv
<1>3. PICK r : r = ExpireGap(buffer)
    OBVIOUS
<1>4. PICK span \in Nat :
          /\ Passed(buffer, r, {}, span)
          /\ \/ span = 0
             \/ \E f \in Retained(buffer) :
                   Offset(buffer, f) = span \/ Offset(buffer, f) = span - 1
    BY <1>2, <1>3, ExpirePassed
<1>5. nextN + span <= base + buffer.window
    <2>1. CASE span = 0
        BY <1>2, <2>1
    <2>2. ASSUME NEW f \in Retained(buffer),
                 Offset(buffer, f) = span \/ Offset(buffer, f) = span - 1
          PROVE  nextN + span <= base + buffer.window
        <3>1. f.n = nextN + Offset(buffer, f) /\ f.n < base + buffer.window
            BY DEF ReorderInv, NumberInv
        <3> QED BY <1>2, <2>2, <3>1
    <2> QED BY <1>4, <2>1, <2>2
<1> QED BY <1>1, <1>3, <1>4, <1>5, EmptyInv

\* A BlockAckReq, which may call move_window_to, keeps the invariant.
LEMMA BlockAckReqInv ==
    ASSUME ReorderInv, BlockAckReq
    PROVE  ReorderInv'
<1>1. /\ open /\ base - nextN < HalfSpace
      /\ base' = base /\ done' = done /\ open' = open
    BY DEF BlockAckReq
<1>2. /\ TableInv(buffer) /\ nextN \in Int /\ base \in Int /\ buffer.window \in Nat
      /\ buffer.window < HalfSpace
      /\ nextN <= base + buffer.window /\ buffer.next_sequence = Sequence(nextN)
    BY <1>1, BufferFields DEF ReorderInv, NumberInv, OriginatorInv, TableInv
<1>3. CASE MovesWindow(buffer, Sequence(base))
    <2>1. PICK s \in SequenceNumbers : s = Sequence(base)
        BY <1>2, SequenceType
    <2>2. ~Behind(buffer, s) /\ Operate(MoveWindowTo(buffer, s), {})
        BY <1>3, <2>1 DEF MovesWindow, BlockAckReq
    <2>3. PICK r : r = MoveWindowTo(buffer, s)
        OBVIOUS
    <2>4. PICK span \in Nat :
              /\ Passed(buffer, r, {}, span)
              /\ \/ span = ForwardDistance(buffer.next_sequence, s)
                 \/ \E f \in Retained(buffer) : Offset(buffer, f) = span - 1
        BY <1>2, <2>2, <2>3, MovePassed
    <2>5. base >= nextN
        <3>1. SUFFICES ASSUME base < nextN PROVE FALSE
            BY <1>2
        <3>2. nextN - base <= HalfSpace
            BY <1>2, Spaces
        <3>3. ForwardDistance(buffer.next_sequence, s) >= HalfSpace
            BY <1>2, <2>1, <3>1, <3>2, DistanceOfNumbers
        <3> QED BY <2>2, <3>3 DEF Behind
    <2>6. ForwardDistance(buffer.next_sequence, s) = base - nextN
        <3>1. base - nextN < Modulus
            BY <1>1, <1>2, Spaces
        <3> QED BY <1>2, <2>1, <2>5, <3>1, DistanceOfNumbers
    <2>7. nextN + span <= base + buffer.window
        <3>1. CASE span = ForwardDistance(buffer.next_sequence, s)
            BY <1>2, <2>6, <3>1
        <3>2. ASSUME NEW f \in Retained(buffer), Offset(buffer, f) = span - 1
              PROVE  nextN + span <= base + buffer.window
            <4>1. f.n = nextN + Offset(buffer, f) /\ f.n < base + buffer.window
                BY DEF ReorderInv, NumberInv
            <4> QED BY <1>2, <3>2, <4>1
        <3> QED BY <2>4, <3>1, <3>2
    <2>8. Operate(r, {})
        BY <2>2, <2>3
    <2> QED BY <1>1, <2>4, <2>7, <2>8, EmptyInv
<1>4. CASE ~MovesWindow(buffer, Sequence(base))
    <2>1. PICK r : r = Unchanged(buffer)
        OBVIOUS
    <2>2. PICK span \in Nat : span = 0
        OBVIOUS
    <2>3. Passed(buffer, r, {}, span) /\ Operate(r, {})
        BY <1>2, <1>4, <2>1, <2>2, UnchangedPassed DEF BlockAckReq
    <2>4. nextN + span <= base + buffer.window
        BY <1>2, <2>2
    <2> QED BY <1>1, <2>3, <2>4, EmptyInv
<1> QED BY <1>3, <1>4

\* An MPDU the originator gives up keeps the invariant.
LEMMA AbandonInv ==
    ASSUME ReorderInv, NEW n \in Numbers, Abandon(n)
    PROVE  ReorderInv'
<1>1. /\ Acknowledge(n, TRUE)
      /\ buffer' = buffer /\ open' = open /\ nextN' = nextN /\ out' = out
      /\ last' = last /\ balance' = balance /\ busy' = busy
    BY Zenon DEF Abandon
<1>2. OriginatorInv' /\ base' \in Int /\ base' >= base /\ base \in Int
    <2>1. OriginatorInv /\ base \in Int
        BY DEF ReorderInv, OriginatorInv
    <2> QED BY <1>1, <2>1, AcknowledgeInv, Zenon
<1>3. buffer.window \in Nat
    BY BufferFields DEF ReorderInv, TableInv
<1>4. TableInv(buffer)' /\ SlotInv' /\ ReleasedInOrder'
    BY <1>1 DEF ReorderInv, SlotInv, ReleasedInOrder
<1>5. NumberInv'
    <2>1. open => nextN <= base' + buffer.window
        BY <1>2, <1>3 DEF ReorderInv, NumberInv
    <2>2. \A f \in Retained(buffer) :
              f.n = nextN + Offset(buffer, f) /\ f.n < base' + buffer.window
        <3>1. \A f \in Retained(buffer) : /\ f.n = nextN + Offset(buffer, f)
                                          /\ f.n < base + buffer.window /\ f.n \in Int
            <4>1. \A f \in Retained(buffer) : f \in Frames
                BY TablePlaces DEF ReorderInv
            <4>2. \A f \in Frames : f.n \in Int
                BY DEF Frames
            <4> QED BY <4>1, <4>2 DEF ReorderInv, NumberInv
        <3> QED BY <1>2, <1>3, <3>1
    <2> QED BY <1>1, <2>1, <2>2 DEF ReorderInv, NumberInv
<1> QED BY <1>2, <1>4, <1>5 DEF ReorderInv

\* A table with nothing in it satisfies the table invariant.
LEMMA EmptyTable ==
    ASSUME NEW b \in Buffers, b.occupied = {}, b.frames = [i \in Positions |-> {}]
    PROVE  TableInv(b) /\ Retained(b) = {}
BY DEF TableInv, Retained

\* new makes an empty table.
LEMMA NewTable ==
    ASSUME NEW s \in SequenceNumbers, NEW window \in 1..WindowCapacity,
           NEW b, b = NewBuffer(s, window)
    PROVE  /\ TableInv(b) /\ Retained(b) = {} /\ b.next_sequence = s
           /\ b.window = window
<1>1. 0 \in Positions
    BY Spaces DEF Positions
<1>2. [i \in Positions |-> {}] \in [Positions -> SUBSET Frames]
    OBVIOUS
<1>3. b \in Buffers
    BY <1>1, <1>2, Zenon DEF NewBuffer, Buffers
<1>4. /\ b.occupied = {} /\ b.frames = [i \in Positions |-> {}]
      /\ b.next_sequence = s /\ b.window = window
    BY DEF NewBuffer
<1> QED BY <1>3, <1>4, EmptyTable

\* stop releases everything and leaves an empty table.
LEMMA StoppedTable ==
    ASSUME NEW b \in Buffers, NEW r, r = StopBuffer(b)
    PROVE  /\ r.buffer \in Buffers
           /\ r.buffer.occupied = {} /\ r.buffer.frames = [i \in Positions |-> {}]
           /\ TableInv(r.buffer) /\ Retained(r.buffer) = {}
           /\ r.buffer.next_sequence = b.next_sequence /\ r.buffer.window = b.window
           /\ r.released = Retained(b)
<1> DEFINE x == [b EXCEPT !.occupied = {}, !.frames = [i \in Positions |-> {}]]
<1>1. r.buffer = x /\ r.released = Retained(b)
    BY Zenon DEF StopBuffer
<1>2. [i \in Positions |-> {}] \in [Positions -> SUBSET Frames] /\ {} \in SUBSET Positions
    OBVIOUS
<1>3. /\ x \in Buffers /\ x.occupied = {} /\ x.frames = [i \in Positions |-> {}]
      /\ x.next_sequence = b.next_sequence /\ x.window = b.window
    BY <1>2, ZenonT(30) DEF Buffers
<1> HIDE DEF x
<1>4. TableInv(x) /\ Retained(x) = {}
    BY <1>3, EmptyTable, Zenon
<1> QED BY <1>1, <1>3, <1>4

\* The end of an agreement keeps the invariant.
LEMMA StopInv ==
    ASSUME ReorderInv, Stop
    PROVE  ReorderInv'
<1>1. PICK r : r = StopBuffer(buffer)
    OBVIOUS
<1>2. PICK received, input : received = {} /\ input = {}
    BY Zenon
<1>3. open /\ open' = FALSE /\ Operate(r, input) /\ base' = base /\ done' = done
    BY <1>1, <1>2 DEF Stop
<1>4. TableInv(buffer) /\ buffer \in Buffers /\ nextN \in Int
    BY DEF ReorderInv, TableInv, NumberInv
<1>5. /\ TableInv(r.buffer) /\ Retained(r.buffer) = {}
      /\ r.buffer.next_sequence = buffer.next_sequence /\ r.buffer.window = buffer.window
      /\ r.released = Retained(buffer)
    BY <1>1, <1>4, StoppedTable
<1>6. Numbered(r.released)
    <2>1. r.released \in SUBSET (Retained(buffer) \union received)
        BY <1>5, Zenon
    <2> QED BY <1>2, <2>1, NothingComes, FramesNumbered, Zenon
<1>a. GivenOut(r.released)
    BY <1>3, <1>6, ReleaseOut, Zenon
<1>7. /\ out' \in Seq(Int)
      /\ \A i, j \in 1..Len(out') : i < j => out'[i] < out'[j]
      /\ \A i \in 1..Len(out') : out'[i] >= nextN
      /\ last' \in Int /\ last' < nextN
    BY <1>a, Zenon DEF GivenOut
<1>8. ReleasedInOrder'
    <2>1. \A i \in 1..Len(out') : out'[i] \in Int /\ out'[i] > last'
        BY <1>4, <1>7
    <2> QED BY <1>3, <1>7, <2>1 DEF ReleasedInOrder
<1>9. /\ buffer' = r.buffer
      /\ nextN' = nextN + Moved(buffer, r.buffer)
      /\ busy' = (busy \union input) \ {f.slot : f \in r.released}
    BY <1>3 DEF Operate
<1>10. nextN' = nextN
    <2>1. Moved(buffer, r.buffer) = 0
        BY <1>4, <1>5, BufferFields, SequenceKept DEF Moved
    <2> QED BY <1>4, <1>9, <2>1
<1>11. SlotInv'
    <2>1. busy' = {}
        BY <1>2, <1>5, <1>9 DEF ReorderInv, SlotInv
    <2> QED BY <1>5, <1>9, <2>1 DEF SlotInv
<1>12. NumberInv'
    BY <1>3, <1>5, <1>7, <1>9, <1>10 DEF ReorderInv, NumberInv
<1>13. OriginatorInv'
    BY <1>3 DEF ReorderInv, OriginatorInv, Numbers
<1>14. TableInv(buffer)'
    BY <1>5, <1>9
<1> QED BY <1>8, <1>11, <1>12, <1>13, <1>14 DEF ReorderInv

\* A window that starts over, with nothing retained.
LEMMA FreshInv ==
    ASSUME OriginatorInv', TableInv(buffer)', Retained(buffer') = {}, busy' = {},
           nextN' \in Int, nextN' >= First - HalfSpace,
           nextN' <= base' + buffer'.window, buffer'.next_sequence = Sequence(nextN'),
           out' = <<>>, last' = First - Modulus, balance' = 0
    PROVE  ReorderInv'
<1>1. SlotInv'
    BY DEF SlotInv
<1>2. ReleasedInOrder'
    BY DEF ReleasedInOrder
<1>3. last' \in Int /\ last' < nextN'
    BY Spaces, ReorderAssumption
<1>4. NumberInv'
    BY <1>3 DEF NumberInv
<1> QED BY <1>1, <1>2, <1>4 DEF ReorderInv

\* A new agreement keeps the invariant.
LEMMA StartInv ==
    ASSUME ReorderInv, NEW n \in base..(base + 1), NEW window \in 1..WindowCapacity,
           Start(n, window)
    PROVE  ReorderInv'
<1>1. /\ ~open /\ buffer' = NewBuffer(Sequence(n), window) /\ nextN' = n
      /\ out' = <<>> /\ last' = First - Modulus /\ balance' = 0
      /\ base' = base /\ done' = done /\ busy' = busy
    BY DEF Start
<1>2. OriginatorInv' /\ base \in First..(First + Total) /\ First \in Nat /\ Total \in Nat
    BY <1>1, ReorderAssumption DEF ReorderInv, OriginatorInv, Numbers
<1>3. n \in Int /\ n >= First /\ n <= base + 1
    BY <1>2
<1>4. PICK s \in SequenceNumbers : s = Sequence(n)
    BY <1>3, SequenceType
<1>5. PICK b : b = NewBuffer(s, window)
    OBVIOUS
<1>6. TableInv(b) /\ Retained(b) = {} /\ b.next_sequence = s /\ b.window = window
    BY <1>5, NewTable
<1>7. buffer' = b
    BY <1>1, <1>4, <1>5
<1>8. TableInv(buffer)' /\ Retained(buffer') = {} /\ buffer'.next_sequence = Sequence(nextN')
    BY <1>1, <1>4, <1>6, <1>7
<1>9. busy' = {}
    BY <1>1 DEF ReorderInv, SlotInv
<1>10. nextN' \in Int /\ nextN' >= First - HalfSpace /\ nextN' <= base' + buffer'.window
    BY <1>1, <1>2, <1>3, <1>6, <1>7, Spaces
<1> QED BY <1>1, <1>2, <1>8, <1>9, <1>10, FreshInv

\* The number a window waits for, from an MPDU and its distance to it.
LEMMA StepBack ==
    ASSUME NEW to \in SequenceNumbers, NEW n \in Int
    PROVE  Sequence(n - ForwardDistance(to, Sequence(n))) = to
<1>1. to \in Int /\ to \in 0..(Modulus - 1)
    BY Spaces DEF SequenceNumbers
<1>2. PICK s \in Int : s = Sequence(n)
    BY SequenceType
<1>3. PICK x \in Int : x = s - to
    BY <1>1, <1>2
<1>4. Remainder(n - Remainder(x, Modulus), Modulus) = Remainder(n - x, Modulus)
    BY Spaces, RemainderAdd, Zenon
<1>5. PICK y \in Int : y = n + to
    BY <1>1
<1>6. Remainder(y - Remainder(n, Modulus), Modulus) = Remainder(y - n, Modulus)
    BY Spaces, RemainderAdd, Zenon
<1>7. y - n = to /\ y - s = n - x
    BY <1>1, <1>2, <1>3, <1>5
<1>8. Remainder(to, Modulus) = to
    BY <1>1, Spaces, RemainderSmall
<1> QED BY <1>2, <1>3, <1>4, <1>6, <1>7, <1>8, AsRemainders

\* A resynchronized window starts at most half the space before the MPDU.
LEMMA ResynchronizedNear ==
    ASSUME NEW b \in Buffers, NEW s \in SequenceNumbers, NEW use_received_sequence,
           NEW to, to = ResynchronizedTo(b, s, use_received_sequence)
    PROVE  /\ to \in SequenceNumbers
           /\ ForwardDistance(to, s) \in Nat /\ ForwardDistance(to, s) < HalfSpace
<1>1. /\ s \in Int /\ s \in 0..(Modulus - 1) /\ b.window \in Nat /\ b.window >= 1
      /\ b.window < HalfSpace
      /\ b.starting_sequence \in SequenceNumbers /\ b.starting_sequence \in Int
    BY Spaces, BufferFields DEF SequenceNumbers
<1>2. CASE use_received_sequence
    <2>1. to = s
        BY <1>2 DEF ResynchronizedTo
    <2>2. ForwardDistance(to, s) = 0
        BY <2>1, SequenceKept
    <2> QED BY <1>1, <2>1, <2>2, Spaces
<1>3. CASE ~use_received_sequence /\ ForwardDistance(b.starting_sequence, s) >= HalfSpace
    <2>1. PICK k \in Nat : k = b.window - 1 /\ k < HalfSpace /\ k \in 0..(Modulus - 1)
        BY <1>1, Spaces
    <2>2. PICK a \in Int : a = s - k
        BY <1>1
    <2>3. to = Sequence(a)
        BY <1>3, <2>1, <2>2 DEF ResynchronizedTo
    <2>4. Remainder(s - Remainder(a, Modulus), Modulus) = Remainder(s - a, Modulus)
        BY <1>1, Spaces, RemainderAdd, Zenon
    <2>5. s - a = k
        BY <1>1, <2>2
    <2>6. Remainder(k, Modulus) = k
        BY <2>1, Spaces, RemainderSmall
    <2>7. ForwardDistance(to, s) = k
        BY <2>3, <2>4, <2>5, <2>6, AsRemainders
    <2>8. to \in SequenceNumbers
        BY <2>3, SequenceType
    <2> QED BY <2>1, <2>7, <2>8
<1>4. CASE ~use_received_sequence /\ ~(ForwardDistance(b.starting_sequence, s) >= HalfSpace)
    <2>1. to = b.starting_sequence
        BY <1>4 DEF ResynchronizedTo
    <2>2. ForwardDistance(to, s) \in Nat
        BY <1>1, <2>1, DistanceType, Zenon
    <2> QED BY <1>1, <1>4, <2>1, <2>2, Spaces
<1> QED BY <1>2, <1>3, <1>4

\* Resynchronizing on the first MPDU keeps the invariant.
LEMMA ResynchronizeInv ==
    ASSUME ReorderInv, NEW n \in Numbers, NEW use, Resynchronize(n, use)
    PROVE  ReorderInv'
<1>1. PICK s : s = Sequence(n)
    OBVIOUS
<1>2. PICK to : to = ResynchronizedTo(buffer, s, use)
    OBVIOUS
<1>3. /\ open /\ Sendable(n)
      /\ buffer' = [StopBuffer(buffer).buffer EXCEPT !.next_sequence = to]
      /\ nextN' = n - ForwardDistance(to, s)
      /\ out' = <<>> /\ last' = First - Modulus /\ balance' = 0
      /\ busy' = busy \ {f.slot : f \in Retained(buffer)}
      /\ base' = base /\ done' = done
    BY <1>1, <1>2 DEF Resynchronize
<1>4. OriginatorInv' /\ base \in First..(First + Total) /\ First \in Nat /\ Total \in Nat
    BY <1>3, ReorderAssumption DEF ReorderInv, OriginatorInv, Numbers
<1>5. buffer \in Buffers /\ buffer.window \in Nat
    BY BufferFields DEF ReorderInv, TableInv
<1>6. n \in Int /\ s \in SequenceNumbers /\ n < base + buffer.window /\ n >= base
    BY <1>1, <1>3, SendableOffset DEF Sendable
<1>7. /\ to \in SequenceNumbers
      /\ ForwardDistance(to, s) \in Nat /\ ForwardDistance(to, s) < HalfSpace
    BY <1>2, <1>5, <1>6, ResynchronizedNear
<1>8. PICK x : x = StopBuffer(buffer).buffer
    OBVIOUS
<1>9. /\ x \in Buffers /\ x.occupied = {} /\ x.frames = [i \in Positions |-> {}]
      /\ x.window = buffer.window
    BY <1>5, <1>8, StoppedTable, Zenon
<1>10. PICK y : y = [x EXCEPT !.next_sequence = to]
    BY Zenon
<1>11. /\ y \in Buffers /\ y.occupied = {} /\ y.frames = [i \in Positions |-> {}]
       /\ y.window = buffer.window /\ y.next_sequence = to
    BY <1>7, <1>9, <1>10, ZenonT(30) DEF Buffers
<1>12. buffer' = y
    BY <1>3, <1>8, <1>10
<1>13. TableInv(y) /\ Retained(y) = {}
    BY <1>11, EmptyTable, Zenon
<1>14. TableInv(buffer)' /\ Retained(buffer') = {}
    BY <1>12, <1>13
<1>15. buffer'.next_sequence = Sequence(nextN')
    BY <1>1, <1>3, <1>6, <1>7, <1>11, <1>12, StepBack
<1>16. nextN' \in Int /\ nextN' >= First - HalfSpace /\ nextN' <= base' + buffer'.window
    <2>1. PICK d \in Nat : d = ForwardDistance(to, s) /\ d < HalfSpace
        BY <1>7
    <2>2. nextN' = n - d /\ base' = base /\ buffer'.window = buffer.window
        BY <1>3, <1>11, <1>12, <2>1, Zenon
    <2>3. base >= First /\ base \in Int
        BY <1>4
    <2> QED BY <1>4, <1>5, <1>6, <2>1, <2>2, <2>3, Spaces
<1>17. busy' = {}
    BY <1>3 DEF ReorderInv, SlotInv
<1> QED BY <1>3, <1>4, <1>14, <1>15, <1>16, <1>17, FreshInv

-----------------------------------------------------------------------------
(* The theorems.                                                            *)

\* A fresh agreement satisfies the invariant.
LEMMA InitInv ==
    ASSUME Init
    PROVE  ReorderInv
<1>1. PICK window \in 1..WindowCapacity : buffer = NewBuffer(Sequence(First), window)
    BY DEF Init
<1>2. /\ base = First /\ done = {} /\ nextN = First /\ out = <<>>
      /\ last = First - Modulus /\ balance = 0 /\ busy = {}
    BY DEF Init
<1>3. First \in Int /\ First \in Nat /\ Total \in Nat
    BY ReorderAssumption
<1>4. PICK s \in SequenceNumbers : s = Sequence(First)
    BY <1>3, SequenceType
<1>5. /\ TableInv(buffer) /\ Retained(buffer) = {} /\ buffer.next_sequence = s
      /\ buffer.window = window
    BY <1>1, <1>4, NewTable
<1>6. SlotInv
    BY <1>2, <1>5 DEF SlotInv
<1>7. OriginatorInv
    BY <1>2, <1>3 DEF OriginatorInv
<1>8. ReleasedInOrder
    BY <1>2 DEF ReleasedInOrder
<1>9. last \in Int /\ last < nextN /\ nextN >= First - HalfSpace /\ nextN <= base + buffer.window
    BY <1>2, <1>3, <1>5, Spaces
<1>10. NumberInv
    BY <1>2, <1>3, <1>4, <1>5, <1>9 DEF NumberInv
<1> QED BY <1>5, <1>6, <1>7, <1>8, <1>10 DEF ReorderInv

\* A step that changes nothing keeps the invariant.
LEMMA StutterInv ==
    ASSUME ReorderInv, UNCHANGED vars
    PROVE  ReorderInv'
<1>1. /\ buffer' = buffer /\ open' = open /\ base' = base /\ done' = done /\ nextN' = nextN
      /\ out' = out /\ last' = last /\ balance' = balance /\ busy' = busy
    BY DEF vars
<1>2. TableInv(buffer)' /\ SlotInv' /\ OriginatorInv' /\ ReleasedInOrder'
    BY <1>1 DEF ReorderInv, SlotInv, OriginatorInv, ReleasedInOrder, Numbers
<1>3. NumberInv'
    BY <1>1 DEF ReorderInv, NumberInv
<1> QED BY <1>2, <1>3 DEF ReorderInv

\* Every step keeps the invariant.
LEMMA NextInv ==
    ASSUME ReorderInv, [Next]_vars
    PROVE  ReorderInv'
<1>1. ASSUME NEW n \in Numbers, NEW slot \in Slots, NEW heard \in BOOLEAN, Receive(n, slot, heard)
      PROVE  ReorderInv'
    BY <1>1, ReceiveInv
<1>2. ASSUME NEW n \in Numbers, NEW use \in BOOLEAN, Resynchronize(n, use)
      PROVE  ReorderInv'
    BY <1>2, ResynchronizeInv
<1>3. ASSUME NEW n \in Numbers, Abandon(n) PROVE ReorderInv'
    BY <1>3, AbandonInv
<1>4. CASE GapExpires
    BY <1>4, GapExpiresInv
<1>5. CASE BlockAckReq
    BY <1>5, BlockAckReqInv
<1>6. CASE Stop
    BY <1>6, StopInv
<1>7. ASSUME NEW n \in base..(base + 1), NEW window \in 1..WindowCapacity, Start(n, window)
      PROVE  ReorderInv'
    BY <1>7, StartInv
<1>8. CASE UNCHANGED vars
    BY <1>8, StutterInv
<1> QED BY <1>1, <1>2, <1>3, <1>4, <1>5, <1>6, <1>7, <1>8 DEF Next

\* ReorderInv holds in every reachable state, for any sequence-number space,
\* capacity below half of it, slot domain and list of MPDUs.
THEOREM ReorderInvariance == Spec => []ReorderInv
<1>1. Init => ReorderInv
    BY InitInv
<1>2. ReorderInv /\ [Next]_vars => ReorderInv'
    BY NextInv
<1> QED BY <1>1, <1>2, PTL DEF Spec

\* The invariant makes the table exact.
LEMMA InvTable ==
    ASSUME ReorderInv
    PROVE  TableIsExact
<1>1. TableInv(buffer) /\ SlotInv /\ buffer \in Buffers /\ buffer.head \in Positions
    <2>1. TableInv(buffer) /\ SlotInv
        BY Zenon DEF ReorderInv
    <2>2. buffer \in Buffers
        BY <2>1, Zenon DEF TableInv
    <2> QED BY <2>1, <2>2, BufferFields, Zenon
<1>2. buffer.head \notin buffer.occupied
    <2>1. buffer.frames[buffer.head] = {}
        BY <1>1, HeadVacant, Zenon
    <2>2. buffer.occupied = {i \in Positions : buffer.frames[i] # {}}
        BY <1>1, Zenon DEF TableInv
    <2> QED BY <2>1, <2>2, Zenon
<1>3. ASSUME NEW i \in Positions, NEW f \in buffer.frames[i]
      PROVE  HasSequence(buffer, f.sequence)
    <2>1. f \in Retained(buffer)
        BY <1>3 DEF Retained
    <2>2. f.sequence \in SequenceNumbers
        BY <1>1, <2>1, TablePlaces, OffsetType
    <2> QED BY <1>1, <2>1, <2>2, HasRetained
<1>4. \A i \in Positions : \A f \in buffer.frames[i] :
          i = RelativeIndex(buffer.head, ForwardDistance(buffer.next_sequence, f.sequence))
    BY <1>1 DEF TableInv, Offset
<1>5. Cardinality(busy) = Cardinality(Retained(buffer))
    <2> DEFINE R == Retained(buffer)
               h == [f \in R |-> f.slot]
    <2>1. IsFiniteSet(R)
        <3>1. Arrives(buffer, {}) /\ R \in SUBSET (Retained(buffer) \union {})
            BY DEF Arrives
        <3> QED BY <1>1, <3>1, RetainedFinite
    <2>2. h \in [R -> busy] /\ \A f, g \in R : h[f] = h[g] => f = g
        BY <1>1 DEF SlotInv
    <2>3. \A t \in busy : \E f \in R : h[f] = t
        BY <1>1 DEF SlotInv
    <2> HIDE DEF R, h
    <2>4. h \in Bijection(R, busy)
        BY <2>2, <2>3, Fun_IsBij
    <2>5. ExistsBijection(R, busy)
        BY <2>4, Fun_ExistsBij
    <2>6. Cardinality(busy) = Cardinality(R)
        BY <2>1, <2>5, FS_Bijection
    <2> QED BY <2>6 DEF R
<1>6. buffer.occupied = {i \in Positions : buffer.frames[i] # {}}
    BY <1>1 DEF TableInv
<1>7. busy = {f.slot : f \in Retained(buffer)}
    BY <1>1 DEF SlotInv
<1>8. \A i \in Positions : \A f \in buffer.frames[i] : HasSequence(buffer, f.sequence)
    BY <1>3, Zenon
<1> QED BY <1>2, <1>4, <1>5, <1>6, <1>7, <1>8, Zenon DEF TableIsExact

\* Under the invariant the fast path agrees with ingest.
LEMMA InvFastPath ==
    ASSUME ReorderInv
    PROVE  FastPathAgrees
<1>1. SUFFICES ASSUME NEW n \in Numbers, NEW slot \in Slots \ busy,
                      NEW frame, frame = [sequence |-> Sequence(n), slot |-> slot, n |-> n],
                      ~Behind(buffer, frame.sequence), ~HasSequence(buffer, frame.sequence)
               PROVE  /\ TakesImmediate(buffer, frame.sequence) =>
                             Ingest(buffer, frame) = Immediate(buffer, frame)
                      /\ Ingest(buffer, frame).buffered =>
                             RetainsOnIngest(buffer, frame.sequence)
    BY Zenon DEF FastPathAgrees
<1>2. TableInv(buffer)
    BY DEF ReorderInv
<1>3. n \in Int
    BY ReorderAssumption DEF Numbers
<1>4. Sequence(n) \in SequenceNumbers
    BY <1>3, SequenceType
<1>5. frame \in Frames
    BY <1>1, <1>3, <1>4 DEF Frames
<1>6. TakesImmediate(buffer, frame.sequence) => Ingest(buffer, frame) = Immediate(buffer, frame)
    BY <1>2, <1>5, ImmediateIsIngest
<1>7. Ingest(buffer, frame).buffered => RetainsOnIngest(buffer, frame.sequence)
    BY <1>1, <1>2, <1>5, KeptIsAnnounced
<1> QED BY <1>6, <1>7

\* The circular table is exact in every reachable state: each retained MPDU is
\* found at its relative index inside the window, the head's position is
\* vacant when finish needs it, and the caller's busy slots are those of the
\* retained MPDUs, one each (finish, ingest, expire_gap, move_window_to).
THEOREM TableExact == Spec => []TableIsExact
<1>1. ReorderInv => TableIsExact
    BY InvTable
<1> QED BY <1>1, ReorderInvariance, PTL

\* The fast path is an exact shortcut of ingest, and every MPDU that ingest
\* buffers was announced by retains_on_ingest (try_ingest_immediate).
THEOREM FastPathExact == Spec => []FastPathAgrees
<1>1. ReorderInv => FastPathAgrees
    BY InvFastPath
<1> QED BY <1>1, ReorderInvariance, PTL

\* MPDUs are released in the originator's order, never twice, and every number
\* the window passes is released or counted missing, across resends, gap
\* timeouts, BlockAckReqs, resynchronization and the wrap of the sequence space.
THEOREM ReleaseOrder == Spec => []ReleasedInOrder
<1>1. ReorderInv => ReleasedInOrder
    BY DEF ReorderInv
<1> QED BY <1>1, ReorderInvariance, PTL
=============================================================================
