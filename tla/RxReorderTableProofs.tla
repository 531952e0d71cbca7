------------------------ MODULE RxReorderTableProofs ------------------------
(***************************************************************************)
(* The reorder buffer as a table, for every sequence-number space and      *)
(* window capacity: what each operation does to the retained MPDUs, and in *)
(* which order it releases them.                                           *)
(***************************************************************************)
EXTENDS RxReorder, FiniteSetTheorems, FunctionTheorems, WellFoundedInduction, TLAPS

SequenceNumbers == 0..(Modulus - 1)

Frames == [sequence : SequenceNumbers, slot : Slots, n : Int]

Buffers ==
    [starting_sequence : SequenceNumbers, next_sequence : SequenceNumbers,
     window : 1..WindowCapacity, occupied : SUBSET Positions, head : Positions,
     frames : [Positions -> SUBSET Frames]]

\* How far a frame lies in the window.
Offset(b, f) == ForwardDistance(b.next_sequence, f.sequence)

\* A position holds at most one MPDU, which lies behind the head by its offset
\* in the window; the MPDU the window waits for is never retained.
TableInv(b) ==
    /\ b \in Buffers
    /\ b.occupied = {i \in Positions : b.frames[i] # {}}
    /\ \A i \in Positions : \A f \in b.frames[i] :
          /\ Offset(b, f) \in 1..(b.window - 1)
          /\ i = RelativeIndex(b.head, Offset(b, f))
    /\ \A i \in Positions : \A f, g \in b.frames[i] : f = g

-----------------------------------------------------------------------------
(* Arithmetic.                                                              *)

\* A nonempty set of numbers has a least one.
LEMMA LeastElement ==
    ASSUME NEW T, T \subseteq Nat, T # {}
    PROVE  \E x \in T : \A y \in T : x <= y
<1> DEFINE R == OpToRel(<, Nat)
<1>1. IsWellFoundedOn(R, Nat)
    BY NatLessThanWellFounded, Zenon
<1>2. \A y, x \in Nat : y < x => <<y, x>> \in R
    BY DEF OpToRel
<1> HIDE DEF R
<1>3. PICK x \in T : \A y \in T : ~(<<y, x>> \in R)
    BY <1>1, WFMin, Zenon
<1>4. \A y \in T : ~(y < x)
    BY <1>2, <1>3, Zenon
<1> QED BY <1>3, <1>4

\* Multiples and the remainder by operators of their own: the steps below use
\* what the lemmas say of them, not the product and the division.
Multiples(m) == {m * q : q \in Int}

Remainder(a, m) == a % m

\* Sums and differences of multiples are multiples.
LEMMA MultipleSum ==
    ASSUME NEW m \in Nat, NEW t \in Multiples(m), NEW u \in Multiples(m)
    PROVE  /\ t \in Int /\ u \in Int
           /\ t + u \in Multiples(m) /\ t - u \in Multiples(m)
<1>1. PICK p \in Int : t = m * p
    BY DEF Multiples
<1>2. PICK q \in Int : u = m * q
    BY DEF Multiples
<1>3. m * p \in Int /\ m * q \in Int
    OBVIOUS
<1>4. m * p + m * q = m * (p + q) /\ m * p - m * q = m * (p - q)
    OBVIOUS
<1>5. p + q \in Int /\ p - q \in Int
    OBVIOUS
<1>6. m * (p + q) \in Multiples(m) /\ m * (p - q) \in Multiples(m)
    BY <1>5, Zenon DEF Multiples
<1> QED BY <1>1, <1>2, <1>3, <1>4, <1>6

\* Zero, the modulus and its negative are multiples.
LEMMA MultipleUnit ==
    ASSUME NEW m \in Nat
    PROVE  0 \in Multiples(m) /\ m \in Multiples(m) /\ 0 - m \in Multiples(m)
<1>1. 0 = m * 0 /\ m = m * 1 /\ 0 - m = m * (0 - 1) /\ 0 - 1 \in Int
    OBVIOUS
<1> QED BY <1>1 DEF Multiples

\* The only multiple strictly within one modulus of zero is zero.
LEMMA MultipleSmall ==
    ASSUME NEW m \in Nat, NEW t \in Multiples(m), t < m, 0 - m < t
    PROVE  t = 0
<1>1. PICK p \in Int : t = m * p
    BY DEF Multiples
<1>2. p >= 1 => m * p >= m
    OBVIOUS
<1>3. p <= -1 => m * p <= 0 - m
    OBVIOUS
<1>4. p = 0 => m * p = 0
    OBVIOUS
<1>5. m * p \in Int
    OBVIOUS
<1> QED BY <1>1, <1>2, <1>3, <1>4, <1>5

\* A number is a multiple and its remainder.
LEMMA RemainderSplit ==
    ASSUME NEW m \in Nat, m > 0, NEW a \in Int
    PROVE  /\ Remainder(a, m) \in 0..(m - 1) /\ Remainder(a, m) \in Nat
           /\ Remainder(a, m) \in Int
           /\ \E t \in Multiples(m) : a = t + Remainder(a, m)
<1>1. a \div m \in Int /\ a = m * (a \div m) + (a % m)
    OBVIOUS
<1>2. a % m \in 0..(m - 1)
    OBVIOUS
<1>3. m * (a \div m) \in Multiples(m)
    BY <1>1 DEF Multiples
<1>4. \E t \in Multiples(m) : a = t + (a % m)
    BY <1>1, <1>3
<1>5. a % m \in Nat /\ a % m \in Int
    BY <1>2
<1> QED BY <1>2, <1>4, <1>5, Zenon DEF Remainder

\* A number splits into a multiple and a remainder in one way.
LEMMA RemainderUnique ==
    ASSUME NEW m \in Nat, m > 0, NEW t \in Multiples(m), NEW r \in 0..(m - 1),
           NEW a \in Int, a = t + r
    PROVE  Remainder(a, m) = r
<1>1. PICK u \in Multiples(m) : a = u + Remainder(a, m)
    BY RemainderSplit
<1>2. PICK s \in 0..(m - 1) : s = Remainder(a, m)
    BY RemainderSplit
<1>3. t \in Int /\ u \in Int /\ t - u \in Multiples(m)
    BY MultipleSum
<1>4. PICK v \in Multiples(m) : v = t - u
    BY <1>3
<1>5. v \in Int /\ v = s - r
    BY <1>1, <1>2, <1>3, <1>4
<1>6. v < m /\ 0 - m < v
    BY <1>2, <1>5
<1>7. v = 0
    BY <1>6, MultipleSmall
<1> QED BY <1>2, <1>5, <1>7

\* What is below the modulus is its own remainder.
LEMMA RemainderSmall ==
    ASSUME NEW m \in Nat, m > 0, NEW a \in 0..(m - 1)
    PROVE  Remainder(a, m) = a
<1>1. a = 0 + a /\ a \in Int
    OBVIOUS
<1> QED BY <1>1, MultipleUnit, RemainderUnique

\* Numbers that differ by a multiple have the same remainder.
LEMMA RemainderSame ==
    ASSUME NEW m \in Nat, m > 0, NEW a \in Int, NEW b \in Int, NEW t \in Multiples(m), b = a + t
    PROVE  Remainder(b, m) = Remainder(a, m)
<1>1. PICK u \in Multiples(m) : a = u + Remainder(a, m)
    BY RemainderSplit
<1>2. PICK r \in 0..(m - 1) : r = Remainder(a, m)
    BY RemainderSplit
<1>3. t \in Int /\ u \in Int /\ t + u \in Multiples(m)
    BY MultipleSum
<1>4. PICK v \in Multiples(m) : v = t + u
    BY <1>3
<1>5. b = v + r
    BY <1>1, <1>2, <1>3, <1>4
<1>6. Remainder(b, m) = r
    BY <1>5, RemainderUnique
<1> QED BY <1>2, <1>6

\* A remainder may be taken before or after adding and subtracting.
LEMMA RemainderAdd ==
    ASSUME NEW m \in Nat, m > 0, NEW a \in Int, NEW b \in Int
    PROVE  /\ Remainder(Remainder(a, m) + b, m) = Remainder(a + b, m)
           /\ Remainder(b - Remainder(a, m), m) = Remainder(b - a, m)
<1>1. PICK t \in Multiples(m) : a = t + Remainder(a, m)
    BY RemainderSplit
<1>2. PICK r \in 0..(m - 1) : r = Remainder(a, m)
    BY RemainderSplit
<1>3. r \in Int /\ t \in Int /\ a = t + r
    BY <1>1, <1>2, MultipleSum
<1>4. a + b = (r + b) + t /\ b - r = (b - a) + t
    BY <1>3
<1>5. r + b \in Int /\ a + b \in Int /\ b - r \in Int /\ b - a \in Int
    BY <1>3
<1>6. Remainder(a + b, m) = Remainder(r + b, m)
    BY <1>4, <1>5, RemainderSame
<1>7. Remainder(b - r, m) = Remainder(b - a, m)
    BY <1>4, <1>5, RemainderSame
<1> QED BY <1>2, <1>6, <1>7

\* Distances below the modulus from one place lead to distinct places.
LEMMA RemainderInjective ==
    ASSUME NEW m \in Nat, m > 0, NEW h \in Int, NEW a \in 0..(m - 1), NEW b \in 0..(m - 1),
           Remainder(h + a, m) = Remainder(h + b, m)
    PROVE  a = b
<1>1. PICK x \in Int, y \in Int : x = h + a /\ y = h + b
    OBVIOUS
<1>2. PICK t \in Multiples(m) : x = t + Remainder(x, m)
    BY RemainderSplit
<1>3. PICK u \in Multiples(m) : y = u + Remainder(y, m)
    BY RemainderSplit
<1>4. PICK r \in 0..(m - 1) : r = Remainder(x, m) /\ r = Remainder(y, m)
    BY <1>1, RemainderSplit
<1>5. t \in Int /\ u \in Int /\ t - u \in Multiples(m)
    BY MultipleSum
<1>6. PICK v \in Multiples(m) : v = t - u
    BY <1>5
<1>7. v \in Int /\ v = a - b
    BY <1>1, <1>2, <1>3, <1>4, <1>5, <1>6
<1>8. v = 0
    BY <1>7, MultipleSmall
<1> QED BY <1>7, <1>8

\* The sequence space is twice its half, which exceeds the capacity.
LEMMA Spaces ==
    /\ Modulus \in Nat /\ Modulus > 0 /\ Modulus >= 4 /\ HalfSpace \in Nat /\ Modulus = 2 * HalfSpace
    /\ WindowCapacity \in Nat /\ WindowCapacity > 0 /\ WindowCapacity < HalfSpace
BY ReorderAssumption DEF HalfSpace

\* Sequence numbers, forward distances and indices are remainders.
LEMMA AsRemainders ==
    /\ \A n : Sequence(n) = Remainder(n, Modulus)
    /\ \A a, b : ForwardDistance(a, b) = Remainder(b - a, Modulus)
    /\ \A h, d : RelativeIndex(h, d) = Remainder(h + d, WindowCapacity)
BY DEF Sequence, ForwardDistance, RelativeIndex, Remainder

\* Sequence numbers lie in their space.
LEMMA SequenceType ==
    ASSUME NEW n \in Int
    PROVE  Sequence(n) \in SequenceNumbers /\ Sequence(n) \in Int
BY Spaces, AsRemainders, RemainderSplit DEF SequenceNumbers

\* A forward distance is less than the sequence space.
LEMMA DistanceType ==
    ASSUME NEW a \in Int, NEW b \in Int
    PROVE  ForwardDistance(a, b) \in 0..(Modulus - 1) /\ ForwardDistance(a, b) \in Nat
<1>1. b - a \in Int
    OBVIOUS
<1> QED BY <1>1, Spaces, AsRemainders, RemainderSplit, Zenon

\* The distance to a sequence number inverts the step to it.
LEMMA SequenceAt ==
    ASSUME NEW a \in Int, NEW s \in SequenceNumbers
    PROVE  Sequence(a + ForwardDistance(a, s)) = s
<1>1. s \in Int /\ s - a \in Int /\ s \in 0..(Modulus - 1)
    BY Spaces DEF SequenceNumbers
<1>2. PICK r \in Int : r = Remainder(s - a, Modulus)
    BY <1>1, Spaces, RemainderSplit, Zenon
<1>3. Remainder(r + a, Modulus) = Remainder((s - a) + a, Modulus)
    BY <1>1, <1>2, Spaces, RemainderAdd, Zenon
<1>4. (s - a) + a = s /\ r + a = a + r
    BY <1>1, <1>2
<1>5. Remainder(s, Modulus) = s
    BY <1>1, Spaces, RemainderSmall, Zenon
<1> QED BY <1>2, <1>3, <1>4, <1>5, AsRemainders

\* The number k after another is at forward distance k.
LEMMA DistanceAt ==
    ASSUME NEW a \in Int, NEW k \in 0..(Modulus - 1)
    PROVE  ForwardDistance(a, Sequence(a + k)) = k
<1>1. a + k \in Int /\ k \in Int /\ (a + k) + (0 - a) = k /\ 0 - a \in Int
    BY Spaces
<1>2. PICK r \in Int : r = Remainder(a + k, Modulus)
    BY <1>1, Spaces, RemainderSplit, Zenon
<1>3. Remainder(r + (0 - a), Modulus) = Remainder((a + k) + (0 - a), Modulus)
    BY <1>1, <1>2, Spaces, RemainderAdd, Zenon
<1>4. r + (0 - a) = r - a
    BY <1>2
<1>5. Remainder(k, Modulus) = k
    BY Spaces, RemainderSmall, Zenon
<1> QED BY <1>1, <1>2, <1>3, <1>4, <1>5, AsRemainders

\* A window that advances by no more than a distance shortens it by as much.
LEMMA DistanceShift ==
    ASSUME NEW a \in Int, NEW s \in SequenceNumbers, NEW k \in Nat,
           k <= ForwardDistance(a, s)
    PROVE  ForwardDistance(Sequence(a + k), s) = ForwardDistance(a, s) - k
<1>1. s \in Int /\ s - a \in Int /\ a + k \in Int /\ s - (a + k) \in Int
    BY Spaces DEF SequenceNumbers
<1>2. PICK d \in 0..(Modulus - 1) : d = Remainder(s - a, Modulus)
    BY <1>1, Spaces, RemainderSplit, Zenon
<1>3. PICK t \in Multiples(Modulus) : s - a = t + d
    BY <1>1, <1>2, Spaces, RemainderSplit, Zenon
<1>4. k <= d
    BY <1>2, AsRemainders
<1>5. PICK e \in 0..(Modulus - 1) : e = d - k
    BY <1>2, <1>4, Spaces
<1>6. PICK x \in Int : x = s - (a + k)
    BY <1>1
<1>7. t \in Int
    BY Spaces, MultipleSum
<1>10. x = t + e
    BY <1>1, <1>2, <1>3, <1>5, <1>6, <1>7, Spaces
<1>8. Remainder(x, Modulus) = e
    BY <1>10, Spaces, RemainderUnique
<1>9. Remainder(s - Remainder(a + k, Modulus), Modulus) = Remainder(s - (a + k), Modulus)
    BY <1>1, Spaces, RemainderAdd, Zenon
<1> QED BY <1>2, <1>5, <1>6, <1>8, <1>9, AsRemainders

\* Sequence numbers of numbers less than half the space apart keep their
\* distance; those of older numbers lie in the backward half.
LEMMA DistanceOfNumbers ==
    ASSUME NEW a \in Int, NEW n \in Int
    PROVE  /\ n >= a /\ n - a < Modulus =>
                ForwardDistance(Sequence(a), Sequence(n)) = n - a
           /\ n < a /\ a - n <= HalfSpace =>
                ForwardDistance(Sequence(a), Sequence(n)) >= HalfSpace
<1>1. PICK r \in Int : r = Remainder(n, Modulus)
    BY Spaces, RemainderSplit, Zenon
<1>2. Remainder(r - Remainder(a, Modulus), Modulus) = Remainder(r - a, Modulus)
    BY <1>1, Spaces, RemainderAdd, Zenon
<1>3. 0 - a \in Int /\ r + (0 - a) = r - a /\ n + (0 - a) = n - a /\ n - a \in Int
    BY <1>1
<1>4. Remainder(r + (0 - a), Modulus) = Remainder(n + (0 - a), Modulus)
    BY <1>1, <1>3, Spaces, RemainderAdd, Zenon
<1>5. ForwardDistance(Sequence(a), Sequence(n)) = Remainder(n - a, Modulus)
    BY <1>1, <1>2, <1>3, <1>4, AsRemainders
<1>6. ASSUME n >= a, n - a < Modulus PROVE Remainder(n - a, Modulus) = n - a
    <2>1. n - a \in 0..(Modulus - 1)
        BY <1>6, Spaces
    <2> QED BY <2>1, Spaces, RemainderSmall, Zenon
<1>7. ASSUME n < a, a - n <= HalfSpace PROVE Remainder(n - a, Modulus) >= HalfSpace
    <2>1. PICK x \in 0..(Modulus - 1) : x = (n - a) + Modulus /\ x >= HalfSpace
        BY <1>7, Spaces
    <2>2. PICK t \in Multiples(Modulus) : t = 0 - Modulus
        BY Spaces, MultipleUnit
    <2>3. PICK y \in Int : y = n - a
        BY <1>3
    <2>4. y = t + x
        BY <2>1, <2>2, <2>3, Spaces
    <2>5. Remainder(y, Modulus) = x
        BY <2>4, Spaces, RemainderUnique
    <2> QED BY <2>1, <2>3, <2>5
<1> QED BY <1>5, <1>6, <1>7

\* relative_index names a position of the table.
LEMMA IndexType ==
    ASSUME NEW h \in Int, NEW a \in Int
    PROVE  RelativeIndex(h, a) \in Positions
<1>1. PICK x \in Int : x = h + a
    OBVIOUS
<1>2. Remainder(x, WindowCapacity) \in 0..(WindowCapacity - 1)
    BY Spaces, RemainderSplit
<1> QED BY <1>1, <1>2, AsRemainders DEF Positions

\* The head moves with the window, so that a position keeps its MPDU.
LEMMA IndexShift ==
    ASSUME NEW h \in Int, NEW a \in Int, NEW b \in Int
    PROVE  RelativeIndex(RelativeIndex(h, a), b) = RelativeIndex(h, a + b)
<1>1. h + a \in Int /\ (h + a) + b = h + (a + b)
    OBVIOUS
<1>2. Remainder(h + a, WindowCapacity) \in 0..(WindowCapacity - 1)
    BY <1>1, Spaces, RemainderSplit, Zenon
<1>3. Remainder(Remainder(h + a, WindowCapacity) + b, WindowCapacity)
        = Remainder((h + a) + b, WindowCapacity)
    BY <1>1, Spaces, RemainderAdd, Zenon
<1> QED BY <1>1, <1>2, <1>3, AsRemainders DEF Positions

\* Distinct offsets below the capacity have distinct positions.
LEMMA IndexDistinct ==
    ASSUME NEW h \in Positions, NEW a \in Positions, NEW b \in Positions,
           RelativeIndex(h, a) = RelativeIndex(h, b)
    PROVE  a = b
BY Spaces, AsRemainders, RemainderInjective DEF Positions

\* The head lies at offset zero.
LEMMA IndexOfHead ==
    ASSUME NEW h \in Positions
    PROVE  RelativeIndex(h, 0) = h
<1>1. h + 0 = h
    BY Spaces DEF Positions
<1> QED BY <1>1, Spaces, AsRemainders, RemainderSmall DEF Positions

-----------------------------------------------------------------------------
(* The table.                                                               *)

\* The fields of a buffer, with the bounds of its window.
LEMMA BufferFields ==
    ASSUME NEW b \in Buffers
    PROVE  /\ b.starting_sequence \in SequenceNumbers /\ b.next_sequence \in SequenceNumbers
           /\ b.window \in 1..WindowCapacity /\ b.occupied \in SUBSET Positions
           /\ b.head \in Positions /\ b.frames \in [Positions -> SUBSET Frames]
           /\ b.next_sequence \in Int /\ b.head \in Int /\ b.window \in Nat
           /\ b.window >= 1 /\ b.window < HalfSpace /\ b.window < Modulus
<1>1. /\ b.starting_sequence \in SequenceNumbers /\ b.next_sequence \in SequenceNumbers
      /\ b.window \in 1..WindowCapacity /\ b.occupied \in SUBSET Positions
      /\ b.head \in Positions /\ b.frames \in [Positions -> SUBSET Frames]
    BY DEF Buffers
<1> QED BY <1>1, Spaces DEF SequenceNumbers, Positions

\* The offset of a frame decides its sequence number, and the other way round.
LEMMA OffsetType ==
    ASSUME NEW b \in Buffers, NEW f \in Frames
    PROVE  /\ f.sequence \in SequenceNumbers /\ f.sequence \in Int
           /\ Offset(b, f) \in 0..(Modulus - 1) /\ Offset(b, f) \in Nat
<1>1. f.sequence \in SequenceNumbers /\ f.sequence \in Int
    BY Spaces DEF Frames, SequenceNumbers
<1> QED BY <1>1, BufferFields, DistanceType, Zenon DEF Offset

\* An MPDU's sequence number and its offset say the same.
LEMMA OffsetDecides ==
    ASSUME NEW b \in Buffers, NEW f \in Frames, NEW d \in 0..(Modulus - 1)
    PROVE  f.sequence = Sequence(b.next_sequence + d) <=> Offset(b, f) = d
<1>1. f.sequence \in SequenceNumbers /\ b.next_sequence \in Int
    BY OffsetType, BufferFields
<1>2. ASSUME f.sequence = Sequence(b.next_sequence + d) PROVE Offset(b, f) = d
    BY <1>1, <1>2, DistanceAt, Zenon DEF Offset
<1>3. ASSUME Offset(b, f) = d PROVE f.sequence = Sequence(b.next_sequence + d)
    BY <1>1, <1>3, SequenceAt DEF Offset
<1> QED BY <1>2, <1>3

\* A retained MPDU lies where its offset says, and only there.
LEMMA TablePlaces ==
    ASSUME NEW b, TableInv(b), NEW f \in Retained(b)
    PROVE  /\ f \in Frames
           /\ Offset(b, f) \in 1..(b.window - 1)
           /\ RelativeIndex(b.head, Offset(b, f)) \in Positions
           /\ f \in b.frames[RelativeIndex(b.head, Offset(b, f))]
           /\ \A i \in Positions : f \in b.frames[i] => i = RelativeIndex(b.head, Offset(b, f))
<1>1. PICK i \in Positions : f \in b.frames[i]
    BY DEF Retained
<1>2. b.frames \in [Positions -> SUBSET Frames]
    BY BufferFields DEF TableInv
<1>3. Offset(b, f) \in 1..(b.window - 1) /\ i = RelativeIndex(b.head, Offset(b, f))
    BY <1>1 DEF TableInv
<1>4. \A j \in Positions : f \in b.frames[j] => j = RelativeIndex(b.head, Offset(b, f))
    BY DEF TableInv
<1> QED BY <1>1, <1>2, <1>3, <1>4

\* Two retained MPDUs are told apart by their offset.
LEMMA TableDistinct ==
    ASSUME NEW b, TableInv(b), NEW f \in Retained(b), NEW g \in Retained(b),
           Offset(b, f) = Offset(b, g)
    PROVE  f = g
<1>1. f \in b.frames[RelativeIndex(b.head, Offset(b, f))]
      /\ RelativeIndex(b.head, Offset(b, f)) \in Positions
    BY TablePlaces
<1>2. g \in b.frames[RelativeIndex(b.head, Offset(b, f))]
    BY TablePlaces
<1> QED BY <1>1, <1>2 DEF TableInv

\* The head's position is vacant.
LEMMA HeadVacant ==
    ASSUME NEW b, TableInv(b)
    PROVE  b.frames[b.head] = {}
<1>1. SUFFICES ASSUME NEW f \in b.frames[b.head] PROVE FALSE
    OBVIOUS
<1>2. b \in Buffers /\ b.head \in Positions /\ b.window \in 1..WindowCapacity
    BY BufferFields DEF TableInv
<1>3. Offset(b, f) \in 1..(b.window - 1) /\ b.head = RelativeIndex(b.head, Offset(b, f))
    BY <1>1, <1>2 DEF TableInv
<1>4. RelativeIndex(b.head, 0) = b.head
    BY <1>2, IndexOfHead
<1>5. Offset(b, f) \in Positions /\ 0 \in Positions
    BY <1>2, <1>3, Spaces DEF Positions
<1>6. Offset(b, f) = 0
    BY <1>2, <1>3, <1>4, <1>5, IndexDistinct
<1> QED BY <1>3, <1>6

\* has_sequence finds exactly the retained MPDUs.
LEMMA HasRetained ==
    ASSUME NEW b, TableInv(b), NEW s \in SequenceNumbers
    PROVE  HasSequence(b, s) <=> \E f \in Retained(b) : f.sequence = s
<1>1. b \in Buffers /\ b.window \in Nat /\ b.head \in Int /\ b.next_sequence \in Int
    BY BufferFields DEF TableInv
<1>2. s \in Int
    BY Spaces DEF SequenceNumbers
<1>3. ASSUME HasSequence(b, s) PROVE \E f \in Retained(b) : f.sequence = s
    <2>1. PICK d \in Nat : d = ForwardDistance(b.next_sequence, s)
        BY <1>1, <1>2, DistanceType, Zenon
    <2>2. RelativeIndex(b.head, ForwardDistance(b.next_sequence, s)) \in Positions
        BY <1>1, <2>1, IndexType
    <2> QED BY <1>3, <2>2 DEF HasSequence, Retained
<1>4. ASSUME NEW f \in Retained(b), f.sequence = s PROVE HasSequence(b, s)
    <2>1. /\ ForwardDistance(b.next_sequence, s) \in 1..(b.window - 1)
          /\ RelativeIndex(b.head, ForwardDistance(b.next_sequence, s)) \in Positions
          /\ f \in b.frames[RelativeIndex(b.head, ForwardDistance(b.next_sequence, s))]
        BY <1>4, TablePlaces DEF Offset
    <2>2. ForwardDistance(b.next_sequence, s) < b.window
        BY <1>1, <2>1
    <2>3. RelativeIndex(b.head, ForwardDistance(b.next_sequence, s)) \in b.occupied
        BY <2>1 DEF TableInv
    <2> QED BY <1>4, <2>1, <2>2, <2>3 DEF HasSequence
<1> QED BY <1>3, <1>4

\* The same by offset.
LEMMA HasOffset ==
    ASSUME NEW b, TableInv(b), NEW d \in 0..(Modulus - 1)
    PROVE  HasSequence(b, Sequence(b.next_sequence + d)) <=>
               \E f \in Retained(b) : Offset(b, f) = d
<1>1. b \in Buffers /\ b.next_sequence + d \in Int
    BY BufferFields, Spaces DEF TableInv
<1>2. Sequence(b.next_sequence + d) \in SequenceNumbers
    BY <1>1, SequenceType
<1>3. \A f \in Retained(b) : f \in Frames
    BY TablePlaces
<1> QED BY <1>1, <1>2, <1>3, HasRetained, OffsetDecides

\* How far a run of present MPDUs reaches, for any set of offsets.
LEMMA LongestRun ==
    ASSUME NEW w \in Nat, NEW P
    PROVE  \E k \in 0..w : /\ \A o \in 0..(k - 1) : o \in P
                           /\ k < w => k \notin P
<1> DEFINE T == {k \in 0..w : k = w \/ k \notin P}
<1>1. T \subseteq Nat /\ w \in T
    OBVIOUS
<1>2. PICK k \in T : \A j \in T : k <= j
    BY <1>1, LeastElement, Zenon
<1>3. \A o \in 0..(k - 1) : o \in P
    BY <1>2
<1> QED BY <1>2, <1>3

\* contiguous_from at the window start after an advance.
Run(b, advance, received) ==
    ContiguousFrom(b, Sequence(b.next_sequence + advance), received)

\* The MPDUs that follow each other from an advance on are c.
IsRun(b, advance, received, c) ==
    /\ c \in 0..b.window
    /\ \A o \in 0..(c - 1) :
          \E f \in Retained(b) \union received : Offset(b, f) = advance + o
    /\ c < b.window =>
          \A f \in Retained(b) \union received : Offset(b, f) # advance + c

\* contiguous_from counts the MPDUs that follow each other from start, the
\* received one among them.
LEMMA Contiguous ==
    ASSUME NEW b, TableInv(b), NEW received \in SUBSET Frames, NEW advance \in Nat,
           advance + b.window <= Modulus
    PROVE  IsRun(b, advance, received, Run(b, advance, received))
<1> DEFINE c == Run(b, advance, received)
           start == Sequence(b.next_sequence + advance)
           present(o) == \/ \E f \in received : f.sequence = Sequence(start + o)
                         \/ HasSequence(b, Sequence(start + o))
           P == {o \in 0..b.window : present(o)}
<1>1. b \in Buffers /\ b.next_sequence \in Int /\ b.window \in Nat /\ b.window >= 1
    BY BufferFields DEF TableInv
<1>2. ASSUME NEW o \in 0..(b.window - 1)
      PROVE  present(o) <=> \E f \in Retained(b) \union received : Offset(b, f) = advance + o
    <2>1. PICK d \in 0..(Modulus - 1) : d = advance + o
        BY <1>1, Spaces
    <2>2. Sequence(start + o) = Sequence(b.next_sequence + d)
        <3>1. PICK x \in Int : x = b.next_sequence + advance
            BY <1>1
        <3>2. Remainder(Remainder(x, Modulus) + o, Modulus) = Remainder(x + o, Modulus)
            <4>1. o \in Int
                BY <1>1
            <4> QED BY <4>1, Spaces, RemainderAdd, Zenon
        <3>3. x + o = b.next_sequence + d
            BY <1>1, <2>1, <3>1
        <3> QED BY <3>1, <3>2, <3>3, AsRemainders
    <2>3. HasSequence(b, Sequence(b.next_sequence + d)) <=>
              \E f \in Retained(b) : Offset(b, f) = d
        BY HasOffset
    <2>4. \A f \in received : f.sequence = Sequence(b.next_sequence + d) <=> Offset(b, f) = d
        BY <1>1, OffsetDecides
    <2> QED BY <2>1, <2>2, <2>3, <2>4
<1>3. c = CHOOSE k \in 0..b.window : /\ \A o \in 0..(k - 1) : present(o)
                                     /\ k < b.window => ~present(k)
    BY DEF ContiguousFrom, Run
<1> HIDE DEF present
<1> HIDE DEF c
<1>4. \E k \in 0..b.window : /\ \A o \in 0..(k - 1) : o \in P
                             /\ k < b.window => k \notin P
    BY <1>1, LongestRun, Zenon
<1>5. \E k \in 0..b.window : /\ \A o \in 0..(k - 1) : present(o)
                             /\ k < b.window => ~present(k)
    BY <1>1, <1>4
<1>6. /\ c \in 0..b.window
      /\ \A o \in 0..(c - 1) : present(o)
      /\ c < b.window => ~present(c)
    BY <1>3, <1>5
<1>7. /\ \A o \in 0..(c - 1) : o \in 0..(b.window - 1)
      /\ c < b.window => c \in 0..(b.window - 1)
    BY <1>1, <1>6
<1>8. IsRun(b, advance, received, c)
    BY <1>2, <1>6, <1>7 DEF IsRun
<1> QED BY <1>8 DEF c

-----------------------------------------------------------------------------
(* finish.                                                                  *)

\* What finish computes, by the names of its local definitions.
Leaving(b, span, i) == {f \in b.frames[i] : Offset(b, f) < span}

Passing(b, span, received) == \E f \in received : Offset(b, f) < span

Places(b, span, received) ==
    {Place(b, span, f) : f \in IF Passing(b, span, received) THEN {} ELSE received}

\* What finish computes from lies in the table and the sequence space.
LEMMA PlacesType ==
    ASSUME NEW b \in Buffers, NEW span \in Nat, NEW received \in SUBSET Frames
    PROVE  /\ Sequence(b.next_sequence + span) \in SequenceNumbers
           /\ RelativeIndex(b.head, span) \in Positions
           /\ Places(b, span, received) \subseteq Positions
<1>1. b.next_sequence \in Int /\ b.head \in Int /\ b.next_sequence + span \in Int
    BY BufferFields
<1>2. Sequence(b.next_sequence + span) \in SequenceNumbers
    BY <1>1, SequenceType
<1>3. RelativeIndex(b.head, span) \in Positions
    BY <1>1, IndexType
<1>4. SUFFICES ASSUME NEW f \in received PROVE Place(b, span, f) \in Positions
    BY <1>2, <1>3 DEF Places
<1>5. RelativeIndex(b.head, span) \in Int
    BY <1>3, Spaces DEF Positions
<1>6. f.sequence \in Int
    BY OffsetType
<1>7. Sequence(b.next_sequence + span) \in Int
    BY <1>1, SequenceType
<1>8. PICK d \in Nat : d = ForwardDistance(Sequence(b.next_sequence + span), f.sequence)
    BY <1>6, <1>7, DistanceType, Zenon
<1> QED BY <1>5, <1>8, IndexType DEF Place

\* What finish returns.
IsFinish(b, advance, span, received, r) ==
    /\ r.buffer \in Buffers
    /\ r.buffer.starting_sequence = b.starting_sequence
    /\ r.buffer.window = b.window
    /\ r.buffer.next_sequence = Sequence(b.next_sequence + span)
    /\ r.buffer.head = RelativeIndex(b.head, span)
    /\ r.buffer.occupied = (b.occupied \ {i \in Positions : Leaving(b, span, i) # {}})
                             \union Places(b, span, received)
    /\ r.buffer.frames = [i \in Positions |->
           IF i \in Places(b, span, received) THEN received
           ELSE b.frames[i] \ Leaving(b, span, i)]
    /\ r.released = UNION {IF Passing(b, span, received) /\ i = b.head THEN received
                           ELSE Leaving(b, span, i) : i \in Positions}
    /\ r.missing = Missing(b, advance)
    /\ r.buffered = (received # {} /\ ~Passing(b, span, received))
    /\ r = [buffer |-> r.buffer, released |-> r.released, missing |-> r.missing,
            buffered |-> r.buffered]

\* What finish does to each field of the buffer.
LEMMA FinishFields ==
    ASSUME NEW b \in Buffers, NEW advance \in Nat, NEW contiguous \in Nat,
           NEW received \in SUBSET Frames,
           NEW r, r = Finish(b, advance, contiguous, received),
           NEW span, span = advance + contiguous
    PROVE  IsFinish(b, advance, span, received, r)
<1> DEFINE leaving == [i \in Positions |-> Leaving(b, span, i)]
           places == Places(b, span, received)
           passes == Passing(b, span, received)
           sequence == Sequence(b.next_sequence + span)
           head == RelativeIndex(b.head, span)
           frames == [i \in Positions |->
                        IF i \in places THEN received ELSE b.frames[i] \ leaving[i]]
           occupied == (b.occupied \ {i \in Positions : leaving[i] # {}}) \union places
           released == UNION {IF passes /\ i = b.head THEN received ELSE leaving[i] :
                                  i \in Positions}
           buffered == received # {} /\ ~passes
           nb == [b EXCEPT !.next_sequence = sequence, !.head = head,
                           !.occupied = occupied, !.frames = frames]
<1>1. r = [buffer |-> nb, released |-> released, missing |-> Missing(b, advance),
           buffered |-> buffered]
    BY ZenonT(60) DEF Finish, Leaving, Places, Passing, Offset
<1>2. \A i \in Positions : leaving[i] = Leaving(b, span, i)
    OBVIOUS
<1> HIDE DEF leaving, places, passes
<1>3. occupied = (b.occupied \ {i \in Positions : Leaving(b, span, i) # {}}) \union places
    BY <1>2
<1>4. frames = [i \in Positions |-> IF i \in places THEN received
                                    ELSE b.frames[i] \ Leaving(b, span, i)]
    BY <1>2
<1>5. released
      = UNION {IF passes /\ i = b.head THEN received ELSE Leaving(b, span, i) : i \in Positions}
    BY <1>2
<1>6. sequence \in SequenceNumbers /\ head \in Positions
    BY PlacesType
<1>7. occupied \in SUBSET Positions
    BY PlacesType, BufferFields DEF places
<1>8. frames \in [Positions -> SUBSET Frames]
    <2>1. \A i \in Positions : (IF i \in places THEN received ELSE b.frames[i] \ leaving[i])
                                  \in SUBSET Frames
        BY BufferFields
    <2> QED BY <2>1, Zenon
<1> HIDE DEF sequence, head, occupied, frames, released, buffered
<1>9. /\ nb \in Buffers /\ nb.starting_sequence = b.starting_sequence
      /\ nb.window = b.window /\ nb.next_sequence = sequence
      /\ nb.head = head /\ nb.occupied = occupied /\ nb.frames = frames
    <2>1. PICK s \in SequenceNumbers, h \in Positions, o \in SUBSET Positions,
               t \in [Positions -> SUBSET Frames] :
             s = sequence /\ h = head /\ o = occupied /\ t = frames
        BY <1>6, <1>7, <1>8
    <2>2. PICK x : x = nb
        OBVIOUS
    <2>3. x = [b EXCEPT !.next_sequence = s, !.head = h, !.occupied = o, !.frames = t]
        BY <2>1, <2>2, Zenon
    <2>4. /\ x \in Buffers /\ x.starting_sequence = b.starting_sequence
          /\ x.window = b.window /\ x.next_sequence = s
          /\ x.head = h /\ x.occupied = o /\ x.frames = t
        BY <2>3, ZenonT(30) DEF Buffers
    <2> HIDE DEF nb
    <2> QED BY <2>1, <2>2, <2>4, Zenon
<1> HIDE DEF nb
<1>10. /\ r.buffer = nb /\ r.missing = Missing(b, advance) /\ r.released = released
       /\ r.buffered = buffered
    BY <1>1
<1>11. r = [buffer |-> r.buffer, released |-> r.released, missing |-> r.missing,
            buffered |-> r.buffered]
    BY <1>1, <1>10, Zenon
<1> QED BY <1>3, <1>4, <1>5, <1>9, <1>10, <1>11, Zenon
        DEF IsFinish, places, passes, sequence, head, buffered

\* finish keeps the MPDUs at or past the span, each at its position, and
\* releases the others.
LEMMA FinishTable ==
    ASSUME NEW b, TableInv(b), NEW advance \in Nat, NEW contiguous \in Nat,
           NEW received \in SUBSET Frames, \A f, g \in received : f = g,
           NEW r, r = Finish(b, advance, contiguous, received),
           NEW span, span = advance + contiguous,
           \A f \in received : \A g \in Retained(b) : Offset(b, g) # Offset(b, f),
           \A f \in Retained(b) \union received : Offset(b, f) # span,
           \A f \in received : Offset(b, f) < span + b.window
    PROVE  /\ TableInv(r.buffer)
           /\ r.released = {f \in Retained(b) \union received : Offset(b, f) < span}
           /\ Retained(r.buffer) = {f \in Retained(b) \union received : Offset(b, f) >= span}
           /\ \A f \in Retained(r.buffer) : Offset(r.buffer, f) = Offset(b, f) - span
           /\ r.buffer.window = b.window
           /\ r.buffer.next_sequence = Sequence(b.next_sequence + span)
           /\ r.missing = Missing(b, advance)
<1> DEFINE A == Retained(b) \union received
           nb == r.buffer
           at(f) == RelativeIndex(b.head, Offset(b, f))
<1>1. /\ b \in Buffers /\ span \in Nat /\ span \in Int
      /\ b.next_sequence \in Int /\ b.head \in Int /\ b.head \in Positions
      /\ b.window \in Nat /\ b.window \in 1..WindowCapacity
    BY BufferFields DEF TableInv
<1>2. /\ nb \in Buffers /\ nb.window = b.window
      /\ nb.next_sequence = Sequence(b.next_sequence + span)
      /\ nb.head = RelativeIndex(b.head, span)
      /\ nb.occupied = (b.occupied \ {i \in Positions : Leaving(b, span, i) # {}})
                          \union Places(b, span, received)
      /\ nb.frames = [i \in Positions |->
             IF i \in Places(b, span, received) THEN received
             ELSE b.frames[i] \ Leaving(b, span, i)]
      /\ r.released = UNION {IF Passing(b, span, received) /\ i = b.head THEN received
                             ELSE Leaving(b, span, i) : i \in Positions}
      /\ r.missing = Missing(b, advance)
    <2>1. IsFinish(b, advance, span, received, r)
        BY <1>1, FinishFields, Zenon
    <2> QED BY <2>1 DEF IsFinish
<1>3. \A f \in A : f \in Frames /\ Offset(b, f) \in Nat
    BY <1>1, TablePlaces, OffsetType
<1>4. \A f \in A : f.sequence \in SequenceNumbers
    BY <1>3, Zenon DEF Frames
<1>5. \A f \in A : Offset(b, f) >= span => Offset(nb, f) = Offset(b, f) - span
    BY <1>1, <1>2, <1>3, <1>4, DistanceShift DEF Offset
<1>6. \A f \in A : Offset(b, f) < span + b.window
    BY <1>1, TablePlaces
<1>7. \A f \in A : Offset(b, f) >= span =>
          Offset(nb, f) \in 1..(b.window - 1) /\ Offset(nb, f) \in Positions
    BY <1>1, <1>3, <1>5, <1>6, Spaces DEF Positions
<1>8. ASSUME NEW f \in A, Offset(b, f) >= span
      PROVE  RelativeIndex(nb.head, Offset(nb, f)) = at(f)
    <2>1. PICK d \in Int : d = Offset(nb, f)
        BY <1>3, <1>5, <1>8
    <2>2. span + d = Offset(b, f)
        BY <1>1, <1>3, <1>5, <1>8, <2>1
    <2>3. RelativeIndex(RelativeIndex(b.head, span), d) = RelativeIndex(b.head, span + d)
        BY <1>1, IndexShift, Zenon
    <2> QED BY <1>2, <2>1, <2>2, <2>3
<1>9. ASSUME NEW f \in received, Offset(b, f) >= span PROVE Place(b, span, f) = at(f)
    BY <1>2, <1>8, <1>9 DEF Place, Offset
<1>10. \A f \in A : at(f) \in Positions
    BY <1>1, <1>3, IndexType
<1>11. \A f, g \in A : Offset(b, f) = Offset(b, g) => f = g
    BY TableDistinct
<1>12. ASSUME NEW f \in A, NEW g \in A, Offset(b, f) >= span, Offset(b, g) >= span,
              at(f) = at(g)
       PROVE  f = g
    <2>1. Offset(nb, f) \in Positions /\ Offset(nb, g) \in Positions
        BY <1>7, <1>12
    <2>2. nb.head \in Positions
        BY <1>2, BufferFields
    <2>3. RelativeIndex(nb.head, Offset(nb, f)) = RelativeIndex(nb.head, Offset(nb, g))
        BY <1>8, <1>12
    <2>4. Offset(nb, f) = Offset(nb, g)
        BY <2>1, <2>2, <2>3, IndexDistinct
    <2>5. Offset(b, f) = Offset(b, g)
        BY <1>1, <1>3, <1>5, <1>12, <2>4
    <2> QED BY <1>11, <2>5
<1> HIDE DEF at, nb
<1>13. ASSUME NEW i \in Positions, NEW f \in nb.frames[i]
       PROVE  f \in A /\ Offset(b, f) >= span /\ i = at(f)
    <2>1. CASE i \in Places(b, span, received)
        <3>1. f \in received /\ ~Passing(b, span, received)
            BY <1>2, <1>13, <2>1 DEF Places
        <3>2. PICK g \in received : i = Place(b, span, g)
            BY <2>1, <3>1 DEF Places
        <3>3. g = f
            BY <3>1
        <3>4. Offset(b, f) >= span
            BY <1>1, <1>3, <3>1 DEF Passing
        <3> QED BY <1>9, <3>1, <3>2, <3>3, <3>4
    <2>2. CASE i \notin Places(b, span, received)
        <3>1. f \in b.frames[i] /\ f \notin Leaving(b, span, i)
            BY <1>2, <1>13, <2>2
        <3>2. f \in Retained(b)
            BY <3>1 DEF Retained
        <3>3. Offset(b, f) >= span
            BY <1>1, <1>3, <3>1, <3>2 DEF Leaving
        <3> QED BY <3>1, <3>2, <3>3, TablePlaces DEF at
    <2> QED BY <2>1, <2>2
<1>14. ASSUME NEW f \in A, Offset(b, f) >= span PROVE f \in nb.frames[at(f)]
    <2>1. CASE f \in received
        <3>1. ~Passing(b, span, received)
            BY <1>1, <1>3, <1>14, <2>1 DEF Passing
        <3>2. at(f) \in Places(b, span, received)
            BY <1>9, <1>14, <2>1, <3>1 DEF Places
        <3> QED BY <1>2, <1>10, <2>1, <3>2
    <2>2. CASE f \in Retained(b) /\ f \notin received
        <3>1. f \in b.frames[at(f)] /\ f \notin Leaving(b, span, at(f))
            BY <1>1, <1>3, <1>14, <2>2, TablePlaces DEF Leaving, at
        <3>2. at(f) \notin Places(b, span, received)
            <4>1. SUFFICES ASSUME NEW g \in received, ~Passing(b, span, received),
                                  at(f) = Place(b, span, g)
                           PROVE  FALSE
                BY DEF Places
            <4>2. Offset(b, g) >= span
                BY <1>1, <1>3, <4>1 DEF Passing
            <4>3. at(g) = at(f)
                BY <1>9, <4>1, <4>2
            <4> QED BY <1>12, <1>14, <2>2, <4>2, <4>3
        <3> QED BY <1>2, <1>10, <3>1, <3>2
    <2> QED BY <2>1, <2>2
<1>15. Retained(nb) = {f \in A : Offset(b, f) >= span}
    BY <1>10, <1>13, <1>14 DEF Retained
<1>16. nb.occupied = {i \in Positions : nb.frames[i] # {}}
    <2>1. nb.occupied \subseteq Positions
        BY <1>2, BufferFields
    <2>2. ASSUME NEW i \in Places(b, span, received), i \in Positions
          PROVE  nb.frames[i] # {} /\ i \in nb.occupied
        <3>1. received # {}
            BY <2>2 DEF Places
        <3> QED BY <1>2, <2>2, <3>1
    <2>3. ASSUME NEW i \in Positions, i \notin Places(b, span, received)
          PROVE  nb.frames[i] # {} <=> i \in nb.occupied
        <3>1. i \in nb.occupied <=> b.frames[i] # {} /\ Leaving(b, span, i) = {}
            BY <1>2, <2>3 DEF TableInv
        <3>2. nb.frames[i] = b.frames[i] \ Leaving(b, span, i)
            BY <1>2, <2>3
        <3>3. Leaving(b, span, i) \subseteq b.frames[i]
            BY DEF Leaving
        <3>4. \A f, g \in b.frames[i] : f = g
            BY DEF TableInv
        <3> QED BY <3>1, <3>2, <3>3, <3>4
    <2> QED BY <2>1, <2>2, <2>3
<1>17. TableInv(nb)
    <2>1. \A i \in Positions : \A f \in nb.frames[i] :
              Offset(nb, f) \in 1..(nb.window - 1) /\ i = RelativeIndex(nb.head, Offset(nb, f))
        BY <1>2, <1>7, <1>8, <1>13
    <2>2. \A i \in Positions : \A f, g \in nb.frames[i] : f = g
        BY <1>12, <1>13
    <2> QED BY <1>2, <1>16, <2>1, <2>2 DEF TableInv
<1>18. r.released = {f \in A : Offset(b, f) < span}
    <2>1. ASSUME NEW f \in r.released PROVE f \in A /\ Offset(b, f) < span
        <3>1. PICK i \in Positions :
                  f \in IF Passing(b, span, received) /\ i = b.head THEN received
                        ELSE Leaving(b, span, i)
            BY <1>2, <2>1
        <3>2. CASE Passing(b, span, received) /\ i = b.head
            BY <3>1, <3>2 DEF Passing
        <3>3. CASE ~(Passing(b, span, received) /\ i = b.head)
            BY <3>1, <3>3 DEF Leaving, Retained
        <3> QED BY <3>2, <3>3
    <2>2. ASSUME NEW f \in received, Offset(b, f) < span PROVE f \in r.released
        <3>1. Passing(b, span, received)
            BY <2>2 DEF Passing
        <3> QED BY <1>1, <1>2, <3>1
    <2>3. ASSUME NEW f \in Retained(b), Offset(b, f) < span PROVE f \in r.released
        <3>1. at(f) \in Positions /\ f \in b.frames[at(f)]
            BY TablePlaces DEF at
        <3>2. at(f) # b.head
            BY <3>1, HeadVacant
        <3>3. f \in Leaving(b, span, at(f))
            BY <2>3, <3>1 DEF Leaving
        <3> QED BY <1>2, <3>1, <3>2, <3>3
    <2> QED BY <2>1, <2>2, <2>3
<1> QED BY <1>2, <1>5, <1>15, <1>17, <1>18 DEF nb

-----------------------------------------------------------------------------
(* What every operation does to the window.                                 *)

\* Frames told apart by their offsets are as many as the offsets.
LEMMA OffsetsCount ==
    ASSUME NEW b, NEW F, NEW lo \in Int, NEW n \in Nat,
           \A f \in F : Offset(b, f) \in lo..(lo + n - 1),
           \A f, g \in F : Offset(b, f) = Offset(b, g) => f = g
    PROVE  /\ IsFiniteSet(F) /\ Cardinality(F) \in Nat
           /\ (\A d \in lo..(lo + n - 1) : \E f \in F : Offset(b, f) = d) => Cardinality(F) = n
<1> DEFINE h == [f \in F |-> Offset(b, f)]
<1>0. PICK hi \in Int : hi = lo + n - 1
    OBVIOUS
<1>1. h \in [F -> lo..hi] /\ \A f, g \in F : h[f] = h[g] => f = g
    BY <1>0
<1>2. \A d \in lo..hi : (\E f \in F : Offset(b, f) = d) => \E f \in F : h[f] = d
    OBVIOUS
<1> HIDE DEF h
<1>3. h \in Injection(F, lo..hi)
    BY <1>1, Fun_IsInj
<1>4. IsFiniteSet(lo..hi) /\ Cardinality(lo..hi) = IF lo > hi THEN 0 ELSE hi - lo + 1
    BY FS_Interval
<1>5. IsFiniteSet(F) /\ (Cardinality(F) = Cardinality(lo..hi) <=> h \in Surjection(F, lo..hi))
    BY <1>3, <1>4, FS_Injection
<1>6. Cardinality(F) \in Nat
    BY <1>5, FS_CardinalityType
<1>7. Cardinality(lo..hi) = n
    BY <1>0, <1>4
<1>8. ASSUME \A d \in lo..hi : \E f \in F : Offset(b, f) = d
      PROVE  Cardinality(F) = n
    <2>1. h \in Surjection(F, lo..hi)
        BY <1>1, <1>2, <1>8, Fun_IsSurj
    <2> QED BY <1>5, <1>7, <2>1
<1> QED BY <1>0, <1>5, <1>6, <1>8

\* The window moves by a span: what lies before its end leaves the table, what
\* lies past it stays at its position, and the passed numbers that were not
\* released are the missing ones.
Passed(b, r, received, span) ==
    /\ TableInv(r.buffer)
    /\ r.buffer.window = b.window
    /\ span \in 0..(Modulus - 1)
    /\ r.buffer.next_sequence = Sequence(b.next_sequence + span)
    /\ r.released = {f \in Retained(b) \union received : Offset(b, f) < span}
    /\ Retained(r.buffer) = {f \in Retained(b) \union received : Offset(b, f) >= span}
    /\ \A f \in Retained(r.buffer) : Offset(r.buffer, f) = Offset(b, f) - span
    /\ r.missing = span - Cardinality(r.released)

\* MPDUs that may arrive together with the table b.
Arrives(b, received) ==
    /\ received \in SUBSET Frames
    /\ \A f, g \in received : f = g
    /\ \A f \in received : \A g \in Retained(b) : Offset(b, g) # Offset(b, f)

\* Retained and arriving MPDUs lie at distinct offsets.
LEMMA AllDistinct ==
    ASSUME NEW b, TableInv(b), NEW received, Arrives(b, received)
    PROVE  /\ \A f \in Retained(b) \union received :
                  f \in Frames /\ Offset(b, f) \in 0..(Modulus - 1) /\ Offset(b, f) \in Nat
           /\ \A f, g \in Retained(b) \union received :
                  Offset(b, f) = Offset(b, g) => f = g
<1>1. b \in Buffers
    BY DEF TableInv
<1>2. \A f \in Retained(b) \union received : f \in Frames
    BY TablePlaces DEF Arrives
<1> QED BY <1>1, <1>2, OffsetType, TableDistinct DEF Arrives

\* finish after an advance passes exactly the advance and the contiguous run.
LEMMA RunPassed ==
    ASSUME NEW b, TableInv(b), NEW received, Arrives(b, received),
           NEW advance \in Nat, advance < HalfSpace,
           \A f \in received : Offset(b, f) >= advance /\ Offset(b, f) < advance + b.window,
           NEW c, c = Run(b, advance, received),
           NEW r, r = Finish(b, advance, c, received),
           NEW span, span = advance + c
    PROVE  /\ Passed(b, r, received, span)
           /\ c \in 0..b.window
           /\ c = 0 \/ \E f \in Retained(b) \union received : Offset(b, f) = span - 1
           /\ \A f \in Retained(b) \union received : Offset(b, f) # span
<1> DEFINE A == Retained(b) \union received
           L == {f \in A : Offset(b, f) < advance}
           M == {f \in A : Offset(b, f) >= advance /\ Offset(b, f) < span}
<1>1. /\ b \in Buffers /\ b.window \in Nat /\ b.window >= 1 /\ b.window < HalfSpace
      /\ received \in SUBSET Frames
    BY BufferFields DEF TableInv, Arrives
<1>2. advance + b.window <= Modulus
    BY <1>1, Spaces
<1>3. /\ c \in 0..b.window
      /\ \A o \in 0..(c - 1) : \E f \in A : Offset(b, f) = advance + o
      /\ c < b.window => \A f \in A : Offset(b, f) # advance + c
    BY <1>1, <1>2, Contiguous DEF IsRun
<1>4. /\ \A f \in A : Offset(b, f) \in Nat /\ Offset(b, f) \in 0..(Modulus - 1)
      /\ \A f, g \in A : Offset(b, f) = Offset(b, g) => f = g
    BY AllDistinct
<1>5. c \in Nat /\ span \in Nat /\ span \in 0..(Modulus - 1)
    BY <1>1, <1>3, Spaces
<1>6. \A f \in A : Offset(b, f) < advance + b.window
    <2>1. \A f \in Retained(b) : Offset(b, f) \in 1..(b.window - 1)
        BY TablePlaces
    <2> QED BY <1>1, <2>1
<1>7. \A f \in A : Offset(b, f) # span
    BY <1>1, <1>3, <1>4, <1>5, <1>6
<1>8. \A f \in received : Offset(b, f) < span + b.window
    BY <1>1, <1>3, <1>4, <1>5, <1>6
<1>9. /\ TableInv(r.buffer)
      /\ r.released = {f \in A : Offset(b, f) < span}
      /\ Retained(r.buffer) = {f \in A : Offset(b, f) >= span}
      /\ \A f \in Retained(r.buffer) : Offset(r.buffer, f) = Offset(b, f) - span
      /\ r.buffer.window = b.window
      /\ r.buffer.next_sequence = Sequence(b.next_sequence + span)
      /\ r.missing = Missing(b, advance)
    <2>1. /\ TableInv(b) /\ \A f, g \in received : f = g
          /\ \A f \in received : \A g \in Retained(b) : Offset(b, g) # Offset(b, f)
        BY DEF Arrives
    <2> QED BY <1>1, <1>5, <1>7, <1>8, <2>1, FinishTable, SMTT(30)
<1>11. c = 0 \/ \E f \in A : Offset(b, f) = span - 1
    <2>1. SUFFICES ASSUME c # 0 PROVE \E f \in A : Offset(b, f) = span - 1
        OBVIOUS
    <2>2. c - 1 \in 0..(c - 1) /\ advance + (c - 1) = span - 1
        BY <1>5, <2>1
    <2> QED BY <1>3, <2>2
<1>12. IsFiniteSet(L) /\ Cardinality(L) \in Nat
    <2>1. /\ \A f \in L : Offset(b, f) \in 0..(0 + advance - 1)
          /\ \A f, g \in L : Offset(b, f) = Offset(b, g) => f = g
        BY <1>4
    <2>2. 0 \in Int
        OBVIOUS
    <2> HIDE DEF L
    <2> QED BY <2>1, <2>2, OffsetsCount, Zenon
<1>13. IsFiniteSet(M) /\ Cardinality(M) = c
    <2>1. /\ \A f \in M : Offset(b, f) \in advance..(advance + c - 1)
          /\ \A f, g \in M : Offset(b, f) = Offset(b, g) => f = g
        BY <1>4, <1>5
    <2>2. ASSUME NEW d \in advance..(advance + c - 1) PROVE \E f \in M : Offset(b, f) = d
        <3>1. PICK o \in 0..(c - 1) : d = advance + o
            <4>1. d - advance \in 0..(c - 1) /\ d = advance + (d - advance)
                BY <1>5
            <4> QED BY <4>1
        <3>2. PICK f \in A : Offset(b, f) = d
            BY <1>3, <3>1
        <3>3. d >= advance /\ d < span
            BY <1>5
        <3> QED BY <3>2, <3>3
    <2>3. \A d \in advance..(advance + c - 1) : \E f \in M : Offset(b, f) = d
        BY <2>2
    <2>4. advance \in Int
        OBVIOUS
    <2> HIDE DEF M
    <2>5. PICK n \in Nat : n = c
        BY <1>5
    <2>6. /\ \A f \in M : Offset(b, f) \in advance..(advance + n - 1)
          /\ \A d \in advance..(advance + n - 1) : \E f \in M : Offset(b, f) = d
        BY <2>1, <2>3, <2>5
    <2>7. IsFiniteSet(M) /\ Cardinality(M) = n
        BY <2>1, <2>4, <2>6, OffsetsCount
    <2> QED BY <2>5, <2>7
<1>14. r.released = L \union M /\ L \cap M = {}
    BY <1>4, <1>5, <1>9
<1>15. Missing(b, advance) = advance - Cardinality(L)
    <2>1. {f \in Retained(b) : ForwardDistance(b.next_sequence, f.sequence) < advance} = L
        BY <1>4 DEF Offset
    <2> HIDE DEF L
    <2> QED BY <2>1 DEF Missing
<1> HIDE DEF L, M
<1>16. Cardinality({}) = 0
    BY FS_EmptySet
<1>17. Cardinality(L \union M) = Cardinality(L) + Cardinality(M) - Cardinality(L \cap M)
    BY <1>12, <1>13, FS_Union
<1>18. Cardinality(r.released) = Cardinality(L) + c
    <2>1. Cardinality(L \cap M) = 0
        BY <1>14, <1>16
    <2>2. Cardinality(r.released) = Cardinality(L) + Cardinality(M) - 0
        BY <1>14, <1>17, <2>1, Zenon
    <2> QED BY <1>5, <1>12, <1>13, <2>2
<1>19. r.missing = span - Cardinality(r.released)
    BY <1>5, <1>9, <1>12, <1>15, <1>18
<1>20. Passed(b, r, received, span)
    BY <1>5, <1>9, <1>19 DEF Passed
<1> QED BY <1>3, <1>7, <1>11, <1>20

\* A sequence number is its own, at distance zero from itself.
LEMMA SequenceKept ==
    ASSUME NEW s \in SequenceNumbers
    PROVE  Sequence(s) = s /\ Sequence(s + 0) = s /\ ForwardDistance(s, s) = 0
<1>1. s \in Int /\ s \in 0..(Modulus - 1) /\ 0 \in 0..(Modulus - 1)
    BY Spaces DEF SequenceNumbers
<1>2. Remainder(s, Modulus) = s /\ Remainder(0, Modulus) = 0
    BY <1>1, Spaces, RemainderSmall
<1>3. s + 0 = s /\ s - s = 0
    BY <1>1
<1> QED BY <1>2, <1>3, AsRemainders

\* An operation that does nothing passes nothing.
LEMMA UnchangedPassed ==
    ASSUME NEW b, TableInv(b)
    PROVE  Passed(b, Unchanged(b), {}, 0)
<1> DEFINE r == Unchanged(b)
<1>1. r.buffer = b /\ r.released = {} /\ r.missing = 0
    BY DEF Unchanged
<1>2. \A f \in Retained(b) : Offset(b, f) \in Nat /\ Offset(b, f) - 0 = Offset(b, f)
    BY TablePlaces, BufferFields DEF TableInv
<1>3. b.next_sequence = Sequence(b.next_sequence + 0)
    BY BufferFields, SequenceKept DEF TableInv
<1>4. Cardinality({}) = 0
    BY FS_EmptySet
<1>5. 0 \in 0..(Modulus - 1)
    BY Spaces
<1> HIDE DEF r
<1>6. r.released = {f \in Retained(b) \union {} : Offset(b, f) < 0}
    BY <1>1, <1>2
<1>7. Retained(r.buffer) = {f \in Retained(b) \union {} : Offset(b, f) >= 0}
    BY <1>1, <1>2
<1>8. r.missing = 0 - Cardinality(r.released)
    BY <1>1, <1>4
<1>9. Passed(b, r, {}, 0)
    BY <1>1, <1>2, <1>3, <1>5, <1>6, <1>7, <1>8 DEF Passed
<1> QED BY <1>9 DEF r

\* ingest advances the window by as much as the MPDU is past its end.
LEMMA IngestIs ==
    ASSUME NEW b, TableInv(b), NEW frame \in Frames,
           ~Behind(b, frame.sequence), ~HasSequence(b, frame.sequence),
           NEW advance, advance = Advance(b, frame.sequence)
    PROVE  /\ Ingest(b, frame) = Finish(b, advance, Run(b, advance, {frame}), {frame})
           /\ Arrives(b, {frame})
           /\ advance \in Nat /\ advance < HalfSpace
           /\ Offset(b, frame) >= advance /\ Offset(b, frame) < advance + b.window
           /\ advance = 0 \/ advance = Offset(b, frame) - b.window + 1
<1>1. b \in Buffers /\ b.window \in Nat /\ b.window >= 1
    BY BufferFields DEF TableInv
<1>2. Offset(b, frame) \in Nat /\ frame.sequence \in SequenceNumbers
    BY <1>1, OffsetType
<1>3. Offset(b, frame) < HalfSpace
    BY <1>2, Spaces DEF Behind, Offset
<1>4. advance = IF Offset(b, frame) >= b.window THEN Offset(b, frame) - b.window + 1 ELSE 0
    BY DEF Advance, Offset
<1>5. /\ advance \in Nat /\ advance < HalfSpace
      /\ Offset(b, frame) >= advance /\ Offset(b, frame) < advance + b.window
      /\ advance = 0 \/ advance = Offset(b, frame) - b.window + 1
    BY <1>1, <1>2, <1>3, <1>4, Spaces
<1>6. \A g \in Retained(b) : Offset(b, g) # Offset(b, frame)
    <2>1. SUFFICES ASSUME NEW g \in Retained(b), Offset(b, g) = Offset(b, frame) PROVE FALSE
        OBVIOUS
    <2>2. PICK d \in 0..(Modulus - 1) : d = Offset(b, frame)
        BY <1>1, OffsetType
    <2>3. g \in Frames
        BY TablePlaces
    <2>4. g.sequence = Sequence(b.next_sequence + d)
        BY <1>1, <2>1, <2>2, <2>3, OffsetDecides
    <2>5. frame.sequence = Sequence(b.next_sequence + d)
        BY <1>1, <2>2, OffsetDecides
    <2> QED BY <1>2, <2>4, <2>5, HasRetained
<1>7. Arrives(b, {frame})
    BY <1>6 DEF Arrives
<1>8. Ingest(b, frame) = Finish(b, advance, Run(b, advance, {frame}), {frame})
    BY Zenon DEF Ingest, Run
<1> QED BY <1>5, <1>7, <1>8

\* ingest passes the window over what it releases or counts missing.
LEMMA IngestPassed ==
    ASSUME NEW b, TableInv(b), NEW frame \in Frames,
           ~Behind(b, frame.sequence), ~HasSequence(b, frame.sequence)
    PROVE  \E span \in Nat :
              /\ Passed(b, Ingest(b, frame), {frame}, span)
              /\ \/ span = 0 \/ span = Offset(b, frame) - b.window + 1
                 \/ \E f \in Retained(b) \union {frame} : Offset(b, f) = span - 1
<1>1. PICK advance : advance = Advance(b, frame.sequence)
    OBVIOUS
<1>2. PICK c : c = Run(b, advance, {frame})
    OBVIOUS
<1>3. PICK r : r = Finish(b, advance, c, {frame})
    OBVIOUS
<1>4. PICK span : span = advance + c
    OBVIOUS
<1>5. /\ Ingest(b, frame) = r
      /\ Arrives(b, {frame})
      /\ advance \in Nat /\ advance < HalfSpace
      /\ Offset(b, frame) >= advance /\ Offset(b, frame) < advance + b.window
      /\ advance = 0 \/ advance = Offset(b, frame) - b.window + 1
    BY <1>1, <1>2, <1>3, IngestIs
<1>6. \A f \in {frame} : Offset(b, f) >= advance /\ Offset(b, f) < advance + b.window
    BY <1>5
<1>7. /\ Passed(b, r, {frame}, span)
      /\ c \in 0..b.window
      /\ c = 0 \/ \E f \in Retained(b) \union {frame} : Offset(b, f) = span - 1
    <2>1. PICK received : received = {frame}
        BY Zenon
    <2>2. /\ Arrives(b, received) /\ c = Run(b, advance, received)
          /\ r = Finish(b, advance, c, received)
          /\ \A f \in received : Offset(b, f) >= advance /\ Offset(b, f) < advance + b.window
        BY <1>2, <1>3, <1>5, <1>6, <2>1
    <2>3. /\ Passed(b, r, received, span)
          /\ c \in 0..b.window
          /\ c = 0 \/ \E f \in Retained(b) \union received : Offset(b, f) = span - 1
        BY <1>4, <1>5, <2>2, RunPassed
    <2> QED BY <2>1, <2>3
<1>8. c \in Nat /\ span \in Nat
    BY <1>4, <1>5, <1>7
<1>9. c = 0 => span = advance
    BY <1>4, <1>5
<1> QED BY <1>5, <1>7, <1>8, <1>9

\* The same for a run that nothing arrives for.
LEMMA EmptyRunPassed ==
    ASSUME NEW b, TableInv(b), NEW advance \in Nat, advance < HalfSpace,
           NEW c, c = Run(b, advance, {}), NEW r, r = Finish(b, advance, c, {})
    PROVE  \E span \in Nat :
              /\ Passed(b, r, {}, span)
              /\ span = advance \/ \E f \in Retained(b) : Offset(b, f) = span - 1
<1>1. PICK received : received = {}
    OBVIOUS
<1>2. PICK span : span = advance + c
    OBVIOUS
<1>3. /\ Arrives(b, received) /\ c = Run(b, advance, received)
      /\ r = Finish(b, advance, c, received)
      /\ \A f \in received : Offset(b, f) >= advance /\ Offset(b, f) < advance + b.window
    BY <1>1 DEF Arrives
<1>4. /\ Passed(b, r, received, span)
      /\ c \in 0..b.window
      /\ c = 0 \/ \E f \in Retained(b) \union received : Offset(b, f) = span - 1
    BY <1>2, <1>3, RunPassed, SMTT(30)
<1>5. b.window \in Nat
    BY BufferFields, Zenon DEF TableInv
<1>6. c \in Nat /\ span \in Nat /\ (c = 0 => span = advance)
    BY <1>2, <1>4, <1>5
<1> QED BY <1>1, <1>4, <1>6

\* move_window_to passes the window up to its target and the run after it.
LEMMA MovePassed ==
    ASSUME NEW b, TableInv(b), NEW s \in SequenceNumbers, ~Behind(b, s)
    PROVE  \E span \in Nat :
              /\ Passed(b, MoveWindowTo(b, s), {}, span)
              /\ \/ span = ForwardDistance(b.next_sequence, s)
                 \/ \E f \in Retained(b) : Offset(b, f) = span - 1
<1>1. b.next_sequence \in Int /\ s \in Int
    BY BufferFields, Spaces DEF TableInv, SequenceNumbers
<1>2. PICK advance \in Nat : advance = ForwardDistance(b.next_sequence, s)
    BY <1>1, DistanceType, Zenon
<1>3. advance < HalfSpace
    BY <1>2, Spaces DEF Behind
<1>4. Sequence(b.next_sequence + advance) = s
    BY <1>1, <1>2, SequenceAt
<1>5. PICK c : c = Run(b, advance, {})
    OBVIOUS
<1>6. PICK r : r = Finish(b, advance, c, {})
    OBVIOUS
<1>7. MoveWindowTo(b, s) = r
    BY <1>2, <1>4, <1>5, <1>6 DEF MoveWindowTo, Run
<1> QED BY <1>2, <1>3, <1>5, <1>6, <1>7, EmptyRunPassed

\* expire_gap gives up on what is missing before the first buffered run.
LEMMA ExpirePassed ==
    ASSUME NEW b, TableInv(b)
    PROVE  \E span \in Nat :
              /\ Passed(b, ExpireGap(b), {}, span)
              /\ \/ span = 0
                 \/ \E f \in Retained(b) : Offset(b, f) = span \/ Offset(b, f) = span - 1
<1> DEFINE held == {d \in 0..(b.window - 1) : HasSequence(b, Sequence(b.next_sequence + d))}
           first == CHOOSE d \in held : \A e \in held : d <= e
<1>1. b.window \in Nat /\ b.window < HalfSpace
    BY BufferFields DEF TableInv
<1>2. CASE held = {}
    <2>1. ExpireGap(b) = Unchanged(b)
        BY <1>2 DEF ExpireGap
    <2> QED BY <2>1, UnchangedPassed
<1>3. CASE held # {}
    <2>1. held \subseteq Nat
        BY <1>1
    <2>2. \E d \in held : \A e \in held : d <= e
        BY <1>3, <2>1, LeastElement, Zenon
    <2>3. first \in held
        BY <2>2
    <2>4. ExpireGap(b)
          = Finish(b, first, ContiguousFrom(b, Sequence(b.next_sequence + first), {}), {})
        BY <1>3 DEF ExpireGap
    <2>5. PICK advance \in 0..(b.window - 1) :
              advance = first /\ HasSequence(b, Sequence(b.next_sequence + advance))
        BY <2>3, Zenon
    <2> HIDE DEF first
    <2>6. advance \in Nat /\ advance < HalfSpace /\ advance \in 0..(Modulus - 1)
        BY <1>1, <2>5, Spaces
    <2>7. PICK f \in Retained(b) : Offset(b, f) = advance
        BY <2>5, <2>6, HasOffset
    <2>8. PICK c : c = Run(b, advance, {})
        OBVIOUS
    <2>9. PICK r : r = Finish(b, advance, c, {})
        OBVIOUS
    <2>10. ExpireGap(b) = r
        BY <2>4, <2>5, <2>8, <2>9 DEF Run
    <2>11. \E span \in Nat :
              /\ Passed(b, r, {}, span)
              /\ span = advance \/ \E g \in Retained(b) : Offset(b, g) = span - 1
        BY <2>6, <2>8, <2>9, EmptyRunPassed
    <2> QED BY <2>7, <2>10, <2>11
<1> QED BY <1>2, <1>3

-----------------------------------------------------------------------------
(* The fast path.                                                           *)

\* Buffers with equal fields are equal.
LEMMA BufferEqual ==
    ASSUME NEW x \in Buffers, NEW y \in Buffers,
           x.starting_sequence = y.starting_sequence, x.next_sequence = y.next_sequence,
           x.window = y.window, x.occupied = y.occupied, x.head = y.head, x.frames = y.frames
    PROVE  x = y
BY DEF Buffers

\* The in-order MPDU starts a run of its own when its successor is not buffered.
LEMMA ImmediateRun ==
    ASSUME NEW b, TableInv(b), NEW frame \in Frames, Offset(b, frame) = 0,
           ~HasSequence(b, Sequence(b.next_sequence + 1))
    PROVE  Run(b, 0, {frame}) = 1
<1>1. b.window \in Nat /\ b.window >= 1 /\ b.window < HalfSpace
    BY BufferFields DEF TableInv
<1>2. PICK received \in SUBSET Frames : received = {frame}
    BY Zenon
<1>3. PICK advance \in Nat : advance = 0
    OBVIOUS
<1>4. advance + b.window <= Modulus
    BY <1>1, <1>3, Spaces
<1>8. PICK c : c = Run(b, advance, received)
    OBVIOUS
<1>5. /\ c \in 0..b.window
      /\ \A o \in 0..(c - 1) :
            \E f \in Retained(b) \union received : Offset(b, f) = advance + o
      /\ c < b.window => \A f \in Retained(b) \union received : Offset(b, f) # advance + c
    <2>1. IsRun(b, advance, received, c)
        BY <1>4, <1>8, Contiguous, Zenon
    <2> QED BY <2>1 DEF IsRun
<1>6. c # 0
    BY <1>1, <1>2, <1>3, <1>5
<1>7. ASSUME c > 1 PROVE FALSE
    <2>1. 1 \in 0..(c - 1) /\ 1 \in 0..(Modulus - 1)
        BY <1>1, <1>5, <1>7, Spaces
    <2>2. PICK f \in Retained(b) \union received : Offset(b, f) = 1
        <3>1. \E f \in Retained(b) \union received : Offset(b, f) = advance + 1
            BY <1>5, <2>1, Zenon
        <3>2. advance + 1 = 1
            BY <1>3
        <3> QED BY <3>1, <3>2, Zenon
    <2>3. f \in Retained(b)
        BY <1>2, <2>2
    <2> QED BY <2>1, <2>2, <2>3, HasOffset
<1>9. c = 1
    BY <1>1, <1>5, <1>6, <1>7
<1> QED BY <1>2, <1>3, <1>8, <1>9

\* try_ingest_immediate does to the table what ingest would.
LEMMA ImmediateIsIngest ==
    ASSUME NEW b, TableInv(b), NEW frame \in Frames, TakesImmediate(b, frame.sequence)
    PROVE  Ingest(b, frame) = Immediate(b, frame)
<1> DEFINE m == [b EXCEPT !.head = RelativeIndex(@, 1), !.next_sequence = Sequence(@ + 1)]
<1>1. /\ b \in Buffers /\ b.window \in Nat /\ b.window >= 1 /\ b.head \in Positions
      /\ b.next_sequence \in SequenceNumbers /\ b.head \in Int
      /\ b.occupied \in SUBSET Positions /\ b.frames \in [Positions -> SUBSET Frames]
    BY BufferFields DEF TableInv
<1>2. Offset(b, frame) = 0
    BY <1>1, SequenceKept DEF TakesImmediate, Offset
<1>3. Run(b, 0, {frame}) = 1
    BY <1>2, ImmediateRun DEF TakesImmediate
<1>4. Advance(b, frame.sequence) = 0
    BY <1>1, <1>2 DEF Advance, Offset
<1>5. PICK r : r = Finish(b, 0, 1, {frame})
    OBVIOUS
<1>6. Ingest(b, frame) = r
    BY <1>3, <1>4, <1>5 DEF Ingest, Run
<1>7. \A i \in Positions : Leaving(b, 1, i) = {}
    BY <1>1 DEF Leaving, TableInv
<1>8. Passing(b, 1, {frame}) /\ Places(b, 1, {frame}) = {}
    BY <1>2 DEF Passing, Places
<1>9. /\ r.buffer \in Buffers
      /\ r.buffer.starting_sequence = b.starting_sequence
      /\ r.buffer.window = b.window
      /\ r.buffer.next_sequence = Sequence(b.next_sequence + 1)
      /\ r.buffer.head = RelativeIndex(b.head, 1)
      /\ r.buffer.occupied = (b.occupied \ {i \in Positions : Leaving(b, 1, i) # {}})
                               \union Places(b, 1, {frame})
      /\ r.buffer.frames = [i \in Positions |->
             IF i \in Places(b, 1, {frame}) THEN {frame}
             ELSE b.frames[i] \ Leaving(b, 1, i)]
      /\ r.released = UNION {IF Passing(b, 1, {frame}) /\ i = b.head THEN {frame}
                             ELSE Leaving(b, 1, i) : i \in Positions}
      /\ r.missing = Missing(b, 0)
      /\ r.buffered = ({frame} # {} /\ ~Passing(b, 1, {frame}))
      /\ r = [buffer |-> r.buffer, released |-> r.released, missing |-> r.missing,
              buffered |-> r.buffered]
    <2>1. PICK received \in SUBSET Frames, advance \in Nat, contiguous \in Nat, span \in Nat :
             received = {frame} /\ advance = 0 /\ contiguous = 1 /\ span = 1
        BY Zenon
    <2>2. r = Finish(b, advance, contiguous, received) /\ span = advance + contiguous
        BY <1>5, <2>1
    <2>3. IsFinish(b, advance, span, received, r)
        BY <1>1, <2>2, FinishFields, Zenon
    <2>4. IsFinish(b, 0, 1, {frame}, r)
        BY <2>1, <2>3, Zenon
    <2> QED BY <2>4, Zenon DEF IsFinish
<1>10. r.released = {frame}
    BY <1>1, <1>7, <1>8, <1>9
<1>11. r.missing = 0
    <2>1. {f \in Retained(b) : ForwardDistance(b.next_sequence, f.sequence) < 0} = {}
        BY <1>1, TablePlaces DEF Offset
    <2>2. Cardinality({}) = 0
        BY FS_EmptySet
    <2>3. Missing(b, 0) = 0 - Cardinality({})
        BY <2>1, Zenon DEF Missing
    <2> QED BY <1>9, <2>2, <2>3
<1>12. r.buffered = FALSE
    BY <1>8, <1>9, Zenon
<1>13. r.buffer.occupied = b.occupied /\ r.buffer.frames = b.frames
    BY <1>1, <1>7, <1>8, <1>9, Zenon
<1>14. /\ RelativeIndex(b.head, 1) \in Positions
       /\ Sequence(b.next_sequence + 1) \in SequenceNumbers
    <2>1. 1 \in Nat /\ {} \in SUBSET Frames
        OBVIOUS
    <2> QED BY <1>1, <2>1, PlacesType, Zenon
<1>15. /\ m \in Buffers
       /\ m.starting_sequence = b.starting_sequence /\ m.window = b.window
       /\ m.next_sequence = Sequence(b.next_sequence + 1)
       /\ m.head = RelativeIndex(b.head, 1)
       /\ m.occupied = b.occupied /\ m.frames = b.frames
    BY <1>1, <1>14, ZenonT(30) DEF Buffers
<1>16. Immediate(b, frame) = [buffer |-> m, released |-> {frame}, missing |-> 0, buffered |-> FALSE]
    BY Zenon DEF Immediate
<1> HIDE DEF m
<1>17. r.buffer = m
    BY <1>9, <1>13, <1>15, BufferEqual
<1> QED BY <1>6, <1>9, <1>10, <1>11, <1>12, <1>16, <1>17

\* An MPDU that ingest keeps is one that retains_on_ingest announced.
LEMMA KeptIsAnnounced ==
    ASSUME NEW b, TableInv(b), NEW frame \in Frames,
           ~Behind(b, frame.sequence), ~HasSequence(b, frame.sequence),
           Ingest(b, frame).buffered
    PROVE  RetainsOnIngest(b, frame.sequence)
<1>1. b \in Buffers /\ b.window \in Nat /\ b.window >= 1 /\ Offset(b, frame) \in Nat
    BY BufferFields, OffsetType DEF TableInv
<1>2. PICK advance : advance = Advance(b, frame.sequence)
    OBVIOUS
<1>3. PICK received : received = {frame}
    BY Zenon
<1>4. PICK c : c = Run(b, advance, received)
    OBVIOUS
<1>5. PICK r : r = Finish(b, advance, c, received)
    OBVIOUS
<1>6. PICK span : span = advance + c
    OBVIOUS
<1>7. /\ Ingest(b, frame) = r
      /\ Arrives(b, received)
      /\ advance \in Nat /\ advance < HalfSpace
      /\ Offset(b, frame) >= advance /\ Offset(b, frame) < advance + b.window
    BY <1>2, <1>3, <1>4, <1>5, IngestIs, Zenon
<1>8. \A f \in received : Offset(b, f) >= advance /\ Offset(b, f) < advance + b.window
    BY <1>3, <1>7
<1>9. c \in 0..b.window /\ \A f \in Retained(b) \union received : Offset(b, f) # span
    BY <1>4, <1>5, <1>6, <1>7, <1>8, RunPassed
<1>10. c \in Nat /\ received \in SUBSET Frames
    BY <1>1, <1>3, <1>9
<1>11. r.buffered = (received # {} /\ ~Passing(b, span, received))
    <2>1. IsFinish(b, advance, span, received, r)
        BY <1>1, <1>5, <1>6, <1>7, <1>10, FinishFields, Zenon
    <2> QED BY <2>1, Zenon DEF IsFinish
<1>12. ~Passing(b, span, received)
    BY <1>7, <1>11, Zenon
<1>13. Offset(b, frame) # span /\ ~(Offset(b, frame) < span)
    BY <1>3, <1>9, <1>12 DEF Passing
<1>14. Offset(b, frame) > advance
    BY <1>1, <1>6, <1>7, <1>10, <1>13
<1>15. (IF Offset(b, frame) >= b.window THEN b.window - 1 ELSE Offset(b, frame)) # 0
    BY <1>1, <1>7, <1>14
<1> QED BY <1>15 DEF RetainsOnIngest, Offset

-----------------------------------------------------------------------------
(* The order of a release.                                                  *)

\* A frame's place among the released ones.
Closer(b, F, f) == {g \in F : Offset(b, g) < Offset(b, f)}

Rank(b, F, f) == 1 + Cardinality(Closer(b, F, f))

\* An MPDU's rank among released ones lies within their number.
LEMMA RankType ==
    ASSUME NEW b, NEW F, IsFiniteSet(F), NEW f \in F, \A g \in F : Offset(b, g) \in Nat
    PROVE  /\ IsFiniteSet(Closer(b, F, f)) /\ Cardinality(Closer(b, F, f)) \in Nat
           /\ Rank(b, F, f) \in 1..Cardinality(F)
<1>1. Closer(b, F, f) \in SUBSET F /\ f \notin Closer(b, F, f)
    BY DEF Closer
<1>2. PICK T \in SUBSET F : T = Closer(b, F, f)
    BY <1>1
<1>3. IsFiniteSet(T) /\ Cardinality(T) <= Cardinality(F)
      /\ (Cardinality(F) = Cardinality(T) => F = T)
    BY FS_Subset
<1>4. Cardinality(T) \in Nat
    BY <1>3, FS_CardinalityType
<1>5. Cardinality(F) \in Nat
    BY FS_CardinalityType
<1>6. Cardinality(F) # Cardinality(T)
    BY <1>1, <1>2, <1>3
<1> QED BY <1>2, <1>3, <1>4, <1>5, <1>6 DEF Rank

\* The farther of two released MPDUs has the greater rank.
LEMMA RankGrows ==
    ASSUME NEW b, NEW F, IsFiniteSet(F), \A g \in F : Offset(b, g) \in Nat,
           NEW f \in F, NEW g \in F, Offset(b, f) < Offset(b, g)
    PROVE  Rank(b, F, f) < Rank(b, F, g)
<1>1. PICK S : S = Closer(b, F, g)
    OBVIOUS
<1>2. Closer(b, F, f) \in SUBSET S /\ f \in S /\ f \notin Closer(b, F, f)
    BY <1>1 DEF Closer
<1>3. PICK T \in SUBSET S : T = Closer(b, F, f)
    BY <1>2
<1>4. IsFiniteSet(S) /\ Cardinality(S) \in Nat /\ Cardinality(T) \in Nat
    BY <1>1, <1>3, RankType
<1>5. Cardinality(T) <= Cardinality(S) /\ (Cardinality(S) = Cardinality(T) => S = T)
    BY <1>4, FS_Subset
<1>6. S # T
    BY <1>2, <1>3
<1> QED BY <1>1, <1>3, <1>4, <1>5, <1>6 DEF Rank

\* Every place of the release order is taken.
LEMMA RankOnto ==
    ASSUME NEW b, NEW F, IsFiniteSet(F), \A g \in F : Offset(b, g) \in Nat,
           \A f, g \in F : Offset(b, f) = Offset(b, g) => f = g
    PROVE  \A i \in 1..Cardinality(F) : \E f \in F : Rank(b, F, f) = i
<1>1. PICK n \in Nat : n = Cardinality(F)
    BY FS_CardinalityType
<1> DEFINE h == [f \in F |-> Rank(b, F, f)]
<1>2. \A f \in F : Rank(b, F, f) \in 1..n
    BY <1>1, RankType
<1>3. \A f, g \in F : Rank(b, F, f) = Rank(b, F, g) => f = g
    <2>1. SUFFICES ASSUME NEW f \in F, NEW g \in F, Rank(b, F, f) = Rank(b, F, g), f # g
                   PROVE  FALSE
        OBVIOUS
    <2>2. Offset(b, f) < Offset(b, g) \/ Offset(b, g) < Offset(b, f)
        BY <2>1
    <2>3. Rank(b, F, f) < Rank(b, F, g) \/ Rank(b, F, g) < Rank(b, F, f)
        BY <2>2, RankGrows
    <2>4. Rank(b, F, f) \in Int /\ Rank(b, F, g) \in Int
        BY <1>2
    <2> QED BY <2>1, <2>3, <2>4
<1>4. h \in [F -> 1..n] /\ \A f, g \in F : h[f] = h[g] => f = g
    BY <1>2, <1>3
<1>5. \A i \in 1..n : (\E f \in F : h[f] = i) => \E f \in F : Rank(b, F, f) = i
    OBVIOUS
<1> HIDE DEF h
<1>6. h \in Injection(F, 1..n)
    BY <1>4, Fun_IsInj
<1>7. IsFiniteSet(1..n) /\ Cardinality(1..n) = n
    <2>1. 1 \in Int /\ n \in Int
        OBVIOUS
    <2>2. IsFiniteSet(1..n) /\ Cardinality(1..n) = IF 1 > n THEN 0 ELSE n - 1 + 1
        BY <2>1, FS_Interval
    <2> QED BY <2>2
<1>8. h \in Surjection(F, 1..n)
    BY <1>1, <1>6, <1>7, FS_Injection
<1>9. \A i \in 1..n : \E f \in F : h[f] = i
    BY <1>8, Fun_SurjectionProperties, Zenon
<1> QED BY <1>1, <1>5, <1>9

\* The released frames are listed by growing offset.
LEMMA OrderedByOffset ==
    ASSUME NEW b, NEW F, IsFiniteSet(F), \A g \in F : Offset(b, g) \in Nat,
           \A f, g \in F : Offset(b, f) = Offset(b, g) => f = g,
           NEW order, order = Ordered(F, b.next_sequence)
    PROVE  /\ Cardinality(F) \in Nat
           /\ order \in [1..Cardinality(F) -> F]
           /\ \A i, j \in 1..Cardinality(F) : i < j => Offset(b, order[i]) < Offset(b, order[j])
<1>1. PICK n \in Nat : n = Cardinality(F)
    BY FS_CardinalityType
<1>2. order = [i \in 1..n |-> CHOOSE f \in F : i = Rank(b, F, f)]
    BY <1>1 DEF Ordered, Rank, Closer, Offset
<1>3. \A i \in 1..n : \E f \in F : i = Rank(b, F, f)
    BY <1>1, RankOnto
<1>4. \A i \in 1..n : order[i] \in F /\ i = Rank(b, F, order[i])
    BY <1>2, <1>3
<1>5. order \in [1..n -> F]
    BY <1>2, <1>4
<1>6. ASSUME NEW i \in 1..n, NEW j \in 1..n, i < j
      PROVE  Offset(b, order[i]) < Offset(b, order[j])
    <2>1. PICK f \in F, g \in F : f = order[i] /\ g = order[j]
        BY <1>4
    <2>2. i = Rank(b, F, f) /\ j = Rank(b, F, g)
        BY <1>4, <2>1
    <2>3. ~(Offset(b, g) < Offset(b, f))
        BY <1>6, <2>2, RankGrows
    <2>4. Offset(b, f) # Offset(b, g)
        BY <1>6, <2>2
    <2> QED BY <2>1, <2>3, <2>4
<1> QED BY <1>1, <1>5, <1>6
=============================================================================
