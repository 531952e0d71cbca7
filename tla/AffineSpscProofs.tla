--------------------------- MODULE AffineSpscProofs --------------------------
(***************************************************************************)
(* Safety of AffineSpsc for every DEPTH and every set of values; and of    *)
(* MsduQueue, the queue built on that ring, for every stale load as well.  *)
(***************************************************************************)
EXTENDS MsduQueue, SequenceTheorems, TLAPS

\* Cursor arithmetic.  In Cursors a distance is a natural below 2 * DEPTH,
\* zero only between equal cursors.
LEMMA DistanceType ==
    ASSUME NEW a \in Cursors, NEW b \in Cursors
    PROVE  /\ cursor_distance(a, b) \in 0..(2 * DEPTH - 1)
           /\ cursor_distance(a, b) = 0 <=> a = b
BY DepthAssumption, SMT DEF Cursors, cursor_distance

\* The next cursor is a cursor (advance, affine_spsc.rs:124).
LEMMA AdvanceType ==
    ASSUME NEW a \in Cursors
    PROVE  advance(a) \in Cursors
BY DepthAssumption, SMT DEF Cursors, advance

\* Advancing the far end of a distance adds one to it unless it wraps ...
LEMMA AdvanceFar ==
    ASSUME NEW a \in Cursors, NEW b \in Cursors,
           cursor_distance(a, b) < 2 * DEPTH - 1
    PROVE  cursor_distance(a, advance(b)) = cursor_distance(a, b) + 1
BY DepthAssumption, SMT DEF Cursors, cursor_distance, advance

\* ... and advancing the near end takes one off a nonzero distance.
LEMMA AdvanceNear ==
    ASSUME NEW a \in Cursors, NEW b \in Cursors, a # b
    PROVE  cursor_distance(advance(a), b) = cursor_distance(a, b) - 1
BY DepthAssumption, SMT DEF Cursors, cursor_distance, advance

\* A load between `seen` and `current` splits the distance between them.
LEMMA ViewSplits ==
    ASSUME NEW seen \in Cursors, NEW current \in Cursors,
           NEW view \in Views(seen, current)
    PROVE  /\ view \in Cursors
           /\ cursor_distance(seen, view) + cursor_distance(view, current)
                = cursor_distance(seen, current)
BY DepthAssumption, SMT DEF Cursors, cursor_distance, Views

\* Distances along an arc add up.
LEMMA Chain ==
    ASSUME NEW a \in Cursors, NEW b \in Cursors, NEW c \in Cursors,
           cursor_distance(a, b) + cursor_distance(b, c) < 2 * DEPTH
    PROVE  cursor_distance(a, c) = cursor_distance(a, b) + cursor_distance(b, c)
BY DepthAssumption, SMT DEF Cursors, cursor_distance

-----------------------------------------------------------------------------
\* The inductive invariant of the cursors.  The producer has seen a consumer
\* cursor that the consumer passed or stands at, at most DEPTH behind; the
\* consumer likewise; a permit names the current producer cursor and was
\* granted with room; a claimed value is one the consumer saw.
CursorTypeOK ==
    /\ alive \in BOOLEAN
    /\ producer \in Cursors /\ consumer \in Cursors
    /\ seenProducer \in Cursors /\ seenConsumer \in Cursors
    /\ permit \in Cursors
    /\ ppc \in {"idle", "reserved", "written"}
    /\ cpc \in {"idle", "claimed", "read"}

CursorInv ==
    /\ CursorTypeOK
    /\ cursor_distance(seenConsumer, consumer) + cursor_distance(consumer, producer)
         <= DEPTH
    /\ cursor_distance(consumer, seenProducer) + cursor_distance(seenProducer, producer)
         = cursor_distance(consumer, producer)
    /\ ppc # "idle" =>
         /\ permit = producer
         /\ cursor_distance(seenConsumer, consumer) + cursor_distance(consumer, producer)
              < DEPTH
    /\ cpc # "idle" => consumer # seenProducer
    /\ ~alive => ppc = "idle" /\ cpc = "idle" /\ producer = consumer

Distances ==
    /\ cursor_distance(seenConsumer, consumer) \in 0..(2 * DEPTH - 1)
    /\ cursor_distance(consumer, producer) \in 0..(2 * DEPTH - 1)
    /\ cursor_distance(consumer, seenProducer) \in 0..(2 * DEPTH - 1)
    /\ cursor_distance(seenProducer, producer) \in 0..(2 * DEPTH - 1)

\* A new queue satisfies the cursor invariant (new, affine_spsc.rs:73).
LEMMA InitCursorInv == Init => CursorInv
BY DepthAssumption, SMT
   DEF Init, CursorInv, CursorTypeOK, Cursors, Cells, cursor_distance

\* Every step keeps the invariant of the cursors.
LEMMA NextCursorInv == CursorInv /\ [Next]_vars => CursorInv'
<1> SUFFICES ASSUME CursorInv, [Next]_vars
             PROVE  CursorInv'
    OBVIOUS
<1> USE DepthAssumption
<1>0. Distances
    BY DistanceType DEF CursorInv, CursorTypeOK, Distances
<1>1. CASE Reserve
  <2>1. PICK view \in Views(seenConsumer, consumer) :
            /\ cursor_distance(view, producer) < DEPTH
            /\ seenConsumer' = view
        BY <1>1 DEF Reserve
  <2>2. /\ view \in Cursors
        /\ cursor_distance(seenConsumer, view) + cursor_distance(view, consumer)
             = cursor_distance(seenConsumer, consumer)
        BY ViewSplits DEF CursorInv, CursorTypeOK
  <2>3. /\ cursor_distance(seenConsumer, view) \in 0..(2 * DEPTH - 1)
        /\ cursor_distance(view, consumer) \in 0..(2 * DEPTH - 1)
        BY <2>2, DistanceType DEF CursorInv, CursorTypeOK
  <2>4. cursor_distance(view, producer)
          = cursor_distance(view, consumer) + cursor_distance(consumer, producer)
    <3>1. cursor_distance(view, consumer) + cursor_distance(consumer, producer) < 2 * DEPTH
        BY <1>0, <2>2, <2>3 DEF CursorInv, Distances
    <3> QED BY <3>1, <2>2, Chain DEF CursorInv, CursorTypeOK
  <2> QED BY <1>1, <1>0, <2>1, <2>2, <2>3, <2>4
          DEF CursorInv, CursorTypeOK, Reserve, Distances, consumerVars
<1>2. CASE Refuse \/ SenderLen
  <2>1. PICK view \in Views(seenConsumer, consumer) : seenConsumer' = view
        BY <1>2 DEF Refuse, SenderLen
  <2>2. /\ view \in Cursors
        /\ cursor_distance(seenConsumer, view) + cursor_distance(view, consumer)
             = cursor_distance(seenConsumer, consumer)
        BY ViewSplits DEF CursorInv, CursorTypeOK
  <2>3. /\ cursor_distance(seenConsumer, view) \in 0..(2 * DEPTH - 1)
        /\ cursor_distance(view, consumer) \in 0..(2 * DEPTH - 1)
        BY <2>2, DistanceType DEF CursorInv, CursorTypeOK
  <2> QED BY <1>2, <1>0, <2>1, <2>2, <2>3
          DEF CursorInv, CursorTypeOK, Refuse, SenderLen, Distances, consumerVars
<1>3. CASE DropPermit
    BY <1>3 DEF CursorInv, CursorTypeOK, DropPermit, consumerVars
<1>4. ASSUME NEW v \in Values, Write(v)
      PROVE  CursorInv'
    BY <1>4 DEF CursorInv, CursorTypeOK, Write, consumerVars
<1>5. CASE Publish
  <2>1. permit = producer /\ producer \in Cursors /\ consumer \in Cursors
          /\ seenProducer \in Cursors
        BY <1>5 DEF Publish, CursorInv, CursorTypeOK
  <2>2. producer' = advance(producer) /\ producer' \in Cursors
        BY <1>5, <2>1, AdvanceType DEF Publish
  <2>3. cursor_distance(consumer, producer') = cursor_distance(consumer, producer) + 1
    <3>1. cursor_distance(consumer, producer) < 2 * DEPTH - 1
        BY <1>5, <1>0 DEF Publish, CursorInv, Distances
    <3> QED BY <3>1, <2>1, <2>2, AdvanceFar
  <2>4. cursor_distance(seenProducer, producer') = cursor_distance(seenProducer, producer) + 1
    <3>1. cursor_distance(seenProducer, producer) < 2 * DEPTH - 1
        BY <1>5, <1>0 DEF Publish, CursorInv, Distances
    <3> QED BY <3>1, <2>1, <2>2, AdvanceFar
  <2> QED BY <1>5, <1>0, <2>2, <2>3, <2>4
          DEF CursorInv, CursorTypeOK, Publish, Distances, consumerVars
<1>6. CASE Claim \/ ReceiverLen
  <2>1. PICK view \in Views(seenProducer, producer) :
            /\ seenProducer' = view
            /\ Claim => consumer # view
        BY <1>6 DEF Claim, ReceiverLen
  <2>2. /\ view \in Cursors
        /\ cursor_distance(seenProducer, view) + cursor_distance(view, producer)
             = cursor_distance(seenProducer, producer)
        BY ViewSplits DEF CursorInv, CursorTypeOK
  <2>3. /\ cursor_distance(seenProducer, view) \in 0..(2 * DEPTH - 1)
        /\ cursor_distance(view, producer) \in 0..(2 * DEPTH - 1)
        BY <2>2, DistanceType DEF CursorInv, CursorTypeOK
  <2>4. cursor_distance(consumer, view)
          = cursor_distance(consumer, seenProducer) + cursor_distance(seenProducer, view)
    <3>1. cursor_distance(consumer, seenProducer) + cursor_distance(seenProducer, view)
            < 2 * DEPTH
        BY <1>0, <2>2, <2>3 DEF CursorInv, Distances
    <3> QED BY <3>1, <2>2, Chain DEF CursorInv, CursorTypeOK
  <2> QED BY <1>6, <1>0, <2>1, <2>2, <2>3, <2>4
          DEF CursorInv, CursorTypeOK, Claim, ReceiverLen, Distances, producerVars
<1>7. CASE Read
    BY <1>7 DEF CursorInv, CursorTypeOK, Read, producerVars
<1>8. CASE Return
  <2>1. /\ consumer # seenProducer
        /\ consumer \in Cursors /\ producer \in Cursors
        /\ seenProducer \in Cursors /\ seenConsumer \in Cursors
        BY <1>8 DEF Return, CursorInv, CursorTypeOK
  <2>2. consumer' = advance(consumer) /\ consumer' \in Cursors
        BY <1>8, <2>1, AdvanceType DEF Return
  <2>3. consumer # producer
        BY <2>1, <1>0, DistanceType DEF CursorInv, Distances
  <2>4. /\ cursor_distance(consumer', producer) = cursor_distance(consumer, producer) - 1
        /\ cursor_distance(consumer', seenProducer) = cursor_distance(consumer, seenProducer) - 1
        BY <2>1, <2>2, <2>3, AdvanceNear
  <2>5. cursor_distance(seenConsumer, consumer') = cursor_distance(seenConsumer, consumer) + 1
    <3>1. cursor_distance(consumer, producer) # 0
        BY <2>1, <2>3, DistanceType
    <3>2. cursor_distance(seenConsumer, consumer) < 2 * DEPTH - 1
        BY <3>1, <1>0 DEF CursorInv, Distances
    <3> QED BY <3>2, <2>1, <2>2, AdvanceFar
  <2> QED BY <1>8, <1>0, <2>1, <2>2, <2>4, <2>5
          DEF CursorInv, CursorTypeOK, Return, Distances, producerVars
<1>9. CASE Split \/ Drop \/ New
  <2>1. /\ seenConsumer' \in Cursors /\ seenProducer' \in Cursors
        /\ producer' \in Cursors /\ consumer' \in Cursors
        /\ seenConsumer' = consumer' /\ seenProducer' = producer'
        /\ permit' \in Cursors
        BY <1>9 DEF Split, Drop, New, CursorInv, CursorTypeOK, Cursors
  <2>2. /\ cursor_distance(seenConsumer', consumer') = 0
        /\ cursor_distance(seenProducer', producer') = 0
        BY <2>1, DistanceType
  <2>3. cursor_distance(consumer', producer') \in 0..DEPTH
    <3>1. CASE Split
        BY <3>1, <1>0 DEF Split, CursorInv, Distances
    <3>2. CASE Drop \/ New
        BY <3>2, <2>1, DistanceType DEF Drop, New
    <3> QED BY <1>9, <3>1, <3>2
  <2>4. /\ ppc' = "idle" /\ cpc' = "idle" /\ alive' \in BOOLEAN
        /\ ~alive' => producer' = consumer'
    <3>1. CASE Split
        BY <3>1 DEF Split, CursorInv, CursorTypeOK
    <3>2. CASE Drop
        BY <3>2, Zenon DEF Drop
    <3>3. CASE New
        BY <3>3 DEF New, CursorInv
    <3> QED BY <1>9, <3>1, <3>2, <3>3
  <2> QED BY <2>1, <2>2, <2>3, <2>4 DEF CursorInv, CursorTypeOK
<1>10. ASSUME NEW v \in Values, Supply(v)
       PROVE  CursorInv'
    BY <1>10 DEF CursorInv, CursorTypeOK, Supply, producerVars, consumerVars
<1>11. CASE UNCHANGED vars
    BY <1>11 DEF CursorInv, CursorTypeOK, vars, producerVars, consumerVars
<1> QED BY <1>1, <1>2, <1>3, <1>4, <1>5, <1>6, <1>7, <1>8, <1>9, <1>10, <1>11
        DEF Next, Producer, Consumer, Owner

-----------------------------------------------------------------------------
(* Cells.  Cursor c lives in cell c % DEPTH.                                *)

\* A cursor below DEPTH is its own cell index.
LEMMA ModSmall ==
    ASSUME NEW x \in Nat
    PROVE  /\ x < DEPTH => x % DEPTH = x
           /\ DEPTH <= x /\ x < 2 * DEPTH => x % DEPTH = x - DEPTH
           /\ 2 * DEPTH <= x /\ x < 3 * DEPTH => x % DEPTH = x - 2 * DEPTH
           /\ x = 3 * DEPTH => x % DEPTH = 0
BY DepthAssumption, SMT

\* Every cursor names a cell (`% DEPTH`, affine_spsc.rs:167, :280).
LEMMA IndexInCells ==
    ASSUME NEW x \in Nat
    PROVE  x % DEPTH \in Cells
BY DepthAssumption, SMT DEF Cells

\* The cell i places after the advanced cursor is i + 1 places after it.
LEMMA CellAdvance ==
    ASSUME NEW a \in Cursors, NEW i \in 0..(DEPTH - 1)
    PROVE  (advance(a) + i) % DEPTH = (a + (i + 1)) % DEPTH
<1>1. CASE a + 1 = DEPTH * 2
  <2>1. advance(a) + i = i /\ a + (i + 1) = 2 * DEPTH + i
      BY <1>1, DepthAssumption DEF advance, Cursors
  <2>2. (2 * DEPTH + i) % DEPTH = i /\ i % DEPTH = i
      BY DepthAssumption, ModSmall
  <2> QED BY <2>1, <2>2
<1>2. CASE a + 1 # DEPTH * 2
    BY <1>2, DepthAssumption DEF advance, Cursors
<1> QED BY <1>1, <1>2

\* The producer's cell follows the last queued one.
LEMMA CellEnd ==
    ASSUME NEW a \in Cursors, NEW b \in Cursors, cursor_distance(a, b) <= DEPTH
    PROVE  (a + cursor_distance(a, b)) % DEPTH = b % DEPTH
<1>1. CASE b >= a
    BY <1>1, DepthAssumption DEF cursor_distance, Cursors
<1>2. CASE b < a
  <2>1. a + cursor_distance(a, b) = 2 * DEPTH + b
      BY <1>2, DepthAssumption DEF cursor_distance, Cursors
  <2>2. b < DEPTH
      BY <1>2, DepthAssumption DEF cursor_distance, Cursors
  <2>3. (2 * DEPTH + b) % DEPTH = b /\ b % DEPTH = b
      BY <2>2, DepthAssumption, ModSmall DEF Cursors
  <2> QED BY <2>1, <2>3
<1> QED BY <1>1, <1>2, DepthAssumption DEF Cursors

\* Fewer than DEPTH consecutive cursors have distinct cells.
LEMMA CellDistinct ==
    ASSUME NEW a \in Cursors, NEW i \in 0..(DEPTH - 1), NEW j \in 0..(DEPTH - 1),
           (a + i) % DEPTH = (a + j) % DEPTH
    PROVE  i = j
<1>1. a + i \in Nat /\ a + j \in Nat /\ a + i < 3 * DEPTH /\ a + j < 3 * DEPTH
    BY DepthAssumption DEF Cursors
<1> QED BY <1>1, ModSmall, DepthAssumption DEF Cursors

-----------------------------------------------------------------------------
(* What each step does to the queue's contents.                             *)

\* The invariant of the values: those between the cursors and the one being
\* published are initialized, a value moved out is still the head, and every
\* value has one owner.
ValueInv ==
    /\ TypeOK
    /\ Contents \in Seq(Values)
    /\ ppc = "written" => values[permit % DEPTH] \in Values
    /\ cpc = "read" => taken = values[consumer % DEPTH]
    /\ Affine

\* Sequences given by their elements.
LEMMA AppendByElements ==
    ASSUME NEW S, NEW s \in Seq(S), NEW e \in S, NEW n \in Nat, n = Len(s),
           NEW t \in [1..(n + 1) -> S],
           \A i \in 1..n : t[i] = s[i], t[n + 1] = e
    PROVE  t = Append(s, e)
<1>1. t \in Seq(S) /\ Len(t) = n + 1
    OBVIOUS
<1>2. /\ Append(s, e) \in Seq(S) /\ Len(Append(s, e)) = n + 1
      /\ \A i \in 1..n : Append(s, e)[i] = s[i]
      /\ Append(s, e)[n + 1] = e
    BY AppendProperties
<1>3. \A i \in 1..Len(t) : t[i] = Append(s, e)[i]
    BY <1>1, <1>2
<1> QED BY <1>1, <1>2, <1>3, SeqEqual

\* A sequence given by its elements has the tail given by theirs.
LEMMA TailByElements ==
    ASSUME NEW S, NEW s \in Seq(S), NEW n \in Nat, n + 1 = Len(s),
           NEW t \in [1..n -> S],
           \A i \in 1..n : t[i] = s[i + 1]
    PROVE  t = Tail(s)
<1>1. t \in Seq(S) /\ Len(t) = n
    OBVIOUS
<1>2. /\ Tail(s) \in Seq(S) /\ Len(Tail(s)) = n
      /\ \A i \in 1..n : Tail(s)[i] = s[i + 1]
  <2>1. s # <<>>
      OBVIOUS
  <2> QED BY <2>1, HeadTailProperties
<1>3. \A i \in 1..Len(t) : t[i] = Tail(s)[i]
    BY <1>1, <1>2
<1> QED BY <1>1, <1>2, <1>3, SeqEqual

\* The number of values between the cursors is at most DEPTH.
LEMMA LengthType ==
    ASSUME CursorInv
    PROVE  Length \in 0..DEPTH
BY DistanceType, DepthAssumption DEF CursorInv, CursorTypeOK, Length

\* The contents are a sequence as long as the cursors are apart.
LEMMA ContentsLen ==
    ASSUME CursorInv, ValueInv
    PROVE  /\ Len(Contents) = Length
           /\ \A i \in 1..Length : Contents[i] = values[(consumer + i - 1) % DEPTH]
BY LengthType, DepthAssumption DEF ValueInv, Contents

\* A cell write leaves the queued cells alone.
LEMMA PermitCellFree ==
    ASSUME CursorInv, ppc # "idle",
           NEW i \in 0..(Length - 1)
    PROVE  (consumer + i) % DEPTH # permit % DEPTH
<1>1. Length \in 0..(DEPTH - 1) /\ permit = producer
    BY LengthType, DistanceType, DepthAssumption DEF CursorInv, CursorTypeOK, Length
<1>2. (consumer + Length) % DEPTH = producer % DEPTH
    BY <1>1, CellEnd, DepthAssumption DEF CursorInv, CursorTypeOK, Length
<1>3. consumer \in Cursors /\ i \in 0..(DEPTH - 1) /\ i # Length
    BY <1>1, DepthAssumption DEF CursorInv, CursorTypeOK
<1> QED BY <1>1, <1>2, <1>3, CellDistinct

\* A write under a permit changes no value between the cursors (send, affine_spsc.rs:279).
LEMMA WriteContents ==
    ASSUME CursorInv, ValueInv, NEW v \in Values, Write(v)
    PROVE  Contents' = Contents /\ values'[permit % DEPTH] = v
<1>1. Length' = Length /\ consumer' = consumer /\ consumer \in Cursors /\ permit \in Cursors
    BY DEF Write, Length, CursorInv, CursorTypeOK, consumerVars
<1>2. values' = [values EXCEPT ![permit % DEPTH] = v] /\ ppc # "idle"
    BY DEF Write
<1>3. permit % DEPTH \in Cells
    BY <1>1, IndexInCells, DepthAssumption DEF Cursors
<1>4. \A i \in 1..Length : values'[(consumer + i - 1) % DEPTH] = values[(consumer + i - 1) % DEPTH]
  <2> TAKE i \in 1..Length
  <2>1. i - 1 \in 0..(Length - 1) /\ consumer + (i - 1) = consumer + i - 1
      BY LengthType, <1>1, DepthAssumption DEF Cursors
  <2>2. (consumer + i - 1) % DEPTH # permit % DEPTH
      BY <2>1, <1>2, PermitCellFree
  <2>3. consumer + i - 1 \in Nat
      BY LengthType, <1>1, DepthAssumption DEF Cursors
  <2>4. (consumer + i - 1) % DEPTH \in Cells
      BY <2>3, IndexInCells
  <2> QED BY <1>2, <2>2, <2>4 DEF ValueInv, TypeOK
<1> QED BY <1>1, <1>2, <1>3, <1>4 DEF Contents, ValueInv, TypeOK

\* The store of the producer cursor appends the written cell.
LEMMA PublishContents ==
    ASSUME CursorInv, ValueInv, Publish
    PROVE  /\ Contents' = Append(Contents, values[permit % DEPTH])
           /\ Length' = Length + 1 /\ Length < DEPTH
<1>1. /\ permit = producer /\ producer \in Cursors /\ consumer \in Cursors
      /\ producer' = advance(producer) /\ consumer' = consumer /\ values' = values
    BY DEF Publish, CursorInv, CursorTypeOK, consumerVars
<1>2. Length \in 0..(DEPTH - 1)
    BY LengthType, DistanceType, DepthAssumption
       DEF Publish, CursorInv, CursorTypeOK, Length
<1>3. Length' = Length + 1
    BY <1>1, <1>2, AdvanceFar, DepthAssumption DEF Length
<1>4. (consumer + Length) % DEPTH = permit % DEPTH
    BY <1>1, <1>2, CellEnd, DepthAssumption DEF Length
<1>5. Len(Contents) = Length
    BY ContentsLen
<1>6. Contents' = [i \in 1..(Length + 1) |-> values[(consumer + i - 1) % DEPTH]]
    BY <1>1, <1>3 DEF Contents
<1>7. values[permit % DEPTH] = values[(consumer + (Length + 1) - 1) % DEPTH]
    BY <1>1, <1>2, <1>4, DepthAssumption DEF Cursors
<1>8. /\ Contents \in Seq(Values) /\ values[permit % DEPTH] \in Values
      /\ \A i \in 1..Length : Contents[i] = values[(consumer + i - 1) % DEPTH]
    BY ContentsLen DEF ValueInv, Publish
<1>9. \A i \in 1..Length : Contents[i] \in Values
    BY <1>5, <1>8
<1>10. /\ Contents' \in [1..(Length + 1) -> Values]
       /\ \A i \in 1..Length : Contents'[i] = Contents[i]
       /\ Contents'[Length + 1] = values[permit % DEPTH]
  <2> DEFINE cell(i) == values[(consumer + i - 1) % DEPTH]
  <2>1. \A i \in 1..Length : cell(i) = Contents[i]
      BY <1>8
  <2>2. cell(Length + 1) = values[permit % DEPTH]
      BY <1>7
  <2>3. Contents' = [i \in 1..(Length + 1) |-> cell(i)]
      BY <1>6
  <2> HIDE DEF cell
  <2>4. \A i \in 1..(Length + 1) : i \in 1..Length \/ i = Length + 1
      BY <1>2, DepthAssumption
  <2>5. \A i \in 1..(Length + 1) : cell(i) \in Values
      BY <2>1, <2>2, <2>4, <1>8, <1>9
  <2> QED BY <2>1, <2>2, <2>3, <2>5, <1>2, DepthAssumption
<1>11. Contents' = Append(Contents, values[permit % DEPTH])
    BY <1>2, <1>5, <1>8, <1>10, AppendByElements
<1> QED BY <1>2, <1>3, <1>11, DepthAssumption

\* The store of the consumer cursor removes the head, which was moved out.
LEMMA ReturnContents ==
    ASSUME CursorInv, ValueInv, Return
    PROVE  /\ Contents # <<>>
           /\ Contents' = Tail(Contents)
           /\ taken = Head(Contents)
           /\ Length' = Length - 1 /\ Length > 0
<1>1. /\ producer \in Cursors /\ consumer \in Cursors /\ seenProducer \in Cursors
      /\ consumer # seenProducer
      /\ consumer' = advance(consumer) /\ producer' = producer /\ values' = values
    BY DEF Return, CursorInv, CursorTypeOK, producerVars
<1>2. Length \in 1..DEPTH
    BY <1>1, LengthType, DistanceType, DepthAssumption DEF CursorInv, Length
<1>3. consumer # producer
    BY <1>1, <1>2, DistanceType DEF Length
<1>4. Length' = Length - 1
    BY <1>1, <1>3, AdvanceNear DEF Length
<1>5. /\ Len(Contents) = Length
      /\ \A i \in 1..Length : Contents[i] = values[(consumer + i - 1) % DEPTH]
    BY ContentsLen
<1>6. Contents # <<>> /\ Contents \in Seq(Values)
    BY <1>2, <1>5 DEF ValueInv
<1>7. taken = Head(Contents)
  <2>1. taken = values[consumer % DEPTH]
      BY DEF Return, ValueInv
  <2>2. Contents[1] = values[consumer % DEPTH]
    <3>1. consumer + 1 - 1 = consumer
        BY <1>1, DepthAssumption DEF Cursors
    <3> QED BY <3>1, <1>2, <1>5
  <2> QED BY <2>1, <2>2, <1>6
<1>8. Contents' = [i \in 1..(Length - 1) |-> values[(advance(consumer) + i - 1) % DEPTH]]
    BY <1>1, <1>4 DEF Contents
<1>9. \A i \in 1..(Length - 1) :
         values[(advance(consumer) + i - 1) % DEPTH] = Contents[i + 1]
  <2> TAKE i \in 1..(Length - 1)
  <2>1. i - 1 \in 0..(DEPTH - 1) /\ i + 1 \in 1..Length
      BY <1>2, DepthAssumption
  <2>2. (advance(consumer) + (i - 1)) % DEPTH = (consumer + ((i - 1) + 1)) % DEPTH
      BY <1>1, <2>1, CellAdvance
  <2>3. /\ advance(consumer) + (i - 1) = advance(consumer) + i - 1
        /\ consumer + ((i - 1) + 1) = consumer + (i + 1) - 1
      BY <1>1, <2>1, AdvanceType, DepthAssumption DEF Cursors
  <2> QED BY <1>5, <2>1, <2>2, <2>3
<1>10. \A i \in 1..(Length - 1) : Contents[i + 1] \in Values
    BY <1>2, <1>5, <1>6
<1>11. /\ Contents' \in [1..(Length - 1) -> Values]
       /\ \A i \in 1..(Length - 1) : Contents'[i] = Contents[i + 1]
    BY <1>8, <1>9, <1>10
<1>12. Length - 1 \in Nat /\ (Length - 1) + 1 = Len(Contents)
    BY <1>2, <1>5, DepthAssumption
<1>13. Contents' = Tail(Contents)
    BY <1>6, <1>11, <1>12, TailByElements
<1> QED BY <1>2, <1>4, <1>6, <1>7, <1>13

-----------------------------------------------------------------------------
(* Every step keeps the invariant of the values.                            *)

Queued == {Contents[i] : i \in 1..Length}

\* Steps that touch neither a cell nor a published cursor nor an owner.
Quiet ==
    /\ UNCHANGED <<values, producer, consumer, outside, received, dropped>>
    /\ ppc' = "written" => ppc = "written" /\ permit' = permit
    /\ ppc = "written" => ppc' = "written" /\ permit' = permit

\* The steps that neither move a value nor a cursor.
LEMMA QuietSteps ==
    ASSUME Reserve \/ Refuse \/ DropPermit \/ SenderLen \/ Claim \/ ReceiverLen
             \/ Read \/ Split \/ UNCHANGED vars
    PROVE  Quiet
BY DEF Quiet, Reserve, Refuse, DropPermit, SenderLen, Claim, ReceiverLen, Read, Split,
       vars, producerVars, consumerVars

\* Such steps keep the values where they are.
LEMMA QuietAffine ==
    ASSUME Quiet
    PROVE  /\ Contents' = Contents /\ Length' = Length
           /\ Affine => Affine'
<1>1. Length' = Length
    BY DEF Quiet, Length
<1>2. Contents' = Contents
    BY <1>1 DEF Quiet, Contents
<1>3. Inside' = Inside
    BY <1>1, <1>2 DEF Quiet, Inside
<1> QED BY <1>1, <1>2, <1>3 DEF Quiet, Affine

\* A new queue satisfies the value invariant (new, affine_spsc.rs:73).
LEMMA InitValueInv == Init => ValueInv
<1> SUFFICES ASSUME Init PROVE ValueInv
    OBVIOUS
<1>1. Length = 0
    BY DEF Init, Length, cursor_distance
<1>2. Contents = <<>>
    BY <1>1 DEF Contents
<1>3. Inside = {}
    BY <1>1 DEF Inside, Init
<1>4. TypeOK
    BY DepthAssumption DEF Init, TypeOK, Cursors, Cells
<1>5. Affine
    BY <1>1, <1>3 DEF Init, Affine
<1> QED BY <1>2, <1>4, <1>5 DEF ValueInv, Init

\* Publishing moves the written value from its cell into the queue.
LEMMA PublishAffine ==
    ASSUME CursorInv, ValueInv, Publish
    PROVE  Affine'
<1> DEFINE w == values[permit % DEPTH]
<1>1. /\ Contents' = Append(Contents, w)
      /\ Length' = Length + 1 /\ Len(Contents) = Length /\ Length \in Nat
    BY PublishContents, ContentsLen, LengthType, DepthAssumption
<1>2. /\ \A i \in 1..Length : Contents'[i] = Contents[i]
      /\ Contents'[Length + 1] = w
  <2>1. Contents \in Seq(Values) /\ w \in Values
      BY DEF ValueInv, Publish
  <2> QED BY <1>1, <2>1, AppendProperties
<1>3. /\ ppc = "written" /\ ppc' = "idle"
      /\ UNCHANGED <<outside, received, dropped>>
    BY DEF Publish
<1>4. Inside' = Inside
  <2>1. Inside = {Contents[i] : i \in 1..Length} \union {w}
      BY <1>3 DEF Inside
  <2>2. Inside' = {Contents'[i] : i \in 1..(Length + 1)}
      BY <1>1, <1>3 DEF Inside
  <2>3. \A i \in 1..(Length + 1) : i \in 1..Length \/ i = Length + 1
      BY <1>1
  <2>4. 1..Length \subseteq 1..(Length + 1) /\ Length + 1 \in 1..(Length + 1)
      BY <1>1
  <2> HIDE DEF w
  <2> QED BY <2>1, <2>2, <2>3, <2>4, <1>2, Zenon
<1>5. \A i, j \in 1..(Length + 1) : Contents'[i] = Contents'[j] => i = j
  <2>1. /\ \A i, j \in 1..Length : Contents[i] = Contents[j] => i = j
        /\ \A i \in 1..Length : Contents[i] # w
      BY <1>3 DEF ValueInv, Affine
  <2>2. \A i \in 1..(Length + 1) : i \in 1..Length \/ i = Length + 1
      BY <1>1
  <2> HIDE DEF w
  <2> QED BY <2>1, <2>2, <1>2
<1> QED BY <1>1, <1>3, <1>4, <1>5 DEF ValueInv, Affine

\* Returning moves the head from the queue to the receiver's caller.
LEMMA ReturnAffine ==
    ASSUME CursorInv, ValueInv, Return
    PROVE  Affine' /\ taken \in Values
<1>1. /\ Contents' = Tail(Contents) /\ taken = Head(Contents) /\ Contents # <<>>
      /\ Length' = Length - 1 /\ Len(Contents) = Length /\ Length \in Nat /\ Length > 0
      /\ Contents \in Seq(Values)
    BY ReturnContents, ContentsLen, LengthType, DepthAssumption DEF ValueInv
<1>2. /\ \A i \in 1..(Length - 1) : Contents'[i] = Contents[i + 1]
      /\ Contents[1] = taken
      /\ taken \in Values
    BY <1>1, HeadTailProperties
<1>3. /\ received' = received \union {taken}
      /\ UNCHANGED <<outside, dropped, ppc, permit, values>>
    BY DEF Return, producerVars
<1>4. /\ \A i, j \in 1..Length : Contents[i] = Contents[j] => i = j
      /\ ppc = "written" => \A i \in 1..Length : Contents[i] # values[permit % DEPTH]
      /\ outside \union Inside \union received \union dropped = Values
      /\ outside \intersect (Inside \union received \union dropped) = {}
      /\ Inside \intersect (received \union dropped) = {}
      /\ received \intersect dropped = {}
    BY DEF ValueInv, Affine
<1>5. Inside' = Inside \ {taken}
  <2> DEFINE W == IF ppc = "written" THEN {values[permit % DEPTH]} ELSE {}
  <2>1. Inside = Queued \union W
      BY DEF Inside, Queued
  <2>2. Inside' = {Contents[i + 1] : i \in 1..(Length - 1)} \union W
      BY <1>1, <1>2, <1>3 DEF Inside
  <2>3. taken \notin W
      BY <1>1, <1>2, <1>4
  <2> HIDE DEF W
  <2>4. \A i \in 1..(Length - 1) : i + 1 \in 1..Length /\ Contents[i + 1] # taken
      BY <1>1, <1>2, <1>4
  <2>5. \A i \in 1..Length : i = 1 \/ (i - 1 \in 1..(Length - 1) /\ (i - 1) + 1 = i)
      BY <1>1
  <2>6. {Contents[i + 1] : i \in 1..(Length - 1)} = Queued \ {taken}
      BY <1>2, <2>4, <2>5 DEF Queued
  <2> QED BY <2>1, <2>2, <2>3, <2>6
<1>6. taken \in Inside
    BY <1>1, <1>2 DEF Inside
<1>7. /\ \A i, j \in 1..(Length - 1) : Contents'[i] = Contents'[j] => i = j
      /\ ppc = "written" => \A i \in 1..(Length - 1) : Contents'[i] # values[permit % DEPTH]
  <2>1. \A i \in 1..(Length - 1) : i \in Int /\ i + 1 \in 1..Length
      BY <1>1
  <2> QED BY <2>1, <1>2, <1>4
<1> QED BY <1>1, <1>2, <1>3, <1>4, <1>5, <1>6, <1>7 DEF Affine

\* Writing moves the value from the sender's caller into the reserved cell.
LEMMA WriteAffine ==
    ASSUME CursorInv, ValueInv, NEW v \in Values, Write(v)
    PROVE  Affine'
<1>1. Contents' = Contents /\ values'[permit % DEPTH] = v
    BY WriteContents
<1>2. /\ Length' = Length /\ permit' = permit
      /\ ppc = "reserved" /\ ppc' = "written"
      /\ v \in outside /\ outside' = outside \ {v}
      /\ UNCHANGED <<received, dropped>>
    BY DEF Write, Length, consumerVars
<1>3. /\ Inside = Queued
      /\ Inside' = Queued \union {v}
    BY <1>1, <1>2 DEF Inside, Queued
<1>4. \A i \in 1..Length : Contents[i] # v
    BY <1>2, <1>3 DEF ValueInv, Affine, Queued
<1> QED BY <1>1, <1>2, <1>3, <1>4 DEF ValueInv, Affine

\* Dropping the queue destroys exactly what it holds.
LEMMA DropAffine ==
    ASSUME CursorInv, ValueInv, Drop
    PROVE  Affine' /\ Contents' = <<>> /\ Queued \subseteq Values
<1>1. /\ consumer' = producer' /\ producer' \in Cursors
      /\ ppc = "idle" /\ ppc' = "idle"
      /\ dropped' = dropped \union Queued
      /\ UNCHANGED <<outside, received>>
    BY DEF Drop, CursorInv, CursorTypeOK, Queued
<1>2. Length' = 0
    BY <1>1, DistanceType DEF Length
<1>3. Contents' = <<>>
    BY <1>2 DEF Contents
<1>4. Inside = Queued /\ Inside' = {}
    BY <1>1, <1>2 DEF Inside, Queued
<1>5. Affine'
    BY <1>1, <1>2, <1>4 DEF ValueInv, Affine
<1>6. Queued \subseteq Values
    BY <1>4 DEF ValueInv, Affine
<1> QED BY <1>3, <1>5, <1>6

\* New storage holds nothing, as the dropped one did.
LEMMA NewAffine ==
    ASSUME CursorInv, ValueInv, New
    PROVE  Affine' /\ Contents' = <<>> /\ Contents = <<>>
<1>1. /\ consumer = producer /\ producer \in Cursors
      /\ consumer' = 0 /\ producer' = 0
      /\ ppc = "idle" /\ ppc' = "idle"
      /\ UNCHANGED <<outside, received, dropped>>
    BY DEF New, CursorInv, CursorTypeOK
<1>2. Length = 0 /\ Length' = 0
    BY <1>1, DistanceType, DepthAssumption DEF Length, cursor_distance
<1>3. Contents' = <<>> /\ Contents = <<>>
    BY <1>2 DEF Contents
<1>4. Inside = {} /\ Inside' = {}
    BY <1>1, <1>2 DEF Inside
<1>5. Affine'
    BY <1>1, <1>2, <1>4 DEF ValueInv, Affine
<1> QED BY <1>3, <1>5

\* A received or destroyed value returns to the sender's caller.
LEMMA SupplyAffine ==
    ASSUME CursorInv, ValueInv, NEW v \in Values, Supply(v)
    PROVE  Affine' /\ Contents' = Contents
<1>1. UNCHANGED <<values, producer, consumer, ppc, permit>>
    BY DEF Supply, producerVars, consumerVars
<1>2. Length' = Length
    BY <1>1 DEF Length
<1>3. Contents' = Contents
    BY <1>1, <1>2 DEF Contents
<1>4. Inside' = Inside
    BY <1>1, <1>2, <1>3 DEF Inside
<1>5. /\ outside' \union Inside \union received' \union dropped' = Values
      /\ outside' \intersect (Inside \union received' \union dropped') = {}
      /\ Inside \intersect (received' \union dropped') = {}
      /\ received' \intersect dropped' = {}
  <2>1. /\ outside \union Inside \union received \union dropped = Values
        /\ outside \intersect (Inside \union received \union dropped) = {}
        /\ Inside \intersect (received \union dropped) = {}
        /\ received \intersect dropped = {}
      BY DEF ValueInv, Affine
  <2> QED BY <2>1 DEF Supply
<1>6. Affine'
    BY <1>1, <1>2, <1>3, <1>4, <1>5 DEF ValueInv, Affine
<1> QED BY <1>3, <1>6

\* Every step keeps the value invariant, one case per operation of the ring.
LEMMA NextValueInv == CursorInv /\ CursorInv' /\ ValueInv /\ [Next]_vars => ValueInv'
<1> SUFFICES ASSUME CursorInv, CursorInv', ValueInv, [Next]_vars
             PROVE  ValueInv'
    OBVIOUS
<1>0. /\ consumer % DEPTH \in Cells /\ permit % DEPTH \in Cells
  <2>1. consumer \in Nat /\ permit \in Nat
      BY DepthAssumption DEF CursorInv, CursorTypeOK, Cursors
  <2> QED BY <2>1, IndexInCells
<1>1. CASE Reserve \/ Refuse \/ DropPermit \/ SenderLen \/ Claim \/ ReceiverLen
             \/ Read \/ Split \/ UNCHANGED vars
  <2>1. Quiet
      BY <1>1, QuietSteps
  <2>2. Contents' = Contents /\ Affine'
      BY <2>1, QuietAffine DEF ValueInv
  <2>3. /\ taken' \in Values \union {NoValue}
        /\ cpc' = "read" => taken' = values[consumer % DEPTH]
      BY <1>0, <1>1 DEF Reserve, Refuse, DropPermit, SenderLen, Claim, ReceiverLen, Read,
                        Split, vars, producerVars, consumerVars, ValueInv, TypeOK
  <2> QED BY <2>1, <2>2, <2>3 DEF Quiet, ValueInv, TypeOK, CursorInv, CursorTypeOK
<1>2. ASSUME NEW v \in Values, Write(v)
      PROVE  ValueInv'
  <2>1. Contents' = Contents /\ values'[permit % DEPTH] = v /\ Affine'
      BY <1>2, WriteContents, WriteAffine
  <2>2. cpc' = "read" => taken' = values'[consumer' % DEPTH]
    <3>1. CASE cpc = "read"
      <4>1. Length \in Nat /\ 0 \in 0..(Length - 1)
        <5>1. consumer # producer
            BY <3>1, DistanceType DEF CursorInv, CursorTypeOK
        <5> QED BY <5>1, LengthType, DistanceType, DepthAssumption
                DEF CursorInv, CursorTypeOK, Length
      <4>2. (consumer + 0) % DEPTH # permit % DEPTH
          BY <1>2, <4>1, PermitCellFree DEF Write
      <4>3. consumer + 0 = consumer
          BY DepthAssumption DEF CursorInv, CursorTypeOK, Cursors
      <4> QED BY <1>0, <1>2, <3>1, <4>2, <4>3 DEF Write, ValueInv, TypeOK, consumerVars
    <3> QED BY <1>2, <3>1 DEF Write, consumerVars
  <2>3. TypeOK'
      BY <1>0, <1>2 DEF Write, ValueInv, TypeOK, consumerVars
  <2> QED BY <1>2, <2>1, <2>2, <2>3 DEF Write, ValueInv
<1>3. CASE Publish
  <2>1. Contents' \in Seq(Values)
      BY <1>3, PublishContents, AppendProperties DEF ValueInv, Publish
  <2>2. TypeOK'
      BY <1>3 DEF Publish, ValueInv, TypeOK, CursorInv, CursorTypeOK, consumerVars
  <2> QED BY <1>3, <2>1, <2>2, PublishAffine DEF Publish, ValueInv, consumerVars
<1>4. CASE Return
  <2>1. Contents' \in Seq(Values) /\ Affine' /\ taken \in Values
      BY <1>4, ReturnContents, ReturnAffine, HeadTailProperties DEF ValueInv
  <2>2. TypeOK'
      BY <1>4, <2>1 DEF Return, ValueInv, TypeOK, CursorInv, CursorTypeOK, producerVars
  <2> QED BY <1>4, <2>1, <2>2 DEF Return, ValueInv, producerVars
<1>5. CASE Drop
  <2>1. Affine' /\ Contents' = <<>> /\ Queued \subseteq Values
      BY <1>5, DropAffine
  <2>2. TypeOK'
      BY <1>5, <2>1 DEF Drop, Queued, ValueInv, TypeOK, CursorInv, CursorTypeOK
  <2>3. ppc' = "idle" /\ cpc' = "idle" /\ <<>> \in Seq(Values)
      BY <1>5 DEF Drop
  <2> QED BY <2>1, <2>2, <2>3 DEF ValueInv
<1>6. CASE New
  <2>1. Affine' /\ Contents' = <<>>
      BY <1>6, NewAffine
  <2>2. TypeOK'
      BY <1>6 DEF New, ValueInv, TypeOK, CursorInv, CursorTypeOK
  <2>3. ppc' # "written" /\ cpc' # "read" /\ <<>> \in Seq(Values)
      BY <1>6 DEF New, CursorInv
  <2> QED BY <2>1, <2>2, <2>3 DEF ValueInv
<1>7. ASSUME NEW v \in Values, Supply(v)
      PROVE  ValueInv'
  <2>1. Affine' /\ Contents' = Contents
      BY <1>7, SupplyAffine
  <2> QED BY <1>7, <2>1 DEF Supply, ValueInv, TypeOK, producerVars, consumerVars
<1> QED BY <1>1, <1>2, <1>3, <1>4, <1>5, <1>6, <1>7 DEF Next, Producer, Consumer, Owner

-----------------------------------------------------------------------------
(* Theorems.                                                                *)

\* The invariants hold in every reachable state.
THEOREM Invariance == Spec => [](CursorInv /\ ValueInv)
<1>1. Init => CursorInv /\ ValueInv
    BY InitCursorInv, InitValueInv
<1>2. CursorInv /\ ValueInv /\ [Next]_vars => (CursorInv /\ ValueInv)'
    BY NextCursorInv, NextValueInv
<1> QED BY <1>1, <1>2, PTL DEF Spec

\* Type correctness of the ring (affine_spsc.rs:57).
THEOREM TypeCorrect == Spec => []TypeOK
<1>1. ValueInv => TypeOK
    BY DEF ValueInv
<1> QED BY <1>1, Invariance, PTL

\* No step of the producer touches a cell the consumer may read, for every
\* DEPTH and every interleaving with stale loads: the SAFETY argument of the
\* ring's Sync implementation (affine_spsc.rs:67).
THEOREM RaceFree == Spec => []NoDataRace
<1>1. CursorInv => NoDataRace
    BY PermitCellFree DEF NoDataRace
<1> QED BY <1>1, Invariance, PTL

\* A value put into the ring has one owner at a time until the end: nothing
\* is duplicated, lost or overwritten (affine_spsc.rs:132-199).
THEOREM SingleOwner == Spec => []Affine
<1>1. ValueInv => Affine
    BY DEF ValueInv
<1> QED BY <1>1, Invariance, PTL

\* The lengths both sides compute from stale cursors err on the safe side
\* (affine_spsc.rs:110, :243, :303).
THEOREM ConservativeLengths == Spec => []LenIsConservative
<1>1. ASSUME CursorInv
      PROVE  LenIsConservative
  <2>1. Distances
      BY <1>1, DistanceType DEF CursorInv, CursorTypeOK, Distances
  <2>2. cursor_distance(seenConsumer, producer)
          = cursor_distance(seenConsumer, consumer) + cursor_distance(consumer, producer)
    <3>1. cursor_distance(seenConsumer, consumer) + cursor_distance(consumer, producer)
            < 2 * DEPTH
        BY <1>1, <2>1, DepthAssumption DEF CursorInv, Distances
    <3> QED BY <1>1, <3>1, Chain DEF CursorInv, CursorTypeOK
  <2> QED BY <1>1, <2>1, <2>2, DepthAssumption
          DEF CursorInv, Distances, LenIsConservative, Length
<1> QED BY <1>1, Invariance, PTL

\* The ring implements the bounded FIFO queue: each step is a step of the
\* abstract queue or changes nothing of it.
THEOREM Refinement == Spec => ImplementsFifo
<1> DEFINE Written == IF ppc = "written" THEN {values[permit % DEPTH]} ELSE {}
<1>1. Init => Fifo!Init
  <2> SUFFICES ASSUME Init PROVE Fifo!Init
      OBVIOUS
  <2>1. Length = 0
      BY DEF Init, Length, cursor_distance
  <2>2. Contents = <<>>
      BY <2>1 DEF Contents
  <2> QED BY <2>2 DEF Init, Fifo!Init
<1>2. CursorInv /\ ValueInv /\ [Next]_vars => [Fifo!Next]_Fifo!vars
  <2> SUFFICES ASSUME CursorInv, ValueInv, [Next]_vars
               PROVE  [Fifo!Next]_Fifo!vars
      OBVIOUS
  <2>1. CASE Reserve \/ Refuse \/ DropPermit \/ SenderLen \/ Claim \/ ReceiverLen
               \/ Read \/ Split \/ UNCHANGED vars
    <3>1. Quiet
        BY <2>1, QuietSteps
    <3>2. Contents' = Contents
        BY <3>1, QuietAffine
    <3> QED BY <3>1, <3>2 DEF Quiet, Fifo!vars
  <2>2. ASSUME NEW v \in Values, Write(v)
        PROVE  [Fifo!Next]_Fifo!vars
    <3>1. Contents' = Contents /\ values'[permit % DEPTH] = v
        BY <2>2, WriteContents
    <3>2. outside' \union Written' = outside \union Written
        BY <2>2, <3>1 DEF Write
    <3> QED BY <2>2, <3>1, <3>2 DEF Write, Fifo!vars
  <2>3. CASE Publish
    <3> DEFINE w == values[permit % DEPTH]
    <3>1. /\ Contents' = Append(Contents, w) /\ Length < DEPTH
          /\ Len(Contents) = Length
        BY <2>3, PublishContents, ContentsLen
    <3>2. w \in Values /\ Written = {w} /\ Written' = {}
        BY <2>3 DEF Publish, ValueInv
    <3>3. w \notin outside
        BY <2>3 DEF Publish, ValueInv, Affine, Inside
    <3>4. Fifo!Put(w)
        BY <2>3, <3>1, <3>2, <3>3 DEF Publish, Fifo!Put
    <3> QED BY <3>2, <3>4 DEF Fifo!Next
  <2>4. CASE Return
    <3>1. Contents # <<>> /\ Contents' = Tail(Contents) /\ taken = Head(Contents)
        BY <2>4, ReturnContents
    <3>2. Fifo!Get
        BY <2>4, <3>1 DEF Return, producerVars, Fifo!Get
    <3> QED BY <3>2 DEF Fifo!Next
  <2>5. CASE Drop
    <3>1. Contents' = <<>> /\ Len(Contents) = Length
        BY <2>5, DropAffine, ContentsLen
    <3>2. Fifo!Discard
        BY <2>5, <3>1 DEF Drop, Fifo!Discard
    <3> QED BY <3>2 DEF Fifo!Next
  <2>6. CASE New
    <3>1. Contents' = <<>> /\ Contents = <<>>
        BY <2>6, NewAffine
    <3>2. ppc = "idle" /\ ppc' = "idle"
        BY <2>6 DEF New, CursorInv
    <3> QED BY <2>6, <3>1, <3>2 DEF New, Fifo!vars
  <2>7. ASSUME NEW v \in Values, Supply(v)
        PROVE  [Fifo!Next]_Fifo!vars
    <3>1. Contents' = Contents
        BY <2>7, SupplyAffine
    <3>2. Written' = Written
        BY <2>7 DEF Supply, producerVars
    <3>3. Fifo!Supply(v)
        BY <2>7, <3>1, <3>2 DEF Supply, Fifo!Supply
    <3> QED BY <3>3 DEF Fifo!Next
  <2> QED BY <2>1, <2>2, <2>3, <2>4, <2>5, <2>6, <2>7 DEF Next, Producer, Consumer, Owner
<1> QED BY <1>1, <1>2, Invariance, PTL DEF Spec, ImplementsFifo, Fifo!Spec

-----------------------------------------------------------------------------
(* MsduQueue: no wake-up is lost, and the queue restricts its ring.         *)

(***************************************************************************)
(* The invariant behind the wake-ups.  A side that is not between its      *)
(* store and its wake has released its current cursor to the other side's  *)
(* waker; a side that is polling or parked is registered or has been woken *)
(* since, and as long as it has not been woken it has seen everything the  *)
(* other side released.  WaitingIsSound is not inductive without it: what  *)
(* parks a task is a load several steps back.                              *)
(***************************************************************************)
TaskTypeOK ==
    /\ stask \in {"run", "polling", "parked", "waking"}
    /\ rtask \in {"run", "polling", "parked", "ready", "waking"}
    /\ sscheduled \in BOOLEAN /\ swaker \in BOOLEAN
    /\ rscheduled \in BOOLEAN /\ rwaker \in BOOLEAN

Calls ==
    /\ alive = TRUE
    /\ ppc # "idle" => stask = "run"
    /\ cpc # "idle" => rtask = "run"

SenderInv ==
    /\ rtask # "waking" => sreleased = consumer
    /\ stask \in {"polling", "parked"} =>
         /\ swaker \/ sscheduled
         /\ ~sscheduled /\ rtask # "waking" => seenConsumer = consumer
    /\ stask = "parked" => cursor_distance(seenConsumer, producer) >= DEPTH

ReceiverInv ==
    /\ stask # "waking" => rreleased = producer
    /\ rtask \in {"polling", "parked"} =>
         /\ rwaker \/ rscheduled
         /\ ~rscheduled /\ stask # "waking" => seenProducer = producer
    /\ rtask = "parked" => seenProducer = consumer
    /\ rtask = "ready" => seenProducer # consumer

WakeInv == TaskTypeOK /\ Calls /\ SenderInv /\ ReceiverInv

\* A load of a cursor after the current one was released returns it.
LEMMA LaterIsCurrent ==
    ASSUME NEW seen \in Cursors, NEW current \in Cursors
    PROVE  /\ Later(seen, current, current) = current
           /\ Views(current, current) = {current}
<1>1. current \in Views(seen, current)
    BY DistanceType DEF Views, Cursors
<1>2. Views(current, current) = {current}
    <2>1. cursor_distance(current, current) = 0
        BY DistanceType
    <2>2. \A c \in Cursors : cursor_distance(current, c) <= 0 <=> c = current
        BY DistanceType, DepthAssumption
    <2> QED BY <2>1, <2>2 DEF Views
<1> QED BY <1>1, <1>2 DEF Later

\* Whatever was released, a load returns a cursor that coherence allows.
LEMMA LaterIsView ==
    ASSUME NEW seen \in Cursors, NEW current \in Cursors, NEW released
    PROVE  Later(seen, released, current) \in Views(seen, current)
<1>1. seen \in Views(seen, current)
    BY DistanceType, DepthAssumption DEF Views, Cursors
<1> QED BY <1>1 DEF Later

\* Every step of the queue with wakers is a step of the ring.
LEMMA MsduStep == CursorInv /\ Calls /\ [MsduNext]_msduVars => [Next]_vars
<1> SUFFICES ASSUME CursorInv, Calls, [MsduNext]_msduVars PROVE Next \/ UNCHANGED vars
    OBVIOUS
<1>1. CASE RegisterSender
    <2>1. seenConsumer' \in Views(seenConsumer, consumer)
        BY <1>1, LaterIsView DEF RegisterSender, CursorInv, CursorTypeOK
    <2>2. SenderLen
        BY <1>1, <2>1 DEF RegisterSender, SenderLen, Calls
    <2> QED BY <2>2 DEF Next, Producer
<1>2. CASE RegisterReceiver
    <2>1. seenProducer' \in Views(seenProducer, producer)
        BY <1>2, LaterIsView DEF RegisterReceiver, CursorInv, CursorTypeOK
    <2>2. ReceiverLen
        BY <1>2, <2>1 DEF RegisterReceiver, ReceiverLen, Calls
    <2> QED BY <2>2 DEF Next, Consumer
<1>3. CASE SenderReserve \/ SenderRefuse \/ SenderDropPermit \/ SenderWrite \/ SenderPublish
    BY <1>3 DEF SenderReserve, SenderRefuse, SenderDropPermit, SenderWrite, SenderPublish,
                Next, Producer
<1>4. CASE ReceiverCheck \/ ReceiverClaim \/ ReceiverEmpty \/ ReceiverRead \/ ReceiverReturn
    BY <1>4 DEF ReceiverCheck, ReceiverClaim, ReceiverEmpty, ReceiverRead, ReceiverReturn,
                Next, Consumer
<1>5. CASE CancelSend \/ WakeReceiver \/ CancelReady \/ WakeSender
    BY <1>5 DEF CancelSend, WakeReceiver, CancelReady, WakeSender
<1>6. CASE MsduSplit \/ MsduSupply
    BY <1>6 DEF MsduSplit, MsduSupply, Next, Owner
<1>7. CASE UNCHANGED msduVars
    BY <1>7 DEF msduVars
<1> QED BY <1>1, <1>2, <1>3, <1>4, <1>5, <1>6, <1>7 DEF MsduNext, Sender, Receiver

\* A new queue, no task waiting (MsduQueue::new, msdu_queue.rs).
LEMMA InitWakeInv == MsduInit => WakeInv
BY DepthAssumption, Zenon DEF MsduInit, Init, WakeInv, TaskTypeOK, Calls, SenderInv, ReceiverInv

\* No step of the sender's task loses a wake-up: the register precedes the
\* load, the store of the cursor precedes the wake.
LEMMA SenderWakeInv ==
    ASSUME CursorInv, WakeInv, Sender
    PROVE  WakeInv'
<1> USE DEF WakeInv, TaskTypeOK, Calls, CursorInv, CursorTypeOK
<1>1. CASE RegisterSender
    <2>1. rtask # "waking" => seenConsumer' = consumer
        BY <1>1, LaterIsCurrent DEF RegisterSender, SenderInv
    <2>2. UNCHANGED <<producer, consumerVars, receiverTask, alive, ppc>>
        BY <1>1 DEF RegisterSender
    <2>3. SenderInv'
        BY <1>1, <2>1, <2>2 DEF RegisterSender, SenderInv, consumerVars, receiverTask
    <2>4. ReceiverInv'
        BY <1>1, <2>2 DEF RegisterSender, ReceiverInv, consumerVars, receiverTask
    <2> QED BY <1>1, <2>2, <2>3, <2>4, Zenon DEF RegisterSender, consumerVars, receiverTask
<1>2. CASE SenderReserve
    BY <1>2 DEF SenderReserve, Reserve, SenderInv, ReceiverInv, consumerVars, receiverTask
<1>3. CASE SenderRefuse
    <2>1. PICK view \in Views(seenConsumer, consumer) :
             cursor_distance(view, producer) >= DEPTH /\ seenConsumer' = view
        BY <1>3 DEF SenderRefuse, Refuse
    <2>2. UNCHANGED <<alive, producer, ppc, consumerVars, receiverTask,
                      sscheduled, swaker, sreleased>>
        BY <1>3 DEF SenderRefuse, Refuse
    <2>3. /\ stask = "run" => stask' = "run"
          /\ stask = "polling" => stask' = "parked"
          /\ stask \in {"run", "polling"}
        BY <1>3 DEF SenderRefuse
    <2>4. seenConsumer = consumer => view = consumer
        BY LaterIsCurrent
    <2>5. SenderInv'
        BY <2>1, <2>2, <2>3, <2>4 DEF SenderInv, consumerVars, receiverTask
    <2>6. ReceiverInv'
        BY <2>2, <2>3 DEF ReceiverInv, consumerVars, receiverTask
    <2> QED BY <2>2, <2>3, <2>5, <2>6 DEF consumerVars, receiverTask
<1>4. CASE CancelSend
    BY <1>4 DEF CancelSend, SenderInv, ReceiverInv, vars, producerVars, consumerVars,
                receiverTask
<1>5. CASE SenderDropPermit
    BY <1>5 DEF SenderDropPermit, DropPermit, SenderInv, ReceiverInv, consumerVars,
                senderTask, receiverTask
<1>6. CASE SenderWrite
    BY <1>6 DEF SenderWrite, Write, SenderInv, ReceiverInv, consumerVars, senderTask,
                receiverTask
<1>7. CASE SenderPublish
    BY <1>7 DEF SenderPublish, Publish, SenderInv, ReceiverInv, consumerVars, receiverTask
<1>8. CASE WakeReceiver
    BY <1>8, Zenon DEF WakeReceiver, SenderInv, ReceiverInv, vars, producerVars, consumerVars
<1> QED BY <1>1, <1>2, <1>3, <1>4, <1>5, <1>6, <1>7, <1>8, Zenon DEF Sender

\* Nor does a step of the receiver's.
LEMMA ReceiverWakeInv ==
    ASSUME CursorInv, WakeInv, Receiver
    PROVE  WakeInv'
<1> USE DEF WakeInv, TaskTypeOK, Calls, CursorInv, CursorTypeOK
<1>1. CASE RegisterReceiver
    <2>1. stask # "waking" => seenProducer' = producer
        BY <1>1, LaterIsCurrent DEF RegisterReceiver, ReceiverInv
    <2>2. UNCHANGED <<consumer, producerVars, senderTask, alive, cpc>>
        BY <1>1 DEF RegisterReceiver
    <2>3. ReceiverInv'
        BY <1>1, <2>1, <2>2 DEF RegisterReceiver, ReceiverInv, producerVars, senderTask
    <2>4. SenderInv'
        BY <1>1, <2>2 DEF RegisterReceiver, SenderInv, producerVars, senderTask
    <2> QED BY <1>1, <2>2, <2>3, <2>4, Zenon DEF RegisterReceiver, producerVars, senderTask
<1>2. CASE ReceiverCheck
    <2>1. /\ seenProducer' \in Views(seenProducer, producer) /\ rtask = "polling"
          /\ seenProducer' = consumer => rtask' = "parked"
          /\ seenProducer' # consumer => rtask' = "ready"
        BY <1>2 DEF ReceiverCheck, ReceiverLen
    <2>2. UNCHANGED <<alive, producerVars, consumer, cpc, senderTask, rscheduled,
                      rwaker, rreleased>>
        BY <1>2 DEF ReceiverCheck, ReceiverLen
    <2>3. seenProducer = producer => seenProducer' = producer
        BY <2>1, LaterIsCurrent
    <2>4. ReceiverInv'
        BY <2>1, <2>2, <2>3, Zenon DEF ReceiverInv, producerVars, senderTask
    <2>5. SenderInv'
        BY <2>1, <2>2 DEF SenderInv, producerVars, senderTask
    <2> QED BY <2>1, <2>2, <2>4, <2>5 DEF producerVars, senderTask
<1>3. CASE CancelReady
    BY <1>3, Zenon DEF CancelReady, SenderInv, ReceiverInv, vars, producerVars, consumerVars,
                senderTask
<1>4. CASE ReceiverClaim
    BY <1>4 DEF ReceiverClaim, Claim, SenderInv, ReceiverInv, producerVars, senderTask
<1>5. CASE ReceiverEmpty
    BY <1>5, Zenon DEF ReceiverEmpty, ReceiverLen, SenderInv, ReceiverInv, producerVars, senderTask
<1>6. CASE ReceiverRead
    BY <1>6, Zenon DEF ReceiverRead, Read, SenderInv, ReceiverInv, producerVars, senderTask,
                receiverTask
<1>7. CASE ReceiverReturn
    BY <1>7 DEF ReceiverReturn, Return, SenderInv, ReceiverInv, producerVars, senderTask
<1>8. CASE WakeSender
    BY <1>8, Zenon DEF WakeSender, SenderInv, ReceiverInv, vars, producerVars, consumerVars
<1> QED BY <1>1, <1>2, <1>3, <1>4, <1>5, <1>6, <1>7, <1>8, Zenon DEF Receiver

\* Every step keeps the invariant of the wake-ups.
LEMMA NextWakeInv == CursorInv /\ WakeInv /\ [MsduNext]_msduVars => WakeInv'
<1> SUFFICES ASSUME CursorInv, WakeInv, [MsduNext]_msduVars PROVE WakeInv'
    OBVIOUS
<1> USE DEF WakeInv, TaskTypeOK, Calls
<1>1. CASE MsduSplit
    BY <1>1 DEF MsduSplit, Split, SenderInv, ReceiverInv, senderTask, receiverTask
<1>2. CASE MsduSupply
    BY <1>2, Zenon DEF MsduSupply, Supply, SenderInv, ReceiverInv, producerVars, consumerVars,
                senderTask, receiverTask
<1>3. CASE UNCHANGED msduVars
    BY <1>3, Zenon DEF msduVars, vars, SenderInv, ReceiverInv, producerVars, consumerVars,
                senderTask, receiverTask
<1> QED BY <1>1, <1>2, <1>3, SenderWakeInv, ReceiverWakeInv, Zenon DEF MsduNext

\* The cursors' and the wake-ups' invariants are kept together.
LEMMA WakeInvariance == MsduSpec => [](CursorInv /\ WakeInv)
<1>1. MsduInit => CursorInv /\ WakeInv
    BY InitCursorInv, InitWakeInv DEF MsduInit
<1>2. CursorInv /\ WakeInv /\ [MsduNext]_msduVars => (CursorInv /\ WakeInv)'
    BY MsduStep, NextCursorInv, NextWakeInv DEF WakeInv
<1> QED BY <1>1, <1>2, PTL DEF MsduSpec

\* The queue with wakers implements the ring: waiting adds loads and no other
\* access, so what is proved of the ring, its race freedom, the one owner of
\* every value and its order, holds of MsduQueue (msdu_queue.rs:93).
THEOREM MsduImplementsRing == MsduSpec => Spec
<1>1. MsduInit => Init
    BY DEF MsduInit
<1>2. CursorInv /\ WakeInv /\ [MsduNext]_msduVars => [Next]_vars
    BY MsduStep DEF WakeInv
<1> QED BY <1>1, <1>2, WakeInvariance, PTL DEF MsduSpec, Spec

\* No wake-up is lost and ready is never wrong, for every DEPTH: a task parked
\* over a value or beside a vacant cell has been woken or is about to be, and
\* a load after ready cannot return to the empty queue (msdu_queue.rs:146,
\* :176 and :200).
THEOREM NoLostWakeup == MsduSpec => []WaitingIsSound
<1>1. ASSUME CursorInv, WakeInv PROVE WaitingIsSound
    <2> USE <1>1 DEF CursorInv, CursorTypeOK, WakeInv
    <2>1. rtask = "parked" /\ Length > 0 => rscheduled \/ stask = "waking"
        <3>1. SUFFICES ASSUME rtask = "parked", Length > 0, ~rscheduled, stask # "waking"
                       PROVE  FALSE
            OBVIOUS
        <3>2. consumer = producer
            BY <3>1 DEF ReceiverInv
        <3> QED BY <3>1, <3>2, DistanceType DEF Length
    <2>2. stask = "parked" /\ Length < DEPTH => sscheduled \/ rtask = "waking"
        <3>1. SUFFICES ASSUME stask = "parked", Length < DEPTH, ~sscheduled,
                              rtask # "waking"
                       PROVE  FALSE
            OBVIOUS
        <3>2. seenConsumer = consumer /\ cursor_distance(seenConsumer, producer) >= DEPTH
            BY <3>1 DEF SenderInv
        <3> QED BY <3>1, <3>2, DistanceType, DepthAssumption DEF Length
    <2>3. rtask = "ready" => consumer \notin Views(seenProducer, producer)
        <3>1. SUFFICES ASSUME seenProducer # consumer
                       PROVE  consumer \notin Views(seenProducer, producer)
            BY DEF ReceiverInv
        <3>2. cursor_distance(seenProducer, consumer)
                = 2 * DEPTH - cursor_distance(consumer, seenProducer)
            BY <3>1, DepthAssumption DEF cursor_distance, Cursors
        <3>3. cursor_distance(seenProducer, producer) <= DEPTH - cursor_distance(consumer, seenProducer)
            BY DistanceType, DepthAssumption
        <3> HIDE DEF CursorInv
        <3>4. cursor_distance(consumer, seenProducer) \in Nat
              /\ cursor_distance(seenProducer, producer) \in Nat
            BY DistanceType, DepthAssumption DEF CursorInv
        <3> QED BY <3>2, <3>3, <3>4, DepthAssumption DEF Views
    <2> QED BY <2>1, <2>2, <2>3 DEF WaitingIsSound
<1> QED BY <1>1, WakeInvariance, PTL

\* What is proved of the ring holds of the queue whatever its tasks and wakers
\* do: no cell is touched by both sides, and no value is duplicated, lost or
\* overwritten (msdu_queue.rs over affine_spsc.rs).
THEOREM MsduSafe == MsduSpec => [](NoDataRace /\ Affine)
BY MsduImplementsRing, RaceFree, SingleOwner, PTL
=============================================================================
