-------------------------- MODULE LeConnectionProofs -------------------------
(***************************************************************************)
(* Safety of the peripheral connection for every size of the event         *)
(* counter, every number of channels and every hop, channel map, timing    *)
(* and pseudo-random sequence.                                             *)
(***************************************************************************)
EXTENDS LeConnection, TLAPS

-----------------------------------------------------------------------------
(* Arithmetic.                                                              *)

\* The remainder by an operator of its own: the steps below use what the
\* lemmas say of it, not the division.
Remainder(a, m) == a % m

\* Numbers a multiple of m apart.
Congruent(a, b, m) == \E k \in Int : a = b + m * k

\* A remainder lies below m and is congruent to the number.
LEMMA RemainderType ==
    ASSUME NEW m \in Nat \ {0}, NEW a \in Int
    PROVE  /\ Remainder(a, m) \in 0..(m - 1) /\ Remainder(a, m) \in Int
           /\ Congruent(Remainder(a, m), a, m)
<1>1. a \div m \in Int /\ a = m * (a \div m) + (a % m) /\ a % m \in 0..(m - 1)
    OBVIOUS
<1>2. PICK q \in Int : a = m * q + (a % m)
    BY <1>1, Zenon
<1>3. a % m = a + m * (0 - q) /\ 0 - q \in Int
    BY <1>1, <1>2
<1>4. \E k \in Int : a % m = a + m * k
    BY <1>3, Zenon
<1>5. a % m \in Int
    BY <1>1
<1> QED BY <1>1, <1>4, <1>5, Zenon DEF Remainder, Congruent

\* Two numbers below m that are congruent are equal.
LEMMA CongruentSmall ==
    ASSUME NEW m \in Nat \ {0}, NEW a \in 0..(m - 1), NEW b \in 0..(m - 1), Congruent(a, b, m)
    PROVE  a = b
<1>1. PICK k \in Int : a = b + m * k
    BY DEF Congruent
<1>2. k >= 1 => m * k >= m
    OBVIOUS
<1>3. k <= -1 => m * k <= 0 - m
    OBVIOUS
<1>4. k = 0 => m * k = 0
    OBVIOUS
<1>5. PICK t \in Int : t = m * k
    OBVIOUS
<1>6. a = b + t
    BY <1>1, <1>5
<1>7. k >= 1 \/ k <= -1 \/ k = 0
    OBVIOUS
<1> QED BY <1>2, <1>3, <1>4, <1>5, <1>6, <1>7

\* Congruence is an equivalence that sums and differences respect.
LEMMA CongruentSum ==
    ASSUME NEW m \in Nat \ {0}, NEW a \in Int, NEW b \in Int, NEW c \in Int
    PROVE  /\ Congruent(a, a, m)
           /\ Congruent(a, b, m) => Congruent(b, a, m)
           /\ Congruent(a, b, m) /\ Congruent(b, c, m) => Congruent(a, c, m)
           /\ Congruent(a, b, m) => Congruent(a + c, b + c, m) /\ Congruent(c - a, c - b, m)
<1>1. a = a + m * 0
    OBVIOUS
<1>2. ASSUME NEW k \in Int, a = b + m * k
      PROVE  /\ b = a + m * (0 - k) /\ 0 - k \in Int
             /\ a + c = (b + c) + m * k /\ c - a = (c - b) + m * (0 - k)
    BY <1>2
<1>3. ASSUME NEW k \in Int, a = b + m * k, NEW j \in Int, b = c + m * j
      PROVE  a = c + m * (k + j) /\ k + j \in Int
    BY <1>3
<1>4. Congruent(a, a, m)
    BY <1>1 DEF Congruent
<1>5. Congruent(a, b, m) => /\ Congruent(b, a, m)
                            /\ Congruent(a + c, b + c, m) /\ Congruent(c - a, c - b, m)
    BY <1>2, Zenon DEF Congruent
<1>6. Congruent(a, b, m) /\ Congruent(b, c, m) => Congruent(a, c, m)
    BY <1>3, Zenon DEF Congruent
<1> QED BY <1>4, <1>5, <1>6

\* Congruent numbers have the same remainder.
LEMMA RemainderSame ==
    ASSUME NEW m \in Nat \ {0}, NEW a \in Int, NEW b \in Int, Congruent(a, b, m)
    PROVE  Remainder(a, m) = Remainder(b, m)
<1>1. PICK r \in 0..(m - 1) : r = Remainder(a, m)
    BY RemainderType
<1>2. PICK s \in 0..(m - 1) : s = Remainder(b, m)
    BY RemainderType
<1>3. r \in Int /\ s \in Int /\ Congruent(r, a, m) /\ Congruent(s, b, m)
    BY <1>1, <1>2, RemainderType
<1>4. Congruent(r, b, m) /\ Congruent(b, s, m)
    BY <1>3, CongruentSum
<1>5. Congruent(r, s, m)
    BY <1>3, <1>4, CongruentSum
<1>6. r = s
    BY <1>5, CongruentSmall
<1> QED BY <1>1, <1>2, <1>6

\* A remainder may be taken before or after adding and subtracting.
LEMMA RemainderAdd ==
    ASSUME NEW m \in Nat \ {0}, NEW a \in Int, NEW b \in Int
    PROVE  /\ Remainder(Remainder(a, m) + b, m) = Remainder(a + b, m)
           /\ Remainder(b + Remainder(a, m), m) = Remainder(b + a, m)
           /\ Remainder(b - Remainder(a, m), m) = Remainder(b - a, m)
<1>1. PICK r \in Int : r = Remainder(a, m) /\ Congruent(r, a, m)
    BY RemainderType
<1>2. Congruent(r + b, a + b, m) /\ Congruent(b - r, b - a, m)
    BY <1>1, CongruentSum, Zenon
<1>3. r + b \in Int /\ a + b \in Int /\ b - r \in Int /\ b - a \in Int
      /\ r + b = b + r /\ a + b = b + a
    OBVIOUS
<1>4. Remainder(r + b, m) = Remainder(a + b, m) /\ Remainder(b - r, m) = Remainder(b - a, m)
    BY <1>2, <1>3, RemainderSame, Zenon
<1> QED BY <1>1, <1>3, <1>4

\* Within one m above or below zero the remainder needs no division.
LEMMA RemainderNear ==
    ASSUME NEW m \in Nat \ {0}, NEW a \in (0 - m)..(m - 1)
    PROVE  Remainder(a, m) = IF a < 0 THEN a + m ELSE a
<1>1. PICK r \in 0..(m - 1) : r = Remainder(a, m) /\ Congruent(r, a, m)
    BY RemainderType
<1>2. PICK b \in 0..(m - 1) : b = IF a < 0 THEN a + m ELSE a
    OBVIOUS
<1>3. b = a + m * 1 \/ b = a + m * 0
    BY <1>2
<1>4. Congruent(b, a, m)
    BY <1>3 DEF Congruent
<1>5. Congruent(a, b, m) /\ r \in Int /\ b \in Int /\ a \in Int
    BY <1>4, CongruentSum
<1>6. Congruent(r, b, m)
    BY <1>1, <1>5, CongruentSum
<1> QED BY <1>1, <1>2, <1>6, CongruentSmall

\* The assumption on the constants, as the arithmetic uses it.
LEMMA ConstantTypes ==
    /\ Modulus \in Nat \ {0} /\ Channels \in Nat \ {0} /\ Hop \in Nat
    /\ MaxDelta \in Nat /\ MaxDelta < Modulus
    /\ MaxInstant \in Nat /\ MaxLate \in Nat /\ MaxInstant < Modulus
    /\ Horizon \in Int /\ MaxInstant + MaxLate <= Horizon
    /\ 2 * Horizon = Modulus - 2
    /\ LastInitial \in Nat
<1>1. Modulus \in Nat /\ Modulus % 2 = 0 /\ MaxInstant \in Nat /\ MaxLate \in Nat
      /\ MaxInstant + MaxLate < Modulus \div 2
    BY ConnectionAssumption
<1>2. PICK h \in Int : h = Modulus \div 2
    BY <1>1
<1>3. Modulus = 2 * h
    BY <1>1, <1>2
<1>4. MaxInstant + MaxLate < h /\ Horizon = h - 1
    BY <1>1, <1>2 DEF Horizon
<1>5. Hop \in Nat /\ MaxDelta \in Nat /\ MaxDelta < Modulus
    BY <1>1, ConnectionAssumption
<1> QED BY <1>1, <1>3, <1>4, <1>5, ConnectionAssumption

\* Wrap is the remainder by the number of counter values.
LEMMA WrapRemainder == \A n : Wrap(n) = Remainder(n, Modulus)
BY DEF Wrap, Remainder

\* A counter is a number below the modulus.
LEMMA CounterType ==
    ASSUME NEW c \in Counters
    PROVE  c \in Int /\ 0 <= c /\ c < Modulus
BY ConstantTypes DEF Counters

\* A wrapped counter may be moved before or after wrapping.
LEMMA WrapAdd ==
    ASSUME NEW a \in Int, NEW b \in Int
    PROVE  /\ Wrap(a) \in Counters
           /\ Wrap(Wrap(a) + b) = Wrap(a + b)
           /\ Wrap(b - Wrap(a)) = Wrap(b - a)
           /\ Wrap(Wrap(a) - b) = Wrap(a - b)
<1>1. Remainder(a, Modulus) \in 0..(Modulus - 1)
    BY ConstantTypes, RemainderType
<1>2. /\ Remainder(Remainder(a, Modulus) + b, Modulus) = Remainder(a + b, Modulus)
      /\ Remainder(b - Remainder(a, Modulus), Modulus) = Remainder(b - a, Modulus)
    BY ConstantTypes, RemainderAdd, Zenon
<1>3. 0 - b \in Int
    OBVIOUS
<1>4. Remainder(Remainder(a, Modulus) + (0 - b), Modulus) = Remainder(a + (0 - b), Modulus)
    BY <1>3, ConstantTypes, RemainderAdd, Zenon
<1>5. PICK r \in Int : r = Remainder(a, Modulus)
    BY <1>1
<1>6. r + (0 - b) = r - b /\ a + (0 - b) = a - b
    OBVIOUS
<1> QED BY <1>1, <1>2, <1>4, <1>5, <1>6, WrapRemainder, Zenon DEF Counters

\* Wrapping changes nothing but to add the modulus below zero.
LEMMA WrapNear ==
    ASSUME NEW a \in Int, 0 - Modulus <= a, a < Modulus
    PROVE  Wrap(a) = IF a < 0 THEN a + Modulus ELSE a
<1>1. a \in (0 - Modulus)..(Modulus - 1)
    BY ConstantTypes
<1> QED BY <1>1, ConstantTypes, RemainderNear, WrapRemainder

\* The distance between two wrapped counters depends on the distance alone.
LEMMA WrapDistance ==
    ASSUME NEW c \in Int, NEW a \in Int, NEW b \in Int
    PROVE  Wrap(Wrap(c + a) - Wrap(c + b)) = Wrap(a - b)
<1>1. PICK x \in Int : x = c + a
    OBVIOUS
<1>2. PICK y \in Int : y = c + b
    OBVIOUS
<1>3. PICK w \in Int : w = Wrap(x)
  <2>1. Wrap(x) \in Counters
    BY <1>1, WrapAdd
  <2> QED BY <2>1, CounterType
<1>4. Wrap(w - Wrap(y)) = Wrap(w - y) /\ Wrap(w - y) = Wrap(x - y)
    BY <1>3, WrapAdd, Zenon
<1>5. x - y = a - b
    BY <1>1, <1>2
<1> QED BY <1>1, <1>2, <1>3, <1>4, <1>5

\* Hopping: the reduced multiple of the hop that Skip adds is the hop of every
\* skipped event.
LEMMA HopSkipped ==
    ASSUME NEW l \in Int, NEW s \in Nat, NEW x \in Int
    PROVE  Remainder(Remainder(l + Remainder(Hop * Remainder(s, Channels), Channels), Channels) + x,
                     Channels) = Remainder(l + Hop * s + x, Channels)
<1> DEFINE m == Channels
<1>0. m \in Nat \ {0} /\ Hop \in Nat
    BY ConstantTypes
<1> HIDE DEF m
<1>1. PICK r \in Int : r = Remainder(s, m) /\ Congruent(r, s, m)
    BY <1>0, RemainderType
<1>2. PICK k \in Int : r = s + m * k
    BY <1>1 DEF Congruent
<1>3. Hop * r = Hop * s + m * (Hop * k) /\ Hop * k \in Int
    BY <1>0, <1>2
<1>4. PICK h \in Int : h = Hop * r
    BY <1>0
<1>5. PICK g \in Int : g = Hop * s
    BY <1>0
<1>6. Congruent(h, g, m)
    BY <1>3, <1>4, <1>5 DEF Congruent
<1>7. Remainder(h, m) = Remainder(g, m)
    BY <1>0, <1>6, RemainderSame
<1>8. Remainder(l + Remainder(g, m), m) = Remainder(l + g, m)
    BY <1>0, RemainderAdd
<1>9. PICK y \in Int : y = l + g
    OBVIOUS
<1>10. Remainder(Remainder(y, m) + x, m) = Remainder(y + x, m)
    BY <1>0, RemainderAdd, Zenon
<1> QED BY <1>1, <1>4, <1>5, <1>7, <1>8, <1>9, <1>10, Zenon DEF m

-----------------------------------------------------------------------------
(* The inductive invariant.  The Peripheral's state is compared with the    *)
(* Central's while the Central is some events behind it.                    *)

Kinds == {"map", "timing"}
Values == Maps \union Timings
Updates == [value : Values, instant : Counters]
Procedures ==
    [kind : Kinds, value : Values, left : (0 - MaxLate)..MaxInstant,
     status : {"waiting", "sent", "accepted", "acked"}]
Maintenances ==
    [initial_acknowledged : BOOLEAN, recovery_required : BOOLEAN,
     instant_acknowledgement :
        {"HeaderRequired", "AwaitingPeerSequenceAdvance", "Confirmed"},
     indication_sn : {0, 1}]
Connections ==
    [event_counter : Counters, initial_transmit_window_pending : BOOLEAN,
     channel_map : Values, last_unmapped : 0..(Channels - 1), timing : Values,
     state : {"Created", "Established"}, pending_channel_map : SUBSET Updates,
     pending_connection_update : SUBSET Updates, maintenance : Maintenances]
Centrals ==
    [counter : Counters, last_unmapped : 0..(Channels - 1), channel_map : Values,
     timing : Values, procedure : SUBSET Procedures, sn : {0, 1},
     accepted : BOOLEAN, carries : {"data", "indication"}, heard : BOOLEAN]
Steps ==
    [delta : Nat, before : Int, after : Int, paused : BOOLEAN, earned : BOOLEAN,
     walked : [before : Nat, after : Nat], switched : BOOLEAN, serviced : BOOLEAN]

\* The channel is whatever Select returns.
IsPrepared(r) ==
    r = [channel |-> r.channel, unmapped |-> r.unmapped,
         channel_map_updated |-> r.channel_map_updated,
         connection_timing_transition |-> r.connection_timing_transition,
         peer_activity |-> r.peer_activity]

Typed ==
    /\ algorithm \in {"One", "Two"}
    /\ connection \in Connections
    /\ phase \in {"Connection", "Prepared", "InFlight", "Completed", "Lost"}
    /\ IsPrepared(prepared)
    /\ step \in Steps
    /\ central \in Centrals
    /\ behind \in Nat

\* The Peripheral received the procedure's indication.
Known(p) == p.status \in {"accepted", "acked"}

\* The procedure of this kind took effect without the Peripheral.
Passed(p, kind) == p.kind = kind /\ ~Known(p) /\ p.left <= 0

\* The instant is among the next b events of the Central.
Comes(p, kind, b) == p.kind = kind /\ Known(p) /\ 0 < p.left /\ p.left <= b

\* The Peripheral's pending updates P and value v of one kind against the
\* Central's procedure p and value V, the Central at counter C and b events
\* behind.  The update is pending while its instant lies beyond the
\* Peripheral's event; in the phase Connection, open, it may be at the event.
FollowsOne(p, C, b, open, kind, P, v, V) ==
    /\ \A u \in P :
        /\ p.kind = kind /\ Known(p)
        /\ u = [value |-> p.value, instant |-> Wrap(C + p.left)]
        /\ p.left > b \/ (open /\ p.left = b)
    /\ p.kind = kind /\ Known(p) /\ p.left > b => P # {}
    /\ ~Passed(p, kind) =>
        \/ v = IF Comes(p, kind, b) THEN p.value ELSE V
        \/ open /\ P # {} /\ Comes(p, kind, b) /\ p.left = b

Follows(S, C, b, open, kind, P, v, V) ==
    /\ S = {} => P = {} /\ v = V
    /\ \A p \in S : FollowsOne(p, C, b, open, kind, P, v, V)

\* The intervals of the step against those the Central let pass so far, wb old
\* and wa new ones.
SplitOne(p, b, delta, before, after, wb, wa, switched) ==
    ~Passed(p, "timing") =>
       IF switched
       THEN wb = before /\ wa + b = after /\ (p.kind = "timing" /\ Known(p) => p.left <= 0)
       ELSE /\ wa = 0 /\ wb + b = delta
            /\ IF Comes(p, "timing", b) THEN before = wb + p.left /\ after = b - p.left
               ELSE before = delta /\ after = 0

Split(S, b, delta, before, after, wb, wa, switched) ==
    /\ S = {} => IF switched THEN wb = before /\ wa + b = after
                 ELSE wa = 0 /\ wb + b = delta /\ before = delta /\ after = 0
    /\ \A p \in S : SplitOne(p, b, delta, before, after, wb, wa, switched)

\* A deliberate pause of delta events keeps clear of the instant.
ClearOne(p, b, delta) ==
    Known(p) => (p.status = "acked" /\ p.left > b) \/ (p.left = 0 /\ b = delta)

-----------------------------------------------------------------------------
(* One update and one procedure, step by step.                              *)

\* The pending updates from e to e + s events after the counter C.
Within(P, C, e, s) == {u \in P : Wrap(u.instant - Wrap(C + e)) <= s}

AllOrNone(p, P, C, e, s) ==
    LET U == Within(P, C, e, s)
    IN  /\ P # {} /\ p.left <= e + s =>
             /\ U = P /\ U # {} /\ P \ U = {} /\ (CHOOSE u \in U : TRUE).value = p.value
             /\ Wrap((CHOOSE u \in U : TRUE).instant - Wrap(C + e)) = p.left - e
        /\ P = {} \/ p.left > e + s => U = {} /\ P \ U = P

\* What is at the target's distance or nearer among the pending updates: all
\* of them or none.
LEMMA DueUpdates ==
    ASSUME NEW p \in Procedures, NEW C \in Counters, NEW b \in Nat, NEW open,
           NEW kind, NEW P, NEW v, NEW V, FollowsOne(p, C, b, open, kind, P, v, V),
           NEW e \in Nat, NEW s \in Nat, s < Modulus,
           \A u \in P : p.left >= e
    PROVE  AllOrNone(p, P, C, e, s)
<1> DEFINE U == {u \in P : Wrap(u.instant - Wrap(C + e)) <= s}
<1>1. PICK l \in Int : l = p.left /\ l <= MaxInstant
    BY ConstantTypes DEF Procedures
<1>2. \A u \in P : u.value = p.value /\ u.instant = Wrap(C + l)
    BY <1>1 DEF FollowsOne
<1>3. Wrap(Wrap(C + l) - Wrap(C + e)) = Wrap(l - e)
    BY CounterType, WrapDistance
<1>4. P # {} => Wrap(l - e) = l - e
  <2>1. P # {} => l >= e
    BY <1>1
  <2>2. P # {} => l - e \in Int /\ 0 - Modulus <= l - e /\ l - e < Modulus /\ ~(l - e < 0)
    BY <2>1, <1>1, ConstantTypes
  <2> QED BY <2>2, WrapNear
<1>5. \A u \in P : Wrap(u.instant - Wrap(C + e)) = l - e
    BY <1>2, <1>3, <1>4
<1>6. l - e <= s <=> l <= e + s
    OBVIOUS
<1>7. ASSUME P # {}, l <= e + s
      PROVE  U = P
    BY <1>5, <1>6, <1>7
<1>8. ASSUME P = {} \/ l > e + s
      PROVE  U = {}
    BY <1>5, <1>6, <1>8
<1>9. ASSUME U = P, P # {}
      PROVE  (CHOOSE u \in U : TRUE) \in P
    BY <1>9
<1> HIDE DEF U
<1>10. P # {} /\ p.left <= e + s =>
         /\ U = P /\ U # {} /\ P \ U = {} /\ (CHOOSE u \in U : TRUE).value = p.value
         /\ Wrap((CHOOSE u \in U : TRUE).instant - Wrap(C + e)) = p.left - e
    BY <1>1, <1>2, <1>5, <1>7, <1>9
<1>11. P = {} \/ p.left > e + s => U = {} /\ P \ U = P
    BY <1>1, <1>8
<1> QED BY <1>10, <1>11, Zenon DEF AllOrNone, Within, U

\* Applied(P, U, v) is the value after the updates U of P were applied.
Applied(U, v) == IF U = {} THEN v ELSE (CHOOSE u \in U : TRUE).value

\* The step to the event delta ahead applies the update that comes on the way.
LEMMA CommitOne ==
    ASSUME NEW p \in Procedures, NEW C \in Counters, NEW kind, NEW P, NEW v, NEW V,
           FollowsOne(p, C, 0, FALSE, kind, P, v, V),
           NEW delta \in Nat, 1 <= delta, delta <= MaxDelta
    PROVE  LET U == Within(P, C, 1, delta - 1)
           IN  /\ FollowsOne(p, C, delta, FALSE, kind, P \ U, Applied(U, v), V)
               /\ ~Passed(p, kind) => (U # {} <=> Comes(p, kind, delta))
               /\ U # {} => /\ Comes(p, kind, delta)
                            /\ Wrap((CHOOSE u \in U : TRUE).instant - Wrap(C + 1)) = p.left - 1
<1> DEFINE U == Within(P, C, 1, delta - 1)
<1>1. p.left \in Int
    BY ConstantTypes DEF Procedures
<1>2. \A u \in P : p.kind = kind /\ Known(p) /\ p.left > 0
    BY DEF FollowsOne
<1>3. \A u \in P : p.left >= 1
    BY <1>1, <1>2
<1>4. 0 \in Nat /\ 1 \in Nat /\ delta - 1 \in Nat /\ delta - 1 < Modulus
      /\ 1 + (delta - 1) = delta
    BY ConstantTypes
<1>5. /\ P # {} /\ p.left <= delta =>
            /\ U = P /\ U # {} /\ P \ U = {} /\ (CHOOSE u \in U : TRUE).value = p.value
            /\ Wrap((CHOOSE u \in U : TRUE).instant - Wrap(C + 1)) = p.left - 1
      /\ P = {} \/ p.left > delta => U = {} /\ P \ U = P
  <2>1. AllOrNone(p, P, C, 1, delta - 1)
    BY <1>3, <1>4, DueUpdates, Zenon
  <2> QED BY <2>1, <1>4 DEF AllOrNone
<1> HIDE DEF U
<1>6. ~(p.left <= delta) <=> p.left > delta
    BY <1>1
<1>7. ~Comes(p, kind, 0)
    BY <1>1 DEF Comes
<1>8. CASE P # {} /\ p.left <= delta
  <2>1. Comes(p, kind, delta) /\ Applied(U, v) = p.value /\ ~(p.left > delta)
    BY <1>1, <1>2, <1>5, <1>8 DEF Comes, Applied
  <2> QED BY <2>1, <1>5, <1>8 DEF FollowsOne, U
<1>9. CASE P # {} /\ p.left > delta
  <2>1. ~Comes(p, kind, delta) /\ Applied(U, v) = v
    BY <1>1, <1>5, <1>9 DEF Comes, Applied
  <2>2. ~Passed(p, kind) => v = V
    BY <1>7 DEF FollowsOne
  <2> QED BY <2>1, <2>2, <1>1, <1>2, <1>5, <1>9 DEF FollowsOne, U
<1>10. CASE P = {}
  <2>1. U = {} /\ Applied(U, v) = v
    BY <1>5, <1>10 DEF Applied
  <2>2. ~(p.kind = kind /\ Known(p) /\ p.left > 0)
    BY <1>10 DEF FollowsOne
  <2>3. ~Comes(p, kind, delta) /\ ~(p.kind = kind /\ Known(p) /\ p.left > delta)
    BY <2>2, <1>1 DEF Comes
  <2>4. ~Passed(p, kind) => v = V
    BY <1>7 DEF FollowsOne
  <2> QED BY <2>1, <2>3, <2>4, <1>10 DEF FollowsOne, U
<1> QED BY <1>6, <1>8, <1>9, <1>10, Zenon

\* Preparing the next event applies the update whose instant it is.
LEMMA PrepareOne ==
    ASSUME NEW p \in Procedures, NEW C \in Counters, NEW kind, NEW P, NEW v, NEW V,
           NEW b \in Nat, 1 <= b, FollowsOne(p, C, b, TRUE, kind, P, v, V)
    PROVE  LET U == Within(P, C, b, 0)
           IN  FollowsOne(p, C, b, FALSE, kind, P \ U, Applied(U, v), V)
<1> DEFINE U == Within(P, C, b, 0)
<1>1. p.left \in Int
    BY ConstantTypes DEF Procedures
<1>2. \A u \in P : /\ p.kind = kind /\ Known(p) /\ p.left >= b
                   /\ u = [value |-> p.value, instant |-> Wrap(C + p.left)]
    BY <1>1 DEF FollowsOne
<1>3. 0 \in Nat /\ 0 < Modulus /\ b + 0 = b /\ \A u \in P : p.left >= b
    BY <1>2, ConstantTypes
<1>4. /\ P # {} /\ p.left <= b =>
            U = P /\ U # {} /\ P \ U = {} /\ (CHOOSE u \in U : TRUE).value = p.value
      /\ P = {} \/ p.left > b => U = {} /\ P \ U = P
  <2>1. AllOrNone(p, P, C, b, 0)
    BY <1>3, DueUpdates, Zenon
  <2> QED BY <2>1, <1>3 DEF AllOrNone
<1> HIDE DEF U
<1>5. ~(p.left <= b) <=> p.left > b
    BY <1>1
<1>6. CASE P # {} /\ p.left <= b
  <2>1. Comes(p, kind, b) /\ Applied(U, v) = p.value /\ ~(p.left > b)
    BY <1>1, <1>2, <1>4, <1>6 DEF Comes, Applied
  <2> QED BY <2>1, <1>4, <1>6 DEF FollowsOne, U
<1>7. CASE P # {} /\ p.left > b
  <2>1. ~Comes(p, kind, b) /\ Applied(U, v) = v
    BY <1>1, <1>4, <1>7 DEF Comes, Applied
  <2>2. ~Passed(p, kind) => v = V
    BY <2>1 DEF FollowsOne
  <2> QED BY <2>1, <2>2, <1>2, <1>4, <1>7 DEF FollowsOne, U
<1>8. CASE P = {}
  <2>1. U = {} /\ Applied(U, v) = v
    BY <1>4, <1>8 DEF Applied
  <2> QED BY <2>1, <1>8 DEF FollowsOne, U
<1> QED BY <1>5, <1>6, <1>7, <1>8, Zenon

\* into_connection: an update due at the following event stays pending.
LEMMA IntoOne ==
    ASSUME NEW p \in Procedures, NEW C, NEW kind, NEW P, NEW v, NEW V,
           FollowsOne(p, C, 0, FALSE, kind, P, v, V)
    PROVE  FollowsOne(p, C, 1, TRUE, kind, P, v, V)
<1>1. p.left \in Int
    BY ConstantTypes DEF Procedures
<1>2. \A u \in P : p.left > 1 \/ p.left = 1
    BY <1>1 DEF FollowsOne
<1>3. p.left > 1 => p.left > 0
    BY <1>1
<1>4. Comes(p, kind, 1) => p.left = 1 /\ P # {}
    BY <1>1 DEF FollowsOne, Comes
<1>5. ~Comes(p, kind, 0)
    BY <1>1 DEF Comes
<1> QED BY <1>2, <1>3, <1>4, <1>5 DEF FollowsOne

\* A prepared event that is cancelled may be prepared again.
LEMMA OpenOne ==
    ASSUME NEW p, NEW C, NEW b, NEW kind, NEW P, NEW v, NEW V,
           FollowsOne(p, C, b, FALSE, kind, P, v, V)
    PROVE  FollowsOne(p, C, b, TRUE, kind, P, v, V)
BY Zenon DEF FollowsOne

\* The procedure q is p one event of the Central later.
Later(p, q) ==
    /\ q.kind = p.kind /\ q.value = p.value /\ q.status = p.status
    /\ q.left = p.left - 1

\* The value of the kind the Central uses after that event.
Switched(p, kind, V) == IF p.left = 1 /\ p.kind = kind THEN p.value ELSE V

\* The Central's event brings it one event closer and switches at the instant.
LEMMA TickOne ==
    ASSUME NEW p \in Procedures, NEW q, Later(p, q), NEW C \in Counters,
           NEW b \in Nat, b > 0, NEW kind, NEW P, NEW v, NEW V,
           FollowsOne(p, C, b, FALSE, kind, P, v, V)
    PROVE  FollowsOne(q, Wrap(C + 1), b - 1, FALSE, kind, P, v, Switched(p, kind, V))
<1>1. p.left \in Int /\ q.left = p.left - 1
    BY ConstantTypes DEF Procedures, Later
<1>2. q.kind = p.kind /\ q.value = p.value /\ (Known(q) <=> Known(p))
    BY DEF Later, Known
<1>3. Wrap(Wrap(C + 1) + q.left) = Wrap(C + p.left)
  <2>1. PICK l \in Int : l = p.left /\ q.left = l - 1
    BY <1>1
  <2>2. C + 1 \in Int /\ l - 1 \in Int /\ (C + 1) + (l - 1) = C + l
    BY CounterType
  <2>3. Wrap(Wrap(C + 1) + (l - 1)) = Wrap((C + 1) + (l - 1))
    BY <2>2, WrapAdd
  <2> QED BY <2>1, <2>2, <2>3
<1>4. q.left > b - 1 <=> p.left > b
    BY <1>1
<1>5. \A u \in P : /\ q.kind = kind /\ Known(q)
                   /\ u = [value |-> q.value, instant |-> Wrap(Wrap(C + 1) + q.left)]
                   /\ q.left > b - 1
    BY <1>2, <1>3, <1>4 DEF FollowsOne
<1>6. q.kind = kind /\ Known(q) /\ q.left > b - 1 => P # {}
    BY <1>2, <1>4 DEF FollowsOne
<1>7. ASSUME ~Passed(q, kind)
      PROVE  v = IF Comes(q, kind, b - 1) THEN q.value ELSE Switched(p, kind, V)
  <2>1. ~Passed(p, kind)
    BY <1>1, <1>2, <1>7 DEF Passed
  <2>2. v = IF Comes(p, kind, b) THEN p.value ELSE V
    BY <2>1 DEF FollowsOne
  <2>3. p.left = 1 /\ p.kind = kind => Known(p)
    BY <1>1, <1>2, <1>7 DEF Passed
  <2>4. Comes(p, kind, b) <=> Comes(q, kind, b - 1) \/ (p.left = 1 /\ p.kind = kind)
    BY <2>3, <1>1, <1>2 DEF Comes
  <2> QED BY <2>2, <2>4, <1>2 DEF Switched
<1> QED BY <1>5, <1>6, <1>7 DEF FollowsOne

\* A procedure the Peripheral knows ends at its instant.
LEMMA EndOne ==
    ASSUME NEW p \in Procedures, Known(p), p.left <= 0, NEW C, NEW b \in Nat, NEW kind,
           NEW P, NEW v, NEW V, FollowsOne(p, C, b, FALSE, kind, P, v, V)
    PROVE  P = {} /\ v = V /\ Switched(p, kind, V) = V
<1>1. p.left \in Int
    BY ConstantTypes DEF Procedures
<1>2. ~(p.left > b) /\ ~Comes(p, kind, b) /\ ~Passed(p, kind) /\ p.left # 1
    BY <1>1 DEF Comes, Passed
<1> QED BY <1>2 DEF FollowsOne, Switched

\* The distance the schedule functions test against the horizon.
LEMMA AcceptDistance ==
    ASSUME NEW p \in Procedures, NEW C \in Counters, NEW E, E = Wrap(C + 1)
    PROVE  LET d == Wrap(Wrap(C + p.left) - Wrap(E - 1))
           IN  ~(d >= Horizon) => p.left >= 0 /\ (d = 0 <=> p.left = 0)
<1>1. PICK l \in Int : l = p.left /\ 0 - MaxLate <= l /\ l <= MaxInstant
    BY ConstantTypes DEF Procedures
<1>2. C + 1 \in Int /\ 1 \in Int /\ (C + 1) - 1 = C /\ C \in Int
    BY CounterType
<1>3. Wrap(E - 1) = Wrap(C)
    BY <1>2, WrapAdd
<1>4. Wrap(Wrap(C + l) - Wrap(C)) = Wrap(l)
  <2>1. PICK z \in Int : z = 0
    OBVIOUS
  <2>2. Wrap(Wrap(C + l) - Wrap(C + z)) = Wrap(l - z)
    BY <1>2, WrapDistance
  <2>3. C + z = C /\ l - z = l
    BY <1>2, <2>1
  <2> QED BY <2>2, <2>3
<1>5. Wrap(l) = IF l < 0 THEN l + Modulus ELSE l
    BY <1>1, ConstantTypes, WrapNear
<1>6. l < 0 => l + Modulus >= Horizon
    BY <1>1, ConstantTypes
<1>7. PICK d \in Int : d = Wrap(Wrap(C + p.left) - Wrap(E - 1)) /\ d = Wrap(l)
    BY <1>1, <1>3, <1>4, <1>5, ConstantTypes
<1>8. ~(d >= Horizon) => l >= 0 /\ (d = 0 <=> l = 0)
    BY <1>5, <1>6, <1>7
<1> QED BY <1>1, <1>7, <1>8

\* An indication that is accepted is pending, or in force at its instant.
LEMMA AcceptOne ==
    ASSUME NEW p \in Procedures, NEW q, NEW C, NEW kind, NEW v, NEW V,
           FollowsOne(p, C, 0, FALSE, kind, {}, v, V), p.left >= 0,
           p.left <= 0 /\ p.kind = kind => p.value = V,
           q.kind = p.kind, q.value = p.value, q.left = p.left, Known(q),
           NEW P, NEW w,
           P = IF p.kind = kind /\ p.left # 0
               THEN {[value |-> p.value, instant |-> Wrap(C + p.left)]} ELSE {},
           w = IF p.kind = kind /\ p.left = 0 THEN p.value ELSE v
    PROVE  FollowsOne(q, C, 0, FALSE, kind, P, w, V)
<1>1. p.left \in Int /\ (p.left # 0 <=> p.left > 0) /\ (p.left = 0 => p.left <= 0)
    BY ConstantTypes DEF Procedures
<1>2. ~Comes(p, kind, 0) /\ ~Comes(q, kind, 0)
    BY <1>1 DEF Comes
<1>3. p.kind = kind /\ p.left # 0 => ~Passed(p, kind)
    BY <1>1 DEF Passed
<1>4. p.kind # kind => ~Passed(p, kind)
    BY DEF Passed
<1>5. w = V
    BY <1>1, <1>2, <1>3, <1>4 DEF FollowsOne
<1>6. \A u \in P : p.kind = kind /\ p.left > 0 /\ u = [value |-> p.value, instant |-> Wrap(C + p.left)]
    BY <1>1
<1>7. p.kind = kind /\ p.left > 0 => P # {}
    BY <1>1, Zenon
<1> QED BY <1>2, <1>5, <1>6, <1>7 DEF FollowsOne

\* The Central's answer to what it heard changes a procedure's status only.
LEMMA SameOne ==
    ASSUME NEW p, NEW q, q.kind = p.kind, q.value = p.value, q.left = p.left,
           Known(q) <=> Known(p),
           NEW C, NEW b, NEW open, NEW kind, NEW P, NEW v, NEW V,
           FollowsOne(p, C, b, open, kind, P, v, V)
    PROVE  FollowsOne(q, C, b, open, kind, P, v, V)
<1>1. (Comes(q, kind, b) <=> Comes(p, kind, b)) /\ (Passed(q, kind) <=> Passed(p, kind))
    BY DEF Comes, Passed
<1> QED BY <1>1 DEF FollowsOne

\* A procedure the Peripheral has not heard of leaves it with the Central.
LEMMA StartOne ==
    ASSUME NEW p, p.status = "waiting", p.left \in Nat, p.left > 0,
           NEW C, NEW kind, NEW v
    PROVE  /\ FollowsOne(p, C, 0, FALSE, kind, {}, v, v)
           /\ ~Known(p) /\ ~Comes(p, "timing", 0)
BY DEF FollowsOne, Comes, Known

\* The intervals a step commits are those the Central will let pass.
LEMMA CommitSplit ==
    ASSUME NEW p \in Procedures, NEW delta \in Nat, NEW U, NEW before, NEW after,
           ~Passed(p, "timing") => (U # {} <=> Comes(p, "timing", delta)),
           U # {} => before = p.left /\ after = delta - p.left,
           U = {} => before = delta /\ after = 0
    PROVE  SplitOne(p, delta, delta, before, after, 0, 0, FALSE)
<1>1. p.left \in Int /\ 0 + p.left = p.left /\ 0 + delta = delta
    BY ConstantTypes DEF Procedures
<1> QED BY <1>1 DEF SplitOne

\* The event after a completed one is one interval away, whichever it is.
LEMMA IntoSplit ==
    ASSUME NEW p \in Procedures
    PROVE  SplitOne(p, 1, 1, 1, 0, 0, 0, FALSE)
<1>1. p.left \in Int
    BY ConstantTypes DEF Procedures
<1>2. Comes(p, "timing", 1) => p.left = 1
    BY <1>1 DEF Comes
<1> QED BY <1>2 DEF SplitOne

\* The Central's event is an interval of the old or of the new timing.
LEMMA TickSplit ==
    ASSUME NEW p \in Procedures, NEW q, Later(p, q), p.left > 0 \/ ~Known(p),
           NEW b \in Nat, b > 0, NEW delta \in Nat, NEW before, NEW after,
           NEW wb \in Nat, NEW wa \in Nat, NEW switched \in BOOLEAN,
           SplitOne(p, b, delta, before, after, wb, wa, switched)
    PROVE  SplitOne(q, b - 1, delta, before, after,
                    IF switched THEN wb ELSE wb + 1, IF switched THEN wa + 1 ELSE wa,
                    switched \/ (p.left = 1 /\ p.kind = "timing"))
<1>1. p.left \in Int /\ q.left = p.left - 1 /\ q.kind = p.kind /\ (Known(q) <=> Known(p))
    BY ConstantTypes DEF Procedures, Later, Known
<1> SUFFICES ASSUME ~Passed(q, "timing")
             PROVE  SplitOne(q, b - 1, delta, before, after,
                             IF switched THEN wb ELSE wb + 1, IF switched THEN wa + 1 ELSE wa,
                             switched \/ (p.left = 1 /\ p.kind = "timing"))
    BY DEF SplitOne
<1>2. ~Passed(p, "timing") /\ (p.left = 1 /\ p.kind = "timing" => Known(p))
    BY <1>1 DEF Passed
<1>3. CASE switched
  <2>1. wb = before /\ wa + b = after /\ (p.kind = "timing" /\ Known(p) => p.left <= 0)
    BY <1>2, <1>3 DEF SplitOne
  <2>2. (wa + 1) + (b - 1) = after /\ (q.kind = "timing" /\ Known(q) => q.left <= 0)
    BY <2>1, <1>1
  <2> QED BY <2>1, <2>2, <1>3 DEF SplitOne
<1>4. CASE ~switched /\ p.left = 1 /\ p.kind = "timing"
  <2>1. Comes(p, "timing", b)
    BY <1>2, <1>4 DEF Comes
  <2>2. wa = 0 /\ before = wb + 1 /\ after = b - 1
    BY <2>1, <1>2, <1>4 DEF SplitOne
  <2>3. q.left <= 0 /\ wa + (b - 1) = after
    BY <2>2, <1>1, <1>4
  <2> QED BY <2>2, <2>3, <1>4 DEF SplitOne
<1>5. CASE ~switched /\ ~(p.left = 1 /\ p.kind = "timing")
  <2>1. wa = 0 /\ wb + b = delta
        /\ (IF Comes(p, "timing", b) THEN before = wb + p.left /\ after = b - p.left
            ELSE before = delta /\ after = 0)
    BY <1>2, <1>5 DEF SplitOne
  <2>2. Comes(p, "timing", b) <=> Comes(q, "timing", b - 1)
    BY <1>1, <1>5 DEF Comes
  <2>3. (wb + 1) + (b - 1) = delta /\ (wb + 1) + q.left = wb + p.left
        /\ (b - 1) - q.left = b - p.left
    BY <2>1, <1>1
  <2> QED BY <2>1, <2>2, <2>3, <1>5 DEF SplitOne
<1> QED BY <1>3, <1>4, <1>5

\* maintenance_skip_eligible keeps the pause clear of the instant.
LEMMA PauseOne ==
    ASSUME NEW p \in Procedures, NEW C \in Counters, NEW kind, NEW P, NEW v, NEW V,
           FollowsOne(p, C, 0, FALSE, kind, P, v, V), p.kind = kind,
           Known(p) => p.left >= 0,
           NEW delta \in Nat, delta > 1, delta <= MaxDelta,
           \A u \in P : ~Protected(u.instant, Wrap(C + 1), delta - 1),
           P # {} => p.status # "accepted"
    PROVE  ClearOne(p, delta, delta)
<1> SUFFICES ASSUME Known(p), p.left # 0
             PROVE  p.status = "acked" /\ p.left > delta
    BY DEF ClearOne
<1>1. PICK l \in Int : l = p.left /\ 0 < l /\ l <= MaxInstant
    BY ConstantTypes DEF Procedures
<1>2. P # {}
    BY <1>1 DEF FollowsOne
<1>3. PICK u \in P : u.instant = Wrap(C + l)
    BY <1>1, <1>2 DEF FollowsOne
<1>4. PICK E : E = Wrap(C + 1)
    OBVIOUS
<1>5. ~(Wrap(Wrap(C + l) - E) < delta - 1)
      /\ ~(Wrap(Wrap(Wrap(C + l) - 1) - E) < delta - 1)
    BY <1>3, <1>4 DEF Protected
<1>6. /\ C \in Int /\ 1 \in Int /\ C + l \in Int /\ l - 1 \in Int
      /\ (C + l) - 1 = C + (l - 1) /\ (l - 1) - 1 = l - 2
    BY CounterType
<1>7. Wrap(Wrap(C + l) - E) = Wrap(l - 1)
  <2>1. C \in Int /\ l \in Int /\ 1 \in Int
    BY <1>6
  <2>2. Wrap(Wrap(C + l) - Wrap(C + 1)) = Wrap(l - 1)
    BY <2>1, WrapDistance, Zenon
  <2> QED BY <1>4, <2>2, Zenon
<1>8. Wrap(Wrap(C + l) - 1) = Wrap(C + (l - 1))
    BY <1>6, WrapAdd
<1>9. Wrap(Wrap(C + (l - 1)) - E) = Wrap(l - 2)
  <2>1. PICK k \in Int : k = l - 1
    BY <1>6
  <2>2. C \in Int /\ 1 \in Int
    BY <1>6
  <2>3. Wrap(Wrap(C + k) - Wrap(C + 1)) = Wrap(k - 1)
    BY <2>2, WrapDistance, Zenon
  <2> QED BY <2>1, <2>3, <1>4, <1>6
<1>10. Wrap(l - 1) = l - 1 /\ (l >= 2 => Wrap(l - 2) = l - 2)
    BY <1>1, ConstantTypes, WrapNear
<1>11. l - 1 >= delta - 1 /\ (l >= 2 => l - 2 >= delta - 1)
    BY <1>5, <1>7, <1>8, <1>9, <1>10
<1>12. l > delta
    BY <1>1, <1>11
<1> QED BY <1>1, <1>2, <1>12 DEF Known

\* The Central's event keeps the pause clear.
LEMMA TickClear ==
    ASSUME NEW p \in Procedures, NEW q, Later(p, q), p.left > 0 \/ ~Known(p),
           NEW b \in Nat, b > 0, NEW delta \in Nat, ClearOne(p, b, delta)
    PROVE  ClearOne(q, b - 1, delta)
<1>1. p.left \in Int /\ q.left = p.left - 1 /\ q.status = p.status
    BY ConstantTypes DEF Procedures, Later
<1> QED BY <1>1 DEF ClearOne, Known

-----------------------------------------------------------------------------
(* The invariant.                                                           *)

\* How many events the Peripheral's counter is ahead of the Central's.
Ahead == IF phase = "Completed" THEN 1 ELSE behind

HopInv ==
    /\ phase = "Completed" => behind = 0
    /\ phase \in {"Connection", "Prepared"} => behind >= 1
    /\ connection.event_counter = Wrap(central.counter + Ahead)
    /\ algorithm = "One" =>
          Remainder(connection.last_unmapped + Hop, Channels)
             = Remainder(central.last_unmapped + Hop * Ahead, Channels)

ChannelInv ==
    phase \in {"Prepared", "InFlight"} =>
       LET preview == Preview(connection.channel_map, connection.last_unmapped,
                              connection.event_counter)
       IN  prepared.channel = preview.channel /\ prepared.unmapped = preview.unmapped

\* The one procedure; an accepted one that is pending awaits its confirmation.
ProcedureInv ==
    /\ \A p, q \in central.procedure : p = q
    /\ \A p \in central.procedure :
        /\ Known(p) => p.left >= 0
        /\ p.left <= 0 /\ p.kind = "map" => p.value = central.channel_map
        /\ p.left <= 0 /\ p.kind = "timing" => p.value = central.timing
        /\ p.status = "accepted" =>
              /\ central.carries = "indication" /\ central.accepted
              /\ Pending(connection) # {} =>
                    connection.maintenance.instant_acknowledgement # "Confirmed"

MapInv ==
    Follows(central.procedure, central.counter, behind, phase = "Connection", "map",
            connection.pending_channel_map, connection.channel_map, central.channel_map)

TimingInv ==
    Follows(central.procedure, central.counter, behind, phase = "Connection", "timing",
            connection.pending_connection_update, connection.timing, central.timing)

IntervalInv ==
    IF phase = "Completed"
    THEN /\ step.delta = 1 /\ step.before = 1 /\ step.after = 0
         /\ ~step.switched /\ ~step.paused
         /\ step.walked.before = 0 /\ step.walked.after = 0
    ELSE Split(central.procedure, behind, step.delta, step.before, step.after,
               step.walked.before, step.walked.after, step.switched)

ClearInv ==
    step.paused => \A p \in central.procedure : ClearOne(p, behind, step.delta)

HeardInv ==
    /\ connection.maintenance.initial_acknowledged => central.heard
    /\ connection.maintenance.recovery_required \/ step.serviced
    /\ step.paused => step.earned

Linked ==
    /\ HopInv /\ ChannelInv /\ ProcedureInv
    /\ MapInv /\ TimingInv /\ IntervalInv /\ ClearInv

LeInvariant == Typed /\ HeardInv /\ (phase # "Lost" => Linked)

-----------------------------------------------------------------------------
(* Records.                                                                 *)

\* The fields of a connection.
LEMMA ConnectionFields ==
    ASSUME NEW c \in Connections
    PROVE  /\ c.event_counter \in Counters /\ c.initial_transmit_window_pending \in BOOLEAN
           /\ c.channel_map \in Values /\ c.last_unmapped \in 0..(Channels - 1)
           /\ c.timing \in Values /\ c.state \in {"Created", "Established"}
           /\ c.pending_channel_map \in SUBSET Updates
           /\ c.pending_connection_update \in SUBSET Updates
           /\ c.maintenance \in Maintenances
BY DEF Connections

\* An update of the values and pending updates of a connection.
Updated(c, m, t, P, Q) ==
    [c EXCEPT !.channel_map = m, !.timing = t, !.pending_channel_map = P,
              !.pending_connection_update = Q]

IsUpdated(r, c, m, t, P, Q) ==
    /\ r \in Connections
    /\ r.event_counter = c.event_counter /\ r.last_unmapped = c.last_unmapped
    /\ r.state = c.state /\ r.maintenance = c.maintenance
    /\ r.channel_map = m /\ r.timing = t
    /\ r.pending_channel_map = P /\ r.pending_connection_update = Q

LEMMA UpdateFields ==
    ASSUME NEW c \in Connections, NEW m \in Values, NEW t \in Values,
           NEW P \in SUBSET Updates, NEW Q \in SUBSET Updates
    PROVE  IsUpdated(Updated(c, m, t, P, Q), c, m, t, P, Q)
BY Zenon DEF Connections, Updated, IsUpdated

\* A move of a connection to another event.
Moved(c, e, l, m) ==
    [c EXCEPT !.event_counter = e, !.last_unmapped = l, !.maintenance = m]

IsMoved(r, c, e, l, m) ==
    /\ r \in Connections
    /\ r.event_counter = e /\ r.last_unmapped = l /\ r.maintenance = m
    /\ r.state = c.state /\ r.channel_map = c.channel_map /\ r.timing = c.timing
    /\ r.pending_channel_map = c.pending_channel_map
    /\ r.pending_connection_update = c.pending_connection_update

LEMMA MoveFields ==
    ASSUME NEW c \in Connections, NEW e \in Counters, NEW l \in 0..(Channels - 1),
           NEW m \in Maintenances
    PROVE  IsMoved(Moved(c, e, l, m), c, e, l, m)
BY Zenon DEF Connections, Moved, IsMoved

\* A completed event.
Closed(c, e, l, s) ==
    [c EXCEPT !.event_counter = e, !.last_unmapped = l,
              !.initial_transmit_window_pending = FALSE, !.state = s]

IsClosed(r, c, e, l) ==
    /\ r \in Connections
    /\ r.event_counter = e /\ r.last_unmapped = l /\ r.maintenance = c.maintenance
    /\ r.channel_map = c.channel_map /\ r.timing = c.timing
    /\ r.pending_channel_map = c.pending_channel_map
    /\ r.pending_connection_update = c.pending_connection_update

LEMMA CompleteFields ==
    ASSUME NEW c \in Connections, NEW e \in Counters, NEW l \in 0..(Channels - 1),
           NEW s \in {"Created", "Established"}
    PROVE  IsClosed(Closed(c, e, l, s), c, e, l)
BY Zenon DEF Connections, Closed, IsClosed

\* The fields of the Central.
LEMMA CentralFields ==
    ASSUME NEW c \in Centrals
    PROVE  /\ c.counter \in Counters /\ c.last_unmapped \in 0..(Channels - 1)
           /\ c.channel_map \in Values /\ c.timing \in Values
           /\ c.procedure \in SUBSET Procedures /\ c.sn \in {0, 1}
           /\ c.accepted \in BOOLEAN /\ c.carries \in {"data", "indication"}
           /\ c.heard \in BOOLEAN
BY DEF Centrals

-----------------------------------------------------------------------------
(* The steps.                                                               *)

\* A new connection: both sides start together.
LEMMA InitInvariant == Init => LeInvariant
<1> SUFFICES ASSUME Init PROVE LeInvariant
    OBVIOUS
<1>1. PICK map \in Maps, timing \in Timings :
        connection = NewConnection(map, timing) /\ central = NewCentral(map, timing)
    BY DEF Init
<1>2. map \in Values /\ timing \in Values
    BY DEF Values
<1>3. 0 \in Counters /\ Modulus - 1 \in Counters /\ 0 \in 0..(Channels - 1)
    BY ConstantTypes DEF Counters
<1>4. connection \in Connections
    BY <1>1, <1>2, <1>3 DEF NewConnection, NewMaintenance, Connections, Maintenances
<1>5. central \in Centrals
    BY <1>1, <1>2, <1>3 DEF NewCentral, Centrals
<1>6. step \in Steps /\ IsPrepared(prepared)
    BY DEF Init, FirstStep, Steps, NoEvent, IsPrepared
<1>7. Typed
    BY <1>4, <1>5, <1>6 DEF Init, Typed
<1>8. HeardInv
    BY <1>1 DEF Init, HeardInv, FirstStep, NewConnection, NewMaintenance
<1>9. /\ connection.event_counter = 0 /\ connection.last_unmapped = 0
      /\ connection.channel_map = map /\ connection.timing = timing
      /\ connection.pending_channel_map = {} /\ connection.pending_connection_update = {}
      /\ central.counter = Modulus - 1 /\ central.last_unmapped = 0
      /\ central.channel_map = map /\ central.timing = timing /\ central.procedure = {}
    BY <1>1 DEF NewConnection, NewCentral
<1>10. phase = "Connection" /\ behind = 1 /\ Ahead = 1
    BY DEF Init, Ahead
<1>11. HopInv
  <2>1. Wrap((Modulus - 1) + 1) = 0
    <3>1. PICK m \in Nat \ {0} : m = Modulus
        BY ConstantTypes
    <3>2. m = 0 + m * 1
        OBVIOUS
    <3>3. Congruent(m, 0, m)
        BY <3>2 DEF Congruent
    <3>4. Remainder(m, m) = Remainder(0, m)
        BY <3>3, RemainderSame
    <3>5. Remainder(0, m) = 0
        BY RemainderNear
    <3>6. (Modulus - 1) + 1 = m
        BY <3>1
    <3> QED BY <3>1, <3>4, <3>5, <3>6, WrapRemainder
  <2>2. Hop * 1 = Hop
    BY ConstantTypes
  <2> QED BY <1>9, <1>10, <2>1, <2>2 DEF HopInv
<1>12. ChannelInv /\ ProcedureInv /\ MapInv /\ TimingInv /\ ClearInv
    BY <1>9, <1>10, Zenon DEF ChannelInv, ProcedureInv, MapInv, TimingInv, Follows, ClearInv
<1>13. IntervalInv
    BY <1>9, <1>10 DEF Init, FirstStep, IntervalInv, Split
<1> QED BY <1>7, <1>8, <1>11, <1>12, <1>13 DEF LeInvariant, Linked

\* A new CONNECT_IND begins as the first did.
LEMMA ReconnectInvariant == LeInvariant /\ Reconnect => LeInvariant'
<1>1. LeInvariant /\ Reconnect => Init'
    BY DEF LeInvariant, Typed, Reconnect, Init
<1>2. Init' => LeInvariant'
    BY InitInvariant, PTL
<1> QED BY <1>1, <1>2

\* MapInv and TimingInv in the phases other than Connection, and in it.
LEMMA OpenOrNot ==
    /\ phase = "Connection" =>
         /\ MapInv <=> Follows(central.procedure, central.counter, behind, TRUE, "map",
              connection.pending_channel_map, connection.channel_map, central.channel_map)
         /\ TimingInv <=> Follows(central.procedure, central.counter, behind, TRUE, "timing",
              connection.pending_connection_update, connection.timing, central.timing)
    /\ phase # "Connection" =>
         /\ MapInv <=> Follows(central.procedure, central.counter, behind, FALSE, "map",
              connection.pending_channel_map, connection.channel_map, central.channel_map)
         /\ TimingInv <=> Follows(central.procedure, central.counter, behind, FALSE, "timing",
              connection.pending_connection_update, connection.timing, central.timing)
<1>1. phase = "Connection" => (phase = "Connection") = TRUE
    OBVIOUS
<1>2. phase # "Connection" => (phase = "Connection") = FALSE
    OBVIOUS
<1> QED BY <1>1, <1>2, Zenon DEF MapInv, TimingInv

\* The same after a step.
LEMMA OpenOrNotAfter ==
    /\ phase' = "Connection" =>
         /\ MapInv' <=> Follows(central'.procedure, central'.counter, behind', TRUE, "map",
              connection'.pending_channel_map, connection'.channel_map, central'.channel_map)
         /\ TimingInv' <=> Follows(central'.procedure, central'.counter, behind', TRUE, "timing",
              connection'.pending_connection_update, connection'.timing, central'.timing)
    /\ phase' # "Connection" =>
         /\ MapInv' <=> Follows(central'.procedure, central'.counter, behind', FALSE, "map",
              connection'.pending_channel_map, connection'.channel_map, central'.channel_map)
         /\ TimingInv' <=> Follows(central'.procedure, central'.counter, behind', FALSE, "timing",
              connection'.pending_connection_update, connection'.timing, central'.timing)
<1>1. phase' = "Connection" => (phase' = "Connection") = TRUE
    OBVIOUS
<1>2. phase' # "Connection" => (phase' = "Connection") = FALSE
    OBVIOUS
<1> QED BY <1>1, <1>2, Zenon DEF MapInv, TimingInv

\* A step that keeps what both sides know and the number of events between
\* them keeps the invariant on them, unless it leaves the phase Connection.
LEMMA KeepFollows ==
    ASSUME MapInv, TimingInv, phase # "Connection",
           central' = central, behind' = behind,
           connection'.pending_channel_map = connection.pending_channel_map,
           connection'.pending_connection_update = connection.pending_connection_update,
           connection'.channel_map = connection.channel_map,
           connection'.timing = connection.timing
    PROVE  MapInv' /\ TimingInv'
<1>1. \A S, C, b, kind, P, v, V : Follows(S, C, b, FALSE, kind, P, v, V)
                                   => Follows(S, C, b, TRUE, kind, P, v, V)
  <2> SUFFICES ASSUME NEW S, NEW C, NEW b, NEW kind, NEW P, NEW v, NEW V,
                      Follows(S, C, b, FALSE, kind, P, v, V)
               PROVE  Follows(S, C, b, TRUE, kind, P, v, V)
    BY Zenon
  <2>1. ASSUME NEW p \in S
        PROVE  FollowsOne(p, C, b, TRUE, kind, P, v, V)
    <3>1. FollowsOne(p, C, b, FALSE, kind, P, v, V)
        BY Zenon DEF Follows
    <3> QED BY <3>1, OpenOne, Zenon
  <2> QED BY <2>1, Zenon DEF Follows
<1> QED BY <1>1, OpenOrNot, OpenOrNotAfter, Zenon

\* cancel, and handing the prepared event to the radio.
LEMMA CancelInvariant == LeInvariant /\ (Cancel \/ IntoSubmitted) => LeInvariant'
<1> SUFFICES ASSUME LeInvariant, Cancel \/ IntoSubmitted PROVE LeInvariant'
    OBVIOUS
<1>1. /\ phase = "Prepared" /\ phase' \in {"Connection", "InFlight"}
      /\ UNCHANGED <<algorithm, connection, prepared, step, central, behind>>
    BY DEF Cancel, IntoSubmitted
<1>2. Typed /\ HeardInv /\ Linked
    BY <1>1 DEF LeInvariant
<1>3. Typed' /\ HeardInv'
    BY <1>1, <1>2 DEF Typed, HeardInv
<1>4. HopInv'
    BY <1>1, <1>2 DEF Linked, HopInv, Ahead
<1>5. ChannelInv'
    BY <1>1, <1>2 DEF Linked, ChannelInv, Preview
<1>6. ProcedureInv' /\ ClearInv'
    BY <1>1, <1>2 DEF Linked, ProcedureInv, ClearInv, Pending
<1>7. IntervalInv'
    BY <1>1, <1>2 DEF Linked, IntervalInv
<1>8. MapInv' /\ TimingInv'
    BY <1>1, <1>2, KeepFollows DEF Linked
<1> QED BY <1>3, <1>4, <1>5, <1>6, <1>7, <1>8 DEF LeInvariant, Linked

\* The Central gives up: the connection is lost.
LEMMA LeavesInvariant == LeInvariant /\ CentralLeaves => LeInvariant'
BY DEF CentralLeaves, LeInvariant, Typed, HeardInv

\* into_connection.
LEMMA IntoInvariant == LeInvariant /\ IntoConnection => LeInvariant'
<1> SUFFICES ASSUME LeInvariant, IntoConnection PROVE LeInvariant'
    OBVIOUS
<1>1. /\ phase = "Completed" /\ phase' = "Connection" /\ behind' = 1 /\ prepared' = NoEvent
      /\ UNCHANGED <<algorithm, connection, step, central>>
    BY DEF IntoConnection
<1>2. Typed /\ HeardInv /\ Linked
    BY <1>1 DEF LeInvariant
<1>3. Typed' /\ HeardInv'
    BY <1>1, <1>2 DEF Typed, HeardInv, NoEvent, IsPrepared
<1>4. behind = 0 /\ Ahead = 1 /\ Ahead' = 1
    BY <1>1, <1>2 DEF Linked, HopInv, Ahead
<1>5. HopInv'
    BY <1>1, <1>2, <1>4 DEF Linked, HopInv
<1>6. ChannelInv' /\ ProcedureInv'
    BY <1>1, <1>2 DEF Linked, ChannelInv, ProcedureInv, Pending
<1>7. \A p \in central.procedure : p \in Procedures
    BY <1>2, CentralFields DEF Typed
<1>8. \A kind, P, v, V : Follows(central.procedure, central.counter, 0, FALSE, kind, P, v, V)
                          => Follows(central.procedure, central.counter, 1, TRUE, kind, P, v, V)
    BY <1>7, IntoOne, Zenon DEF Follows
<1>9. MapInv' /\ TimingInv'
  <2>1. phase # "Connection"
    BY <1>1
  <2> QED BY <1>1, <1>2, <1>4, <1>8, <2>1, OpenOrNot, OpenOrNotAfter, Zenon DEF Linked
<1>10. /\ step.delta = 1 /\ step.before = 1 /\ step.after = 0
       /\ ~step.switched /\ ~step.paused
       /\ step.walked.before = 0 /\ step.walked.after = 0
    BY <1>1, <1>2 DEF Linked, IntervalInv
<1>11. step.switched = FALSE
    BY <1>2, <1>10 DEF Typed, Steps
<1>12. Split(central.procedure, 1, 1, 1, 0, 0, 0, FALSE)
  <2>1. 0 + 1 = 1
    OBVIOUS
  <2> QED BY <1>7, <2>1, IntoSplit, Zenon DEF Split
<1>13. IntervalInv'
    BY <1>1, <1>10, <1>11, <1>12, Zenon DEF IntervalInv
<1>14. ClearInv'
    BY <1>1, <1>10 DEF ClearInv
<1> QED BY <1>3, <1>5, <1>6, <1>9, <1>13, <1>14 DEF LeInvariant, Linked

\* apply_for_target: what becomes of the fields.
LEMMA ApplyFields ==
    ASSUME NEW c \in Connections, NEW target, NEW skipped
    PROVE  LET M == UpdateForTarget(c.pending_channel_map, target, skipped)
               T == UpdateForTarget(c.pending_connection_update, target, skipped)
           IN  IsUpdated(ApplyForTarget(c, target, skipped), c,
                         Applied(M, c.channel_map), Applied(T, c.timing),
                         c.pending_channel_map \ M, c.pending_connection_update \ T)
<1> DEFINE M == UpdateForTarget(c.pending_channel_map, target, skipped)
           T == UpdateForTarget(c.pending_connection_update, target, skipped)
<1>1. c.pending_channel_map \in SUBSET Updates /\ c.pending_connection_update \in SUBSET Updates
      /\ c.channel_map \in Values /\ c.timing \in Values
    BY ConnectionFields
<1>2. M \in SUBSET c.pending_channel_map /\ T \in SUBSET c.pending_connection_update
    BY DEF UpdateForTarget
<1> HIDE DEF M, T
<1>3. \A U \in SUBSET Updates : \A v \in Values : Applied(U, v) \in Values
    BY DEF Applied, Updates
<1>4. M \in SUBSET Updates /\ T \in SUBSET Updates
    BY <1>1, <1>2
<1>5. Applied(M, c.channel_map) \in Values /\ Applied(T, c.timing) \in Values
    BY <1>1, <1>3, <1>4, Zenon
<1>6. c.pending_channel_map \ M \in SUBSET Updates /\ c.pending_connection_update \ T \in SUBSET Updates
    BY <1>1
<1>7. ApplyForTarget(c, target, skipped)
        = Updated(c, Applied(M, c.channel_map), Applied(T, c.timing),
                  c.pending_channel_map \ M, c.pending_connection_update \ T)
    BY Zenon DEF ApplyForTarget, Applied, Updated, M, T
<1>8. IsUpdated(ApplyForTarget(c, target, skipped), c,
                Applied(M, c.channel_map), Applied(T, c.timing),
                c.pending_channel_map \ M, c.pending_connection_update \ T)
    BY <1>5, <1>6, <1>7, UpdateFields, Zenon
<1> QED BY <1>8 DEF M, T

\* The updates a step of s events beyond the next one applies, counted from
\* the Central's event.
LEMMA TargetWithin ==
    ASSUME NEW C \in Counters, NEW e \in Nat, NEW s \in Nat, NEW P
    PROVE  /\ Wrap(Wrap(C + e) + s) = Wrap(C + (e + s))
           /\ Wrap(Wrap(Wrap(C + e) + s) - s) = Wrap(C + e)
           /\ UpdateForTarget(P, Wrap(Wrap(C + e) + s), s) = Within(P, C, e, s)
<1>1. PICK a \in Int : a = C + e
    BY CounterType
<1>2. PICK w \in Int : w = Wrap(a) /\ w \in Counters
  <2>1. Wrap(a) \in Counters
    BY WrapAdd
  <2> QED BY <2>1, CounterType
<1>3. a + s \in Int /\ a + s = C + (e + s) /\ w + s \in Int /\ (w + s) - s = w /\ s \in Int
    BY <1>1, CounterType
<1>4. Wrap(w + s) = Wrap(a + s)
    BY <1>2, <1>3, WrapAdd
<1>5. Wrap(Wrap(w + s) - s) = Wrap((w + s) - s)
    BY <1>3, WrapAdd
<1>6. Wrap(w) = w
  <2>1. 0 <= w /\ w < Modulus /\ 0 - Modulus <= w
    BY <1>2, CounterType, ConstantTypes
  <2> QED BY <2>1, WrapNear
<1>7. Wrap(Wrap(w + s) - s) = w
    BY <1>3, <1>5, <1>6
<1> QED BY <1>1, <1>2, <1>3, <1>4, <1>7, Zenon DEF UpdateForTarget, Within

\* The updates due at the event itself.
LEMMA NowWithin ==
    ASSUME NEW C \in Counters, NEW e \in Nat, NEW P
    PROVE  UpdateForTarget(P, Wrap(C + e), 0) = Within(P, C, e, 0)
<1>1. C + e \in Int
    BY CounterType
<1>2. PICK w \in Int : w = Wrap(C + e) /\ w \in Counters
  <2>1. Wrap(C + e) \in Counters
    BY <1>1, WrapAdd
  <2> QED BY <2>1, CounterType
<1>3. 0 <= w /\ w < Modulus /\ 0 - Modulus <= w
    BY <1>2, CounterType, ConstantTypes
<1>4. Wrap(w) = w /\ w - 0 = w
    BY <1>3, WrapNear
<1> QED BY <1>2, <1>4, Zenon DEF UpdateForTarget, Within

\* prepare_event.
LEMMA PrepareInvariant == LeInvariant /\ PrepareEvent => LeInvariant'
<1> SUFFICES ASSUME LeInvariant, PrepareEvent PROVE LeInvariant'
    OBVIOUS
<1> DEFINE C == central.counter
           M == Within(connection.pending_channel_map, C, behind, 0)
           T == Within(connection.pending_connection_update, C, behind, 0)
<1>1. /\ phase = "Connection" /\ phase' = "Prepared"
      /\ connection' = ApplyForTarget(connection, connection.event_counter, 0)
      /\ UNCHANGED <<algorithm, step, central, behind>>
    BY DEF PrepareEvent
<1>2. Typed /\ HeardInv /\ Linked
    BY <1>1 DEF LeInvariant
<1>3. connection \in Connections /\ central \in Centrals /\ C \in Counters /\ behind \in Nat
      /\ IsPrepared(prepared)
    BY <1>2, CentralFields DEF Typed
<1>4. behind >= 1 /\ connection.event_counter = Wrap(C + behind)
    BY <1>1, <1>2 DEF Linked, HopInv, Ahead
<1>5. \A P : UpdateForTarget(P, connection.event_counter, 0) = Within(P, C, behind, 0)
    BY <1>3, <1>4, NowWithin, Zenon
<1>6. IsUpdated(connection', connection,
                Applied(M, connection.channel_map), Applied(T, connection.timing),
                connection.pending_channel_map \ M, connection.pending_connection_update \ T)
    BY <1>1, <1>3, <1>5, ApplyFields, Zenon
<1>7. IsPrepared(prepared') /\ ChannelInv'
  <2>1. PICK map, update, preview :
          /\ preview = Preview(connection'.channel_map, connection'.last_unmapped,
                               connection.event_counter)
          /\ prepared' = [prepared EXCEPT
                !.channel = preview.channel, !.unmapped = preview.unmapped,
                !.channel_map_updated = map, !.connection_timing_transition = update]
    BY Zenon DEF PrepareEvent
  <2>2. IsPrepared(prepared') /\ prepared'.channel = preview.channel
        /\ prepared'.unmapped = preview.unmapped
    BY <1>3, <2>1, Zenon DEF IsPrepared
  <2>3. preview = Preview(connection.channel_map, connection.last_unmapped,
                          connection.event_counter)'
    BY <1>1, <1>6, <2>1 DEF Preview, IsUpdated
  <2> QED BY <2>2, <2>3 DEF ChannelInv
<1>8. Typed'
    BY <1>1, <1>2, <1>6, <1>7 DEF Typed, IsUpdated
<1>9. HeardInv'
    BY <1>1, <1>2, <1>6 DEF HeardInv, IsUpdated
<1>10. HopInv'
    BY <1>1, <1>2, <1>6 DEF Linked, HopInv, Ahead, IsUpdated
<1>11. ProcedureInv'
  <2>1. Pending(connection') # {} => Pending(connection) # {}
    BY <1>6 DEF Pending, IsUpdated
  <2>2. connection'.maintenance = connection.maintenance
    BY <1>6 DEF IsUpdated
  <2> QED BY <1>1, <1>2, <2>1, <2>2 DEF Linked, ProcedureInv
<1>12. \A p \in central.procedure : p \in Procedures
    BY <1>3, CentralFields
<1>13. ASSUME NEW kind, NEW P, NEW v, NEW V,
              Follows(central.procedure, C, behind, TRUE, kind, P, v, V)
       PROVE  Follows(central.procedure, C, behind, FALSE, kind,
                      P \ Within(P, C, behind, 0), Applied(Within(P, C, behind, 0), v), V)
  <2>1. P = {} => Within(P, C, behind, 0) = {} /\ P \ Within(P, C, behind, 0) = {}
    BY DEF Within
  <2>2. central.procedure = {} => P \ Within(P, C, behind, 0) = {}
                                   /\ Applied(Within(P, C, behind, 0), v) = V
    BY <1>13, <2>1 DEF Follows, Applied
  <2>3. 1 <= behind
    BY <1>3, <1>4
  <2>4. \A p \in central.procedure :
          FollowsOne(p, C, behind, FALSE, kind, P \ Within(P, C, behind, 0),
                     Applied(Within(P, C, behind, 0), v), V)
    BY <1>3, <1>12, <1>13, <2>3, PrepareOne, Zenon DEF Follows
  <2> QED BY <2>2, <2>4, Zenon DEF Follows
<1>14. MapInv' /\ TimingInv'
  <2>1. /\ connection'.pending_channel_map = connection.pending_channel_map \ M
        /\ connection'.pending_connection_update = connection.pending_connection_update \ T
        /\ connection'.channel_map = Applied(M, connection.channel_map)
        /\ connection'.timing = Applied(T, connection.timing)
        /\ central' = central /\ behind' = behind /\ phase' # "Connection"
    BY <1>1, <1>6 DEF IsUpdated
  <2>2. /\ Follows(central.procedure, C, behind, TRUE, "map",
              connection.pending_channel_map, connection.channel_map, central.channel_map)
        /\ Follows(central.procedure, C, behind, TRUE, "timing",
              connection.pending_connection_update, connection.timing, central.timing)
    BY <1>1, <1>2, OpenOrNot, Zenon DEF Linked
  <2>3. /\ Follows(central.procedure, C, behind, FALSE, "map",
              connection'.pending_channel_map, connection'.channel_map, central.channel_map)
        /\ Follows(central.procedure, C, behind, FALSE, "timing",
              connection'.pending_connection_update, connection'.timing, central.timing)
    <3>1. /\ Follows(central.procedure, C, behind, FALSE, "map",
                connection.pending_channel_map \ M, Applied(M, connection.channel_map),
                central.channel_map)
          /\ Follows(central.procedure, C, behind, FALSE, "timing",
                connection.pending_connection_update \ T, Applied(T, connection.timing),
                central.timing)
        BY <1>13, <2>2, Zenon
    <3> HIDE DEF M, T
    <3> QED BY <2>1, <3>1, Zenon
  <2> QED BY <2>1, <2>3, OpenOrNotAfter, Zenon
<1>15. IntervalInv' /\ ClearInv'
    BY <1>1, <1>2 DEF Linked, IntervalInv, ClearInv
<1> QED BY <1>7, <1>8, <1>9, <1>10, <1>11, <1>14, <1>15 DEF LeInvariant, Linked

\* commit_skip keeps the rest of the maintenance state.
LEMMA CommitSkipFields ==
    ASSUME NEW m \in Maintenances, NEW pause \in BOOLEAN
    PROVE  LET r == CommitSkip(m, pause)
           IN  /\ r \in Maintenances
               /\ r.initial_acknowledged = m.initial_acknowledged
               /\ r.instant_acknowledgement = m.instant_acknowledgement
               /\ pause => r.recovery_required
               /\ ~pause => r.recovery_required = m.recovery_required
BY Zenon DEF CommitSkip, Maintenances

\* What a committed step leaves, counted from the Central's event.
Committed(delta, pause) ==
    LET C == central.counter
        M == Within(connection.pending_channel_map, C, 1, delta - 1)
        T == Within(connection.pending_connection_update, C, 1, delta - 1)
    IN  /\ connection' \in Connections
        /\ connection'.event_counter = Wrap(C + delta)
        /\ connection'.last_unmapped = Skip(connection.last_unmapped, delta - 1)
        /\ connection'.channel_map = Applied(M, connection.channel_map)
        /\ connection'.timing = Applied(T, connection.timing)
        /\ connection'.pending_channel_map = connection.pending_channel_map \ M
        /\ connection'.pending_connection_update = connection.pending_connection_update \ T
        /\ connection'.maintenance = CommitSkip(connection.maintenance, pause)

\* A remainder by the channels is a channel.
LEMMA SkipType ==
    ASSUME NEW l \in 0..(Channels - 1), NEW s \in Nat
    PROVE  /\ Skip(l, s) \in 0..(Channels - 1)
           /\ algorithm = "One" =>
                \A x \in Int : Remainder(Skip(l, s) + x, Channels)
                                 = Remainder(l + Hop * s + x, Channels)
<1>1. algorithm = "One" =>
        Skip(l, s) = Remainder(l + Remainder(Hop * Remainder(s, Channels), Channels), Channels)
    BY Zenon DEF Skip, Remainder
<1>2. algorithm # "One" => Skip(l, s) = l
    BY DEF Skip
<1>3. l \in Int /\ Remainder(s, Channels) \in Int
    BY ConstantTypes, RemainderType
<1>4. PICK h \in Int : h = Hop * Remainder(s, Channels)
    BY <1>3, ConstantTypes
<1>5. PICK r \in Int : r = Remainder(h, Channels)
    BY ConstantTypes, RemainderType
<1>6. Remainder(l + r, Channels) \in 0..(Channels - 1)
    BY <1>3, ConstantTypes, RemainderType
<1>7. \A x \in Int :
        Remainder(Remainder(l + Remainder(Hop * Remainder(s, Channels), Channels), Channels) + x,
                  Channels) = Remainder(l + Hop * s + x, Channels)
    BY <1>3, HopSkipped, Zenon
<1> QED BY <1>1, <1>2, <1>4, <1>5, <1>6, <1>7, Zenon

\* The connection of a committed step.
LEMMA CommitConnection ==
    ASSUME LeInvariant, NEW delta \in 1..MaxDelta, NEW pause \in BOOLEAN, Commit(delta, pause)
    PROVE  Committed(delta, pause)
<1> DEFINE C == central.counter
           s == delta - 1
           E == connection.event_counter
           target == Wrap(E + s)
           c == ApplyForTarget(connection, target, s)
           M == Within(connection.pending_channel_map, C, 1, s)
           T == Within(connection.pending_connection_update, C, 1, s)
<1>1. phase = "Completed" /\ Typed /\ Linked
    BY DEF Commit, LeInvariant
<1>2. connection \in Connections /\ C \in Counters /\ E = Wrap(C + 1)
    BY <1>1, CentralFields DEF Typed, Linked, HopInv, Ahead
<1>3. s \in Nat /\ 1 \in Nat /\ 1 + s = delta
    BY ConstantTypes
<1>4. connection' = Moved(c, target, Skip(connection.last_unmapped, s),
                          CommitSkip(c.maintenance, pause))
    BY Zenon DEF Commit, Moved
<1> HIDE DEF s
<1>5. target = Wrap(C + delta) /\ \A P : UpdateForTarget(P, target, s) = Within(P, C, 1, s)
  <2>1. /\ Wrap(Wrap(C + 1) + s) = Wrap(C + (1 + s))
        /\ \A P : UpdateForTarget(P, Wrap(Wrap(C + 1) + s), s) = Within(P, C, 1, s)
    <3>1. \A P : /\ Wrap(Wrap(C + 1) + s) = Wrap(C + (1 + s))
                 /\ UpdateForTarget(P, Wrap(Wrap(C + 1) + s), s) = Within(P, C, 1, s)
        BY <1>2, <1>3, TargetWithin
    <3> QED BY <3>1
  <2> HIDE DEF C, E
  <2> QED BY <1>2, <1>3, <2>1, Zenon
<1>6. target \in Counters
  <2>1. C + delta \in Int
    BY <1>2, CounterType
  <2> QED BY <2>1, <1>5, WrapAdd, Zenon
<1>7. IsUpdated(c, connection,
                Applied(M, connection.channel_map), Applied(T, connection.timing),
                connection.pending_channel_map \ M, connection.pending_connection_update \ T)
    BY <1>2, <1>5, ApplyFields, Zenon
<1> HIDE DEF c, target, M, T
<1>8. c \in Connections /\ c.maintenance = connection.maintenance
    BY <1>7 DEF IsUpdated
<1>9. Skip(connection.last_unmapped, s) \in 0..(Channels - 1)
    BY <1>2, <1>3, ConnectionFields, SkipType
<1>10. CommitSkip(c.maintenance, pause) \in Maintenances
    BY <1>8, ConnectionFields, CommitSkipFields
<1>11. IsMoved(connection', c, target, Skip(connection.last_unmapped, s),
               CommitSkip(c.maintenance, pause))
    BY <1>4, <1>6, <1>8, <1>9, <1>10, MoveFields, Zenon
<1>12. /\ connection'.event_counter = Wrap(C + delta)
       /\ connection'.maintenance = CommitSkip(connection.maintenance, pause)
       /\ connection'.channel_map = Applied(M, connection.channel_map)
       /\ connection'.timing = Applied(T, connection.timing)
       /\ connection'.pending_channel_map = connection.pending_channel_map \ M
       /\ connection'.pending_connection_update = connection.pending_connection_update \ T
    BY <1>5, <1>7, <1>8, <1>11, Zenon DEF IsUpdated, IsMoved
<1> QED BY <1>11, <1>12, Zenon DEF Committed, IsMoved, M, T, s

\* The intervals of a step, in terms of the Connection Update on the way.
LEMMA IntervalValues ==
    ASSUME NEW c, NEW C \in Counters, NEW delta \in Nat, 1 <= delta,
           c.event_counter = Wrap(C + 1)
    PROVE  LET split == Intervals(c, Wrap(c.event_counter + (delta - 1)), delta - 1)
               T == Within(c.pending_connection_update, C, 1, delta - 1)
               offset == Wrap((CHOOSE u \in T : TRUE).instant - Wrap(C + 1))
           IN  /\ T = {} => split.before = delta /\ split.after = 0
               /\ T # {} => split.before = offset + 1 /\ split.after = (delta - 1) - offset
<1>1. PICK s \in Nat : s = delta - 1 /\ s + 1 = delta
    OBVIOUS
<1> DEFINE T == Within(c.pending_connection_update, C, 1, s)
           offset == Wrap((CHOOSE u \in T : TRUE).instant - Wrap(C + 1))
           split == Intervals(c, Wrap(c.event_counter + s), s)
<1>2. /\ Wrap(Wrap(Wrap(C + 1) + s) - s) = Wrap(C + 1)
      /\ UpdateForTarget(c.pending_connection_update, Wrap(Wrap(C + 1) + s), s) = T
    BY TargetWithin
<1>3. split = IF T = {} THEN [before |-> s + 1, after |-> 0]
              ELSE [before |-> offset + 1, after |-> s - offset]
    BY <1>2, Zenon DEF Intervals
<1> HIDE DEF split, T, offset
<1>4. /\ T = {} => split.before = s + 1 /\ split.after = 0
      /\ T # {} => split.before = offset + 1 /\ split.after = s - offset
    BY <1>3
<1> QED BY <1>1, <1>4, Zenon DEF split, T, offset

\* A committed step keeps the Peripheral with the Central's procedure.
LEMMA CommitFollows ==
    ASSUME NEW S \in SUBSET Procedures, NEW C \in Counters, NEW delta \in 1..MaxDelta,
           NEW kind, NEW P, NEW v, NEW V, Follows(S, C, 0, FALSE, kind, P, v, V)
    PROVE  LET U == Within(P, C, 1, delta - 1)
           IN  /\ Follows(S, C, delta, FALSE, kind, P \ U, Applied(U, v), V)
               /\ S = {} => U = {}
               /\ \A p \in S :
                    /\ ~Passed(p, kind) => (U # {} <=> Comes(p, kind, delta))
                    /\ U # {} =>
                         Wrap((CHOOSE u \in U : TRUE).instant - Wrap(C + 1)) = p.left - 1
<1> DEFINE U == Within(P, C, 1, delta - 1)
<1>1. delta \in Nat /\ 1 <= delta /\ delta <= MaxDelta
    BY ConstantTypes
<1>2. \A p \in S :
        /\ FollowsOne(p, C, delta, FALSE, kind, P \ U, Applied(U, v), V)
        /\ ~Passed(p, kind) => (U # {} <=> Comes(p, kind, delta))
        /\ U # {} => Wrap((CHOOSE u \in U : TRUE).instant - Wrap(C + 1)) = p.left - 1
  <2> SUFFICES ASSUME NEW p \in S
               PROVE  /\ FollowsOne(p, C, delta, FALSE, kind, P \ U, Applied(U, v), V)
                      /\ ~Passed(p, kind) => (U # {} <=> Comes(p, kind, delta))
                      /\ U # {} => Wrap((CHOOSE u \in U : TRUE).instant - Wrap(C + 1)) = p.left - 1
    BY Zenon
  <2>1. p \in Procedures /\ FollowsOne(p, C, 0, FALSE, kind, P, v, V)
    BY Zenon DEF Follows
  <2> QED BY <1>1, <2>1, CommitOne, Zenon
<1>3. S = {} => U = {} /\ P \ U = {} /\ Applied(U, v) = V
    BY DEF Follows, Within, Applied
<1> HIDE DEF U
<1> QED BY <1>2, <1>3, Zenon DEF Follows, U

\* prepare_recurring_event and prepare_maintenance_event, committed.
LEMMA CommitInvariant ==
    ASSUME LeInvariant, NEW delta \in 1..MaxDelta, NEW pause \in BOOLEAN, Commit(delta, pause)
    PROVE  LeInvariant'
<1> DEFINE C == central.counter
           S == central.procedure
           M == Within(connection.pending_channel_map, C, 1, delta - 1)
           T == Within(connection.pending_connection_update, C, 1, delta - 1)
           offset == Wrap((CHOOSE u \in T : TRUE).instant - Wrap(C + 1))
           split == Intervals(connection, Wrap(connection.event_counter + (delta - 1)), delta - 1)
<1>1. /\ phase = "Completed" /\ phase' = "Prepared" /\ behind' = delta
      /\ pause => SkipEligible(connection, delta)
      /\ UNCHANGED <<algorithm, central>>
    BY DEF Commit
<1>2. step' = [delta |-> delta, before |-> split.before, after |-> split.after,
               paused |-> pause, earned |-> step.serviced /\ central.heard,
               walked |-> [before |-> 0, after |-> 0], switched |-> FALSE,
               serviced |-> IF pause THEN FALSE ELSE step.serviced]
    BY Zenon DEF Commit
<1>3. Typed /\ HeardInv /\ Linked
    BY <1>1 DEF LeInvariant
<1>4. /\ connection \in Connections /\ central \in Centrals /\ C \in Counters
      /\ S \in SUBSET Procedures /\ step \in Steps /\ behind = 0 /\ Ahead = 1
      /\ connection.event_counter = Wrap(C + 1)
    BY <1>1, <1>3, CentralFields DEF Typed, Linked, HopInv, Ahead
<1>5. delta \in Nat /\ 1 <= delta /\ delta <= MaxDelta /\ delta - 1 \in Nat
    BY ConstantTypes
<1>6. Committed(delta, pause)
    BY CommitConnection
<1>7. /\ connection' \in Connections
      /\ connection'.event_counter = Wrap(C + delta)
      /\ connection'.last_unmapped = Skip(connection.last_unmapped, delta - 1)
      /\ connection'.channel_map = Applied(M, connection.channel_map)
      /\ connection'.timing = Applied(T, connection.timing)
      /\ connection'.pending_channel_map = connection.pending_channel_map \ M
      /\ connection'.pending_connection_update = connection.pending_connection_update \ T
      /\ connection'.maintenance = CommitSkip(connection.maintenance, pause)
    BY <1>6, Zenon DEF Committed
<1>8. /\ Follows(S, C, 0, FALSE, "map", connection.pending_channel_map,
                 connection.channel_map, central.channel_map)
      /\ Follows(S, C, 0, FALSE, "timing", connection.pending_connection_update,
                 connection.timing, central.timing)
  <2>1. phase # "Connection"
    BY <1>1
  <2> QED BY <1>3, <1>4, <2>1, OpenOrNot, Zenon DEF Linked
<1>9. /\ Follows(S, C, delta, FALSE, "map", connection.pending_channel_map \ M,
                 Applied(M, connection.channel_map), central.channel_map)
      /\ Follows(S, C, delta, FALSE, "timing", connection.pending_connection_update \ T,
                 Applied(T, connection.timing), central.timing)
    BY <1>4, <1>8, CommitFollows, Zenon
<1>10. /\ S = {} => T = {}
       /\ \A p \in S : /\ ~Passed(p, "timing") => (T # {} <=> Comes(p, "timing", delta))
                       /\ T # {} => offset = p.left - 1
    BY <1>4, <1>8, CommitFollows, Zenon
<1>11. /\ T = {} => split.before = delta /\ split.after = 0
       /\ T # {} => split.before = offset + 1 /\ split.after = (delta - 1) - offset
    BY <1>4, <1>5, IntervalValues, Zenon
<1> HIDE DEF C, S, M, T, offset, split
<1>12. /\ step'.delta = delta /\ step'.before = split.before /\ step'.after = split.after
       /\ step'.paused = pause /\ step'.earned = (step.serviced /\ central.heard)
       /\ step'.walked.before = 0 /\ step'.walked.after = 0 /\ step'.switched = FALSE
       /\ step'.serviced = IF pause THEN FALSE ELSE step.serviced
    BY <1>2
<1>13. \A p \in S : T # {} => split.before = p.left /\ split.after = delta - p.left
  <2> SUFFICES ASSUME NEW p \in S, T # {}
               PROVE  split.before = p.left /\ split.after = delta - p.left
    OBVIOUS
  <2>1. PICK l \in Int : l = p.left
    BY <1>4, ConstantTypes DEF Procedures
  <2> QED BY <1>5, <1>10, <1>11, <2>1
<1>14. split.before \in Int /\ split.after \in Int
  <2>1. CASE T = {}
    BY <1>5, <1>11, <2>1
  <2>2. CASE T # {}
    <3>1. PICK p \in S : p \in Procedures
        BY <1>4, <1>10, <2>2
    <3>2. p.left \in Int
        BY <3>1, ConstantTypes DEF Procedures
    <3> QED BY <1>5, <1>13, <2>2, <3>1, <3>2
  <2> QED BY <2>1, <2>2
<1>15. step' \in Steps
  <2>1. step.serviced \in BOOLEAN /\ central.heard \in BOOLEAN
    BY <1>4, CentralFields DEF Steps
  <2>2. (step.serviced /\ central.heard) \in BOOLEAN
        /\ (IF pause THEN FALSE ELSE step.serviced) \in BOOLEAN
    BY <2>1, Zenon
  <2> QED BY <1>2, <1>5, <1>14, <2>2, Zenon DEF Steps
<1>16. IsPrepared(prepared')
    BY DEF Commit, IsPrepared
<1>17. Typed'
    BY <1>1, <1>3, <1>5, <1>7, <1>15, <1>16 DEF Typed
<1>18. ChannelInv'
  <2>1. PICK preview :
          /\ preview = Preview(connection'.channel_map, connection'.last_unmapped,
                               connection'.event_counter)
          /\ prepared'.channel = preview.channel /\ prepared'.unmapped = preview.unmapped
    BY <1>7 DEF Commit
  <2>2. preview = Preview(connection.channel_map, connection.last_unmapped,
                          connection.event_counter)'
    BY <1>1, <2>1 DEF Preview
  <2> QED BY <2>1, <2>2 DEF ChannelInv
<1>19. HopInv'
  <2>1. connection'.event_counter = Wrap(central'.counter + Ahead') /\ Ahead' = delta
    BY <1>1, <1>7 DEF Ahead, C
  <2>2. algorithm = "One" =>
          Remainder(connection'.last_unmapped + Hop, Channels)
            = Remainder(central.last_unmapped + Hop * delta, Channels)
    <3> SUFFICES ASSUME algorithm = "One"
                 PROVE  Remainder(connection'.last_unmapped + Hop, Channels)
                          = Remainder(central.last_unmapped + Hop * delta, Channels)
        OBVIOUS
    <3>1. PICK l \in Int : l = connection.last_unmapped /\ l \in 0..(Channels - 1)
        BY <1>4, ConnectionFields, ConstantTypes
    <3>2. PICK L \in Int : L = central.last_unmapped
        BY <1>4, CentralFields, ConstantTypes
    <3>3. PICK g \in Int : g = Hop * (delta - 1)
        BY <1>5, ConstantTypes
    <3>4. Hop \in Int /\ Hop * delta = Hop + g /\ Hop * 1 = Hop
        BY <1>5, <3>3, ConstantTypes
    <3>5. Remainder(connection'.last_unmapped + Hop, Channels) = Remainder(l + g + Hop, Channels)
        BY <1>5, <1>7, <3>1, <3>3, <3>4, SkipType
    <3>6. Remainder(l + Hop, Channels) = Remainder(L + Hop, Channels)
        BY <1>3, <1>4, <3>1, <3>2, <3>4 DEF Linked, HopInv
    <3>7. PICK x \in Int : x = l + Hop
        BY <3>4
    <3>8. PICK y \in Int : y = L + Hop
        BY <3>4
    <3>9. Remainder(x + g, Channels) = Remainder(y + g, Channels)
      <4>1. /\ Remainder(Remainder(x, Channels) + g, Channels) = Remainder(x + g, Channels)
            /\ Remainder(Remainder(y, Channels) + g, Channels) = Remainder(y + g, Channels)
        <5>1. Channels \in Nat \ {0}
            BY ConstantTypes
        <5> QED BY <5>1, RemainderAdd, Zenon
      <4> QED BY <4>1, <3>6, <3>7, <3>8
    <3>10. l + g + Hop = x + g /\ L + Hop * delta = y + g
        BY <3>4, <3>7, <3>8
    <3> QED BY <3>2, <3>5, <3>9, <3>10
  <2> QED BY <1>1, <1>5, <2>1, <2>2 DEF HopInv
<1>20. connection.maintenance \in Maintenances
    BY <1>4, ConnectionFields
<1>21. /\ connection'.maintenance.initial_acknowledged = connection.maintenance.initial_acknowledged
       /\ connection'.maintenance.instant_acknowledgement
            = connection.maintenance.instant_acknowledgement
       /\ pause => connection'.maintenance.recovery_required
       /\ ~pause => connection'.maintenance.recovery_required = connection.maintenance.recovery_required
    BY <1>7, <1>20, CommitSkipFields
<1>22. HeardInv'
  <2>1. pause => step.serviced /\ central.heard
    BY <1>1, <1>3 DEF SkipEligible, HeardInv
  <2>2. step'.paused => step'.earned
    BY <1>12, <2>1, Zenon
  <2>3. connection'.maintenance.recovery_required \/ step'.serviced
    BY <1>3, <1>12, <1>21 DEF HeardInv
  <2>4. connection'.maintenance.initial_acknowledged => central'.heard
    BY <1>1, <1>3, <1>21 DEF HeardInv
  <2> QED BY <2>2, <2>3, <2>4 DEF HeardInv
<1>23. ProcedureInv'
  <2>1. Pending(connection') # {} => Pending(connection) # {}
    BY <1>7 DEF Pending
  <2> QED BY <1>1, <1>3, <1>21, <2>1 DEF Linked, ProcedureInv
<1>24. MapInv' /\ TimingInv'
  <2>1. phase' # "Connection"
    BY <1>1
  <2>2. /\ Follows(central'.procedure, central'.counter, behind', FALSE, "map",
              connection'.pending_channel_map, connection'.channel_map, central'.channel_map)
        /\ Follows(central'.procedure, central'.counter, behind', FALSE, "timing",
              connection'.pending_connection_update, connection'.timing, central'.timing)
    BY <1>1, <1>7, <1>9, Zenon DEF S, C
  <2> QED BY <2>1, <2>2, OpenOrNotAfter, Zenon
<1>25. IntervalInv'
  <2>1. \A p \in S : SplitOne(p, delta, delta, split.before, split.after, 0, 0, FALSE)
    <3> SUFFICES ASSUME NEW p \in S
                 PROVE  SplitOne(p, delta, delta, split.before, split.after, 0, 0, FALSE)
        BY Zenon
    <3>1. p \in Procedures
        BY <1>4
    <3> QED BY <1>5, <1>10, <1>11, <1>13, <3>1, CommitSplit, Zenon
  <2>2. S = {} => 0 + delta = delta /\ split.before = delta /\ split.after = 0
    BY <1>5, <1>10, <1>11
  <2>3. Split(S, delta, delta, split.before, split.after, 0, 0, FALSE)
    BY <2>1, <2>2, Zenon DEF Split
  <2>4. phase' # "Completed" /\ central'.procedure = S
    BY <1>1 DEF S
  <2> QED BY <1>1, <1>12, <2>3, <2>4, Zenon DEF IntervalInv
<1>26. ClearInv'
  <2> SUFFICES ASSUME pause, NEW p \in S
               PROVE  ClearOne(p, delta, delta)
    BY <1>1, <1>12, Zenon DEF ClearInv, S
  <2>1. /\ delta > 1 /\ \A u \in Pending(connection) : ~Protected(u.instant, Wrap(C + 1), delta - 1)
        /\ Pending(connection) # {} =>
              connection.maintenance.instant_acknowledgement = "Confirmed"
    BY <1>1, <1>4 DEF SkipEligible
  <2>2. p \in Procedures /\ p.kind \in Kinds
    BY <1>4 DEF Procedures
  <2>3. (Known(p) => p.left >= 0)
        /\ (p.status = "accepted" /\ Pending(connection) # {} =>
              connection.maintenance.instant_acknowledgement # "Confirmed")
    BY <1>3 DEF Linked, ProcedureInv, S
  <2>4. ASSUME NEW kind, NEW P, NEW v, NEW V, FollowsOne(p, C, 0, FALSE, kind, P, v, V),
               p.kind = kind, P \subseteq Pending(connection)
        PROVE  ClearOne(p, delta, delta)
    <3>1. \A u \in P : ~Protected(u.instant, Wrap(C + 1), delta - 1)
        BY <2>1, <2>4
    <3>2. P # {} => p.status # "accepted"
        BY <2>1, <2>3, <2>4
    <3> QED BY <1>4, <1>5, <2>1, <2>2, <2>3, <2>4, <3>1, <3>2, PauseOne, Zenon
  <2>5. CASE p.kind = "map"
    <3>1. connection.pending_channel_map \subseteq Pending(connection)
        BY DEF Pending
    <3> QED BY <1>8, <2>4, <2>5, <3>1, Zenon DEF Follows
  <2>6. CASE p.kind = "timing"
    <3>1. connection.pending_connection_update \subseteq Pending(connection)
        BY DEF Pending
    <3> QED BY <1>8, <2>4, <2>6, <3>1, Zenon DEF Follows
  <2> QED BY <2>2, <2>5, <2>6 DEF Kinds
<1> QED BY <1>17, <1>18, <1>19, <1>22, <1>23, <1>24, <1>25, <1>26 DEF LeInvariant, Linked

\* complete.
LEMMA CompleteInvariant ==
    ASSUME LeInvariant, NEW activity, Complete(activity)
    PROVE  LeInvariant'
<1> DEFINE C == central.counter
           e == Wrap(connection.event_counter + 1)
           l == IF algorithm = "One" THEN prepared.unmapped ELSE connection.last_unmapped
           s == IF connection.state = "Established" \/ activity = "Observed"
                THEN "Established" ELSE connection.state
<1>1. /\ phase = "InFlight" /\ behind = 0 /\ phase' \in {"Lost", "Completed"}
      /\ step' = [FirstStep EXCEPT !.serviced = step.serviced]
      /\ UNCHANGED <<algorithm, central, behind>>
    BY DEF Complete
<1>2. connection' = Closed(connection, e, l, s)
    BY Zenon DEF Complete, Closed
<1>3. Typed /\ HeardInv /\ Linked
    BY <1>1 DEF LeInvariant
<1>4. /\ connection \in Connections /\ central \in Centrals /\ C \in Counters
      /\ step \in Steps /\ IsPrepared(prepared)
      /\ connection.event_counter \in Counters /\ connection.last_unmapped \in 0..(Channels - 1)
      /\ connection.state \in {"Created", "Established"}
      /\ central.last_unmapped \in 0..(Channels - 1)
    BY <1>3, CentralFields, ConnectionFields DEF Typed
<1>5. connection.event_counter = Wrap(C + 0)
    BY <1>1, <1>3 DEF Linked, HopInv, Ahead
<1>6. e = Wrap(C + 1) /\ e \in Counters
  <2>1. PICK z \in Int : z = 0
    OBVIOUS
  <2>2. C \in Int /\ C + z \in Int /\ 1 \in Int /\ (C + z) + 1 = C + 1 /\ C + 1 \in Int
    BY <1>4, <2>1, CounterType
  <2>3. connection.event_counter = Wrap(C + z)
    BY <1>5, <2>1
  <2>4. Wrap(Wrap(C + z) + 1) = Wrap((C + z) + 1) /\ Wrap(C + 1) \in Counters
    BY <2>2, WrapAdd, Zenon
  <2> QED BY <2>2, <2>3, <2>4
<1>7. algorithm = "One" => prepared.unmapped = Remainder(connection.last_unmapped + Hop, Channels)
    BY <1>1, <1>3 DEF Linked, ChannelInv, Preview, Remainder
<1>8. connection.last_unmapped \in Int /\ Hop \in Int /\ connection.last_unmapped + Hop \in Int
    BY <1>4, ConstantTypes
<1>9. l \in 0..(Channels - 1)
    BY <1>4, <1>7, <1>8, RemainderType, ConstantTypes
<1>10. s \in {"Created", "Established"}
    BY <1>4
<1>11. IsClosed(connection', connection, e, l)
    BY <1>2, <1>4, <1>6, <1>9, <1>10, CompleteFields, Zenon
<1> HIDE DEF e, l, s
<1>12. IsPrepared(prepared')
    BY <1>4, Zenon DEF IsPrepared, Complete
<1>13. step.serviced \in BOOLEAN
    BY <1>4 DEF Steps
<1>14. /\ step' \in Steps
       /\ step'.delta = 1 /\ step'.before = 1 /\ step'.after = 0
       /\ step'.switched = FALSE /\ step'.paused = FALSE
       /\ step'.walked.before = 0 /\ step'.walked.after = 0
       /\ step'.serviced = step.serviced /\ step'.earned = TRUE
  <2>1. step' = [delta |-> 1, before |-> 1, after |-> 0, paused |-> FALSE, earned |-> TRUE,
                 walked |-> [before |-> 0, after |-> 0], switched |-> FALSE,
                 serviced |-> step.serviced]
    BY <1>1, Zenon DEF FirstStep
  <2>2. step' \in Steps
    BY <1>13, <2>1 DEF Steps
  <2> QED BY <2>1, <2>2
<1>15. Typed'
    BY <1>1, <1>3, <1>11, <1>12, <1>14 DEF Typed, IsClosed
<1>16. HeardInv'
    BY <1>1, <1>3, <1>11, <1>14 DEF HeardInv, IsClosed
<1>17. SUFFICES ASSUME phase' = "Completed" PROVE Linked'
    BY <1>1, <1>15, <1>16 DEF LeInvariant
<1>18. HopInv'
  <2>1. Ahead' = 1 /\ Ahead = 0 /\ connection'.event_counter = Wrap(central'.counter + 1)
    BY <1>1, <1>6, <1>11, <1>17 DEF Ahead, IsClosed, C
  <2>2. algorithm = "One" =>
          Remainder(connection'.last_unmapped + Hop, Channels)
            = Remainder(central.last_unmapped + Hop * 1, Channels)
    <3> SUFFICES ASSUME algorithm = "One"
                 PROVE  Remainder(connection'.last_unmapped + Hop, Channels)
                          = Remainder(central.last_unmapped + Hop * 1, Channels)
        OBVIOUS
    <3>1. PICK L \in Int : L = central.last_unmapped
        BY <1>4, ConstantTypes
    <3>2. Hop * 0 = 0 /\ Hop * 1 = Hop /\ L + 0 = L
        BY ConstantTypes
    <3>3. Remainder(connection.last_unmapped + Hop, Channels) = Remainder(L, Channels)
        BY <1>3, <2>1, <3>1, <3>2 DEF Linked, HopInv
    <3>4. connection'.last_unmapped = Remainder(L, Channels)
        BY <1>7, <1>11, <3>3 DEF IsClosed, l
    <3>5. Remainder(Remainder(L, Channels) + Hop, Channels) = Remainder(L + Hop, Channels)
        BY <1>8, ConstantTypes, RemainderAdd, Zenon
    <3> QED BY <3>1, <3>2, <3>4, <3>5
  <2> QED BY <1>1, <1>17, <2>1, <2>2 DEF HopInv
<1>19. ChannelInv'
    BY <1>17 DEF ChannelInv
<1>20. ProcedureInv'
    BY <1>1, <1>3, <1>11 DEF Linked, ProcedureInv, IsClosed, Pending
<1>21. MapInv' /\ TimingInv'
    BY <1>1, <1>3, <1>11, KeepFollows DEF Linked, IsClosed
<1>22. IntervalInv' /\ ClearInv'
    BY <1>14, <1>17 DEF IntervalInv, ClearInv
<1> QED BY <1>18, <1>19, <1>20, <1>21, <1>22 DEF Linked

\* The Central begins an update.
LEMMA StartInvariant ==
    ASSUME LeInvariant, NEW kind \in Kinds, NEW value \in Values,
           NEW left \in 1..MaxInstant, CentralStart(kind, value, left)
    PROVE  LeInvariant'
<1> DEFINE p == [kind |-> kind, value |-> value, left |-> left, status |-> "waiting"]
<1>1. /\ phase = "InFlight" /\ behind = 0 /\ central.procedure = {}
      /\ central' = [central EXCEPT !.procedure = {p}]
      /\ UNCHANGED <<algorithm, connection, phase, prepared, step, behind>>
    BY DEF CentralStart
<1>2. Typed /\ HeardInv /\ Linked
    BY <1>1 DEF LeInvariant
<1>3. p \in Procedures
    BY ConstantTypes DEF Procedures
<1>4. /\ p.status = "waiting" /\ p.left \in Nat /\ p.left > 0 /\ ~(p.left <= 0) /\ ~Known(p)
      /\ ~Comes(p, "timing", 0) /\ ~Passed(p, "timing")
    BY ConstantTypes DEF Known, Comes, Passed
<1> HIDE DEF p
<1>5. /\ central' \in Centrals /\ central'.procedure = {p}
      /\ central'.counter = central.counter /\ central'.last_unmapped = central.last_unmapped
      /\ central'.channel_map = central.channel_map /\ central'.timing = central.timing
      /\ central'.carries = central.carries /\ central'.accepted = central.accepted
      /\ central'.heard = central.heard
  <2>1. central \in Centrals /\ {p} \in SUBSET Procedures
    BY <1>2, <1>3 DEF Typed
  <2> QED BY <1>1, <2>1 DEF Centrals
<1>6. Typed' /\ HeardInv'
    BY <1>1, <1>2, <1>5 DEF Typed, HeardInv
<1>7. HopInv'
    BY <1>1, <1>2, <1>5 DEF Linked, HopInv, Ahead
<1>8. ChannelInv'
    BY <1>1, <1>2 DEF Linked, ChannelInv, Preview
<1>9. ProcedureInv'
  <2>1. \A q \in central'.procedure : q = p
    BY <1>5
  <2>2. p.status # "accepted"
    BY <1>4
  <2> QED BY <1>4, <2>1, <2>2, Zenon DEF ProcedureInv
<1>10. MapInv' /\ TimingInv'
  <2>1. phase # "Connection" /\ phase' # "Connection" /\ behind' = 0
    BY <1>1
  <2>2. /\ connection.pending_channel_map = {} /\ connection.channel_map = central.channel_map
        /\ connection.pending_connection_update = {} /\ connection.timing = central.timing
    BY <1>1, <1>2, <2>1, OpenOrNot DEF Linked, Follows
  <2>3. \A v, K : Follows({p}, central.counter, 0, FALSE, K, {}, v, v)
    <3>1. \A v, K : FollowsOne(p, central.counter, 0, FALSE, K, {}, v, v)
        BY <1>4, StartOne, Zenon
    <3> QED BY <3>1, Zenon DEF Follows
  <2>4. connection' = connection
    BY <1>1
  <2> QED BY <1>5, <2>1, <2>2, <2>3, <2>4, OpenOrNotAfter, Zenon
<1>11. IntervalInv'
  <2>1. /\ step.switched => step.walked.before = step.before
                            /\ step.walked.after + 0 = step.after
        /\ ~step.switched => /\ step.walked.after = 0 /\ step.walked.before + 0 = step.delta
                             /\ step.before = step.delta /\ step.after = 0
    BY <1>1, <1>2 DEF Linked, IntervalInv, Split
  <2>2. SplitOne(p, 0, step.delta, step.before, step.after, step.walked.before,
                 step.walked.after, step.switched)
    BY <1>4, <2>1 DEF SplitOne
  <2>3. Split({p}, 0, step.delta, step.before, step.after, step.walked.before,
              step.walked.after, step.switched)
    BY <2>2 DEF Split
  <2> QED BY <1>1, <1>5, <2>3 DEF IntervalInv
<1>12. ClearInv'
    BY <1>4, <1>5 DEF ClearInv, ClearOne
<1> QED BY <1>6, <1>7, <1>8, <1>9, <1>10, <1>11, <1>12 DEF LeInvariant, Linked

\* The Central's procedures one event later, and its value of a kind.
Ticked(S) ==
    {[p EXCEPT !.left = @ - 1] : p \in {q \in S : q.left > 0 \/ q.status \in {"waiting", "sent"}}}

At(S, kind) == {p \in S : p.left = 1 /\ p.kind = kind}

After(S, kind, V) == IF At(S, kind) = {} THEN V ELSE (CHOOSE p \in At(S, kind) : TRUE).value

\* The event moves each procedure on, but for a known one past its instant.
LEMMA TickSet ==
    ASSUME NEW S \in SUBSET Procedures, \A p, q \in S : p = q,
           \A p \in S : p.left > 0 - MaxLate
    PROVE  /\ Ticked(S) \in SUBSET Procedures
           /\ \A p, q \in Ticked(S) : p = q
           /\ \A q \in Ticked(S) : \E p \in S : (p.left > 0 \/ ~Known(p)) /\ Later(p, q)
           /\ Ticked(S) = {} => \A p \in S : Known(p) /\ p.left <= 0
<1>1. \A p \in S : p \in Procedures /\ p.left \in Int
    BY ConstantTypes DEF Procedures
<1>2. \A p \in S : p.status \in {"waiting", "sent"} <=> ~Known(p)
    BY <1>1 DEF Procedures, Known
<1>3. ASSUME NEW p \in S
      PROVE  LET q == [p EXCEPT !.left = @ - 1]
             IN  q \in Procedures /\ Later(p, q)
  <2>1. p \in Procedures /\ p.left - 1 \in (0 - MaxLate)..MaxInstant
    BY <1>1, ConstantTypes DEF Procedures
  <2> QED BY <2>1 DEF Procedures, Later
<1>4. Ticked(S) \in SUBSET Procedures
    BY <1>3 DEF Ticked
<1>5. \A p, q \in Ticked(S) : p = q
    BY DEF Ticked
<1>6. \A q \in Ticked(S) : \E p \in S : (p.left > 0 \/ ~Known(p)) /\ Later(p, q)
    BY <1>2, <1>3 DEF Ticked
<1>7. Ticked(S) = {} => \A p \in S : Known(p) /\ p.left <= 0
  <2>1. Ticked(S) = {} => \A p \in S : ~(p.left > 0 \/ p.status \in {"waiting", "sent"})
    BY Zenon DEF Ticked
  <2> QED BY <1>1, <1>2, <2>1
<1> QED BY <1>4, <1>5, <1>6, <1>7

\* The value the Central switches to is that of its procedure, at its instant.
LEMMA AfterSwitched ==
    ASSUME NEW S, NEW p \in S, \A q \in S : q = p, NEW V, NEW kind
    PROVE  After(S, kind, V) = Switched(p, kind, V)
<1>1. CASE p.left = 1 /\ p.kind = kind
  <2>1. At(S, kind) = {p}
    BY <1>1 DEF At
  <2>2. (CHOOSE q \in {p} : TRUE) = p
    OBVIOUS
  <2> QED BY <1>1, <2>1, <2>2 DEF After, Switched
<1>2. CASE ~(p.left = 1 /\ p.kind = kind)
  <2>1. At(S, kind) = {}
    BY <1>2 DEF At
  <2> QED BY <1>2, <2>1 DEF After, Switched
<1> QED BY <1>1, <1>2

\* The Central's event on one kind of update.
LEMMA TickFollows ==
    ASSUME NEW S \in SUBSET Procedures, \A p, q \in S : p = q,
           \A p \in S : p.left > 0 - MaxLate,
           NEW C \in Counters, NEW b \in Nat, b > 0, NEW kind, NEW P, NEW v, NEW V,
           Follows(S, C, b, FALSE, kind, P, v, V)
    PROVE  Follows(Ticked(S), Wrap(C + 1), b - 1, FALSE, kind, P, v, After(S, kind, V))
<1>1. ASSUME NEW q \in Ticked(S)
      PROVE  FollowsOne(q, Wrap(C + 1), b - 1, FALSE, kind, P, v, After(S, kind, V))
  <2>1. PICK p \in S : Later(p, q)
    BY TickSet, Zenon
  <2>2. p \in Procedures /\ FollowsOne(p, C, b, FALSE, kind, P, v, V)
    BY Zenon DEF Follows
  <2>3. After(S, kind, V) = Switched(p, kind, V)
    BY AfterSwitched, Zenon
  <2>4. FollowsOne(q, Wrap(C + 1), b - 1, FALSE, kind, P, v, Switched(p, kind, V))
    BY <2>1, <2>2, TickOne, Zenon
  <2> QED BY <2>3, <2>4, Zenon
<1>2. ASSUME Ticked(S) = {}
      PROVE  P = {} /\ v = After(S, kind, V)
  <2>1. CASE S = {}
    <3>1. After(S, kind, V) = V
        BY <2>1 DEF After, At
    <3> QED BY <2>1, <3>1 DEF Follows
  <2>2. CASE S # {}
    <3>1. PICK p \in S : p \in Procedures
        BY <2>2
    <3>2. Known(p) /\ p.left <= 0 /\ After(S, kind, V) = Switched(p, kind, V)
        BY <1>2, <3>1, TickSet, AfterSwitched
    <3>3. FollowsOne(p, C, b, FALSE, kind, P, v, V)
        BY <3>1, Zenon DEF Follows
    <3>4. P = {} /\ v = V /\ Switched(p, kind, V) = V
        BY <3>1, <3>2, <3>3, EndOne, Zenon
    <3> QED BY <3>2, <3>4
  <2> QED BY <2>1, <2>2
<1> QED BY <1>1, <1>2, Zenon DEF Follows

\* The Central's event on the intervals.
LEMMA TickIntervals ==
    ASSUME NEW S \in SUBSET Procedures, \A p, q \in S : p = q,
           \A p \in S : p.left > 0 - MaxLate,
           NEW b \in Nat, b > 0, NEW delta \in Nat, NEW before, NEW after,
           NEW wb \in Nat, NEW wa \in Nat, NEW switched \in BOOLEAN,
           Split(S, b, delta, before, after, wb, wa, switched)
    PROVE  Split(Ticked(S), b - 1, delta, before, after,
                 IF switched THEN wb ELSE wb + 1, IF switched THEN wa + 1 ELSE wa,
                 switched \/ At(S, "timing") # {})
<1> DEFINE x == IF switched THEN wb ELSE wb + 1
           y == IF switched THEN wa + 1 ELSE wa
<1>1. ASSUME NEW q \in Ticked(S)
      PROVE  SplitOne(q, b - 1, delta, before, after, x, y, switched \/ At(S, "timing") # {})
  <2>1. PICK p \in S : (p.left > 0 \/ ~Known(p)) /\ Later(p, q)
    BY TickSet, Zenon
  <2>2. p \in Procedures /\ SplitOne(p, b, delta, before, after, wb, wa, switched)
    BY DEF Split
  <2>3. At(S, "timing") # {} <=> p.left = 1 /\ p.kind = "timing"
    BY <2>1 DEF At
  <2>4. SplitOne(q, b - 1, delta, before, after, x, y,
                 switched \/ (p.left = 1 /\ p.kind = "timing"))
    BY <2>1, <2>2, TickSplit, Zenon
  <2>5. (switched \/ (p.left = 1 /\ p.kind = "timing")) = (switched \/ At(S, "timing") # {})
    BY <2>3, Zenon
  <2> QED BY <2>4, <2>5, Zenon
<1>2. ASSUME Ticked(S) = {}
      PROVE  /\ At(S, "timing") = {}
             /\ IF switched THEN wb = before /\ wa + b = after
                ELSE wa = 0 /\ wb + b = delta /\ before = delta /\ after = 0
  <2>1. CASE S = {}
    BY <2>1 DEF Split, At
  <2>2. CASE S # {}
    <3>1. PICK p \in S : p \in Procedures
        BY <2>2
    <3>2. Known(p) /\ p.left <= 0 /\ p.left \in Int
        BY <1>2, <3>1, TickSet, ConstantTypes DEF Procedures
    <3>3. ~Comes(p, "timing", b) /\ ~Passed(p, "timing") /\ p.left # 1
        BY <3>2 DEF Comes, Passed
    <3>4. SplitOne(p, b, delta, before, after, wb, wa, switched)
        BY <3>1 DEF Split
    <3>5. At(S, "timing") = {}
        BY <3>1, <3>3 DEF At
    <3> QED BY <3>3, <3>4, <3>5 DEF SplitOne
  <2> QED BY <2>1, <2>2
<1>3. ASSUME Ticked(S) = {}
      PROVE  IF switched \/ At(S, "timing") # {} THEN x = before /\ y + (b - 1) = after
             ELSE y = 0 /\ x + (b - 1) = delta /\ before = delta /\ after = 0
  <2>1. (wa + 1) + (b - 1) = wa + b /\ (wb + 1) + (b - 1) = wb + b
    OBVIOUS
  <2> QED BY <1>2, <1>3, <2>1
<1> QED BY <1>1, <1>3, Zenon DEF Split

\* One more interval of the Central.
Walked(w, switched) ==
    IF switched THEN [w EXCEPT !.after = @ + 1] ELSE [w EXCEPT !.before = @ + 1]

LEMMA WalkedFields ==
    ASSUME NEW w \in [before : Nat, after : Nat], NEW switched \in BOOLEAN
    PROVE  LET r == Walked(w, switched)
           IN  /\ r \in [before : Nat, after : Nat]
               /\ r.before = IF switched THEN w.before ELSE w.before + 1
               /\ r.after = IF switched THEN w.after + 1 ELSE w.after
BY DEF Walked

Stepped(st, w, x) == [st EXCEPT !.walked = w, !.switched = x]

IsStepped(r, st, w, x) ==
    /\ r \in Steps
    /\ r.delta = st.delta /\ r.before = st.before /\ r.after = st.after
    /\ r.paused = st.paused /\ r.earned = st.earned /\ r.serviced = st.serviced
    /\ r.walked = w /\ r.switched = x

LEMMA SteppedFields ==
    ASSUME NEW st \in Steps, NEW w \in [before : Nat, after : Nat], NEW x \in BOOLEAN
    PROVE  IsStepped(Stepped(st, w, x), st, w, x)
BY Zenon DEF Stepped, IsStepped, Steps

\* The Central's record at its event.
Held(c, e, l, m, t, S) ==
    [c EXCEPT !.counter = e, !.last_unmapped = l, !.channel_map = m, !.timing = t,
              !.procedure = S]

IsHeld(r, c, e, l, m, t, S) ==
    /\ r \in Centrals
    /\ r.counter = e /\ r.last_unmapped = l /\ r.channel_map = m /\ r.timing = t
    /\ r.procedure = S /\ r.sn = c.sn /\ r.accepted = c.accepted
    /\ r.carries = c.carries /\ r.heard = c.heard

LEMMA EventFields ==
    ASSUME NEW c \in Centrals, NEW e \in Counters, NEW l \in 0..(Channels - 1),
           NEW m \in Values, NEW t \in Values, NEW S \in SUBSET Procedures
    PROVE  IsHeld(Held(c, e, l, m, t, S), c, e, l, m, t, S)
BY Zenon DEF Centrals, Held, IsHeld

\* The Central's event.
LEMMA EventInvariant == LeInvariant /\ CentralEvent => LeInvariant'
<1> SUFFICES ASSUME LeInvariant, CentralEvent PROVE LeInvariant'
    OBVIOUS
<1> DEFINE C == central.counter
           S == central.procedure
           m == After(S, "map", central.channel_map)
           t == After(S, "timing", central.timing)
           w == Walked(step.walked, step.switched)
           x == step.switched \/ At(S, "timing") # {}
<1>1. /\ phase = "InFlight" /\ behind > 0 /\ behind' = behind - 1
      /\ UNCHANGED <<algorithm, connection, phase, prepared>>
    BY DEF CentralEvent
<1>2. central' = Held(central, Wrap(C + 1), (central.last_unmapped + Hop) % Channels, m, t, Ticked(S))
    BY Zenon DEF CentralEvent, Held, After, At, Ticked
<1>3. step' = Stepped(step, w, x)
    BY Zenon DEF CentralEvent, Stepped, Walked, At
<1>4. \A p \in S : p.left > -MaxLate
    BY DEF CentralEvent
<1>5. Typed /\ HeardInv /\ Linked
    BY <1>1 DEF LeInvariant
<1>6. /\ central \in Centrals /\ C \in Counters /\ S \in SUBSET Procedures /\ step \in Steps
      /\ central.channel_map \in Values /\ central.timing \in Values
      /\ central.last_unmapped \in 0..(Channels - 1) /\ behind \in Nat
    BY <1>5, CentralFields DEF Typed
<1>7. /\ \A p, q \in S : p = q
      /\ \A p \in S : p.left > 0 - MaxLate
  <2>1. -MaxLate = 0 - MaxLate
    BY ConstantTypes
  <2> QED BY <1>4, <1>5, <2>1 DEF Linked, ProcedureInv
<1>8. \A kind : \A V \in Values : After(S, kind, V) \in Values
  <2> SUFFICES ASSUME NEW kind, NEW V \in Values PROVE After(S, kind, V) \in Values
    OBVIOUS
  <2>1. \A p \in S : p.value \in Values
    BY <1>6 DEF Procedures
  <2>2. At(S, kind) # {} => (CHOOSE p \in At(S, kind) : TRUE) \in S
    BY DEF At
  <2> QED BY <2>1, <2>2 DEF After
<1>9. Wrap(C + 1) \in Counters /\ Wrap(C + 1) \in Int /\ C \in Int
  <2>1. C \in Int /\ C + 1 \in Int
    BY <1>6, CounterType
  <2>2. Wrap(C + 1) \in Counters
    BY <2>1, WrapAdd
  <2> QED BY <2>1, <2>2, CounterType
<1>10. PICK L \in Int : L = central.last_unmapped /\ Hop \in Int /\ L + Hop \in Int
    BY <1>6, ConstantTypes
<1>11. /\ (central.last_unmapped + Hop) % Channels = Remainder(L + Hop, Channels)
       /\ (central.last_unmapped + Hop) % Channels \in 0..(Channels - 1)
  <2>1. (central.last_unmapped + Hop) % Channels = Remainder(L + Hop, Channels)
    BY <1>10 DEF Remainder
  <2>2. Remainder(L + Hop, Channels) \in 0..(Channels - 1)
    BY <1>10, ConstantTypes, RemainderType
  <2> QED BY <2>1, <2>2
<1>12. Ticked(S) \in SUBSET Procedures
    BY <1>6, <1>7, TickSet, Zenon
<1>13. m \in Values /\ t \in Values
    BY <1>6, <1>8
<1>14. IsHeld(central', central, Wrap(C + 1), (central.last_unmapped + Hop) % Channels, m, t, Ticked(S))
    BY <1>2, <1>6, <1>9, <1>11, <1>12, <1>13, EventFields, Zenon
<1>15. /\ step.walked \in [before : Nat, after : Nat] /\ step.switched \in BOOLEAN
       /\ step.walked.before \in Nat /\ step.walked.after \in Nat /\ step.delta \in Nat
    BY <1>6 DEF Steps
<1>16. /\ w \in [before : Nat, after : Nat]
       /\ w.before = IF step.switched THEN step.walked.before ELSE step.walked.before + 1
       /\ w.after = IF step.switched THEN step.walked.after + 1 ELSE step.walked.after
    BY <1>15, WalkedFields, Zenon
<1>17. IsStepped(step', step, w, x)
  <2>1. x \in BOOLEAN
    BY <1>15, Zenon
  <2> QED BY <1>3, <1>6, <1>16, <2>1, SteppedFields, Zenon
<1> HIDE DEF C, S, m, t, w, x
<1>18. Typed'
  <2>1. central' \in Centrals
    BY <1>14, Zenon DEF IsHeld
  <2>2. step' \in Steps
    BY <1>17, Zenon DEF IsStepped
  <2> QED BY <1>1, <1>5, <1>6, <2>1, <2>2 DEF Typed
<1>19. HeardInv'
  <2>1. /\ connection' = connection /\ central'.heard = central.heard
        /\ step'.serviced = step.serviced /\ step'.paused = step.paused
        /\ step'.earned = step.earned
    BY <1>1, <1>14, <1>17 DEF IsHeld, IsStepped
  <2> QED BY <1>5, <2>1, Zenon DEF HeardInv
<1>20. ChannelInv'
    BY <1>1, <1>5, Zenon DEF Linked, ChannelInv, Preview
<1>21. HopInv'
  <2>1. Ahead = behind /\ Ahead' = behind - 1
    BY <1>1 DEF Ahead
  <2>2. connection'.event_counter = Wrap(central'.counter + Ahead')
    <3>1. C + 1 \in Int /\ behind - 1 \in Int /\ (C + 1) + (behind - 1) = C + behind
        BY <1>6, <1>9
    <3>2. Wrap(Wrap(C + 1) + (behind - 1)) = Wrap((C + 1) + (behind - 1))
        BY <3>1, WrapAdd
    <3>3. connection.event_counter = Wrap(C + behind)
        BY <1>5, <2>1 DEF Linked, HopInv, C
    <3> QED BY <1>1, <1>14, <2>1, <3>1, <3>2, <3>3 DEF IsHeld
  <2>3. algorithm = "One" =>
          Remainder(connection'.last_unmapped + Hop, Channels)
             = Remainder(central'.last_unmapped + Hop * Ahead', Channels)
    <3> SUFFICES ASSUME algorithm = "One"
                 PROVE  Remainder(connection'.last_unmapped + Hop, Channels)
                          = Remainder(central'.last_unmapped + Hop * Ahead', Channels)
        OBVIOUS
    <3>1. PICK g \in Int : g = Hop * (behind - 1)
        BY <1>6, ConstantTypes
    <3>2. Hop * behind = Hop + g /\ (L + Hop) + g = L + Hop * behind
        BY <1>6, <1>10, <3>1, ConstantTypes
    <3>3. Remainder(Remainder(L + Hop, Channels) + g, Channels) = Remainder((L + Hop) + g, Channels)
      <4>1. L + Hop \in Int /\ Channels \in Nat \ {0}
        BY <1>10, ConstantTypes
      <4> QED BY <4>1, RemainderAdd, Zenon
    <3>4. Remainder(connection.last_unmapped + Hop, Channels) = Remainder(L + Hop * behind, Channels)
        BY <1>5, <1>10, <2>1 DEF Linked, HopInv
    <3>5. central'.last_unmapped = Remainder(L + Hop, Channels)
        BY <1>11, <1>14, Zenon DEF IsHeld
    <3> QED BY <1>1, <2>1, <3>1, <3>2, <3>3, <3>4, <3>5
  <2> QED BY <1>1, <2>2, <2>3 DEF HopInv
<1>22. ProcedureInv'
  <2>1. \A p, q \in Ticked(S) : p = q
    BY <1>6, <1>7, TickSet, Zenon
  <2>2. ASSUME NEW q \in Ticked(S)
        PROVE  /\ Known(q) => q.left >= 0
               /\ q.left <= 0 /\ q.kind = "map" => q.value = m
               /\ q.left <= 0 /\ q.kind = "timing" => q.value = t
               /\ q.status = "accepted" =>
                    /\ central.carries = "indication" /\ central.accepted
                    /\ Pending(connection) # {} =>
                          connection.maintenance.instant_acknowledgement # "Confirmed"
    <3>1. PICK p \in S : (p.left > 0 \/ ~Known(p)) /\ Later(p, q)
        BY <1>6, <1>7, TickSet, Zenon
    <3>2. p.left \in Int
        BY <1>6, ConstantTypes DEF Procedures
    <3>3. q.left = p.left - 1 /\ q.kind = p.kind /\ q.value = p.value /\ q.status = p.status
          /\ (Known(q) <=> Known(p))
        BY <3>1 DEF Later, Known
    <3>4. m = Switched(p, "map", central.channel_map) /\ t = Switched(p, "timing", central.timing)
        BY <1>7, AfterSwitched DEF m, t
    <3>5. /\ p.left <= 0 /\ p.kind = "map" => p.value = central.channel_map
          /\ p.left <= 0 /\ p.kind = "timing" => p.value = central.timing
          /\ p.status = "accepted" =>
               /\ central.carries = "indication" /\ central.accepted
               /\ Pending(connection) # {} =>
                     connection.maintenance.instant_acknowledgement # "Confirmed"
        BY <1>5 DEF Linked, ProcedureInv, S
    <3>6. Known(q) => q.left >= 0
        BY <3>1, <3>2, <3>3
    <3>7. q.left <= 0 => p.left = 1 \/ p.left <= 0
        BY <3>2, <3>3
    <3> QED BY <3>3, <3>4, <3>5, <3>6, <3>7, Zenon DEF Switched
  <2> QED BY <1>1, <1>14, <2>1, <2>2, Zenon DEF ProcedureInv, IsHeld
<1>23. MapInv' /\ TimingInv'
  <2>1. phase # "Connection" /\ phase' # "Connection"
    BY <1>1
  <2>2. /\ Follows(S, C, behind, FALSE, "map", connection.pending_channel_map,
                   connection.channel_map, central.channel_map)
        /\ Follows(S, C, behind, FALSE, "timing", connection.pending_connection_update,
                   connection.timing, central.timing)
    BY <1>5, <2>1, OpenOrNot, Zenon DEF Linked, S, C
  <2>3. /\ Follows(Ticked(S), Wrap(C + 1), behind - 1, FALSE, "map",
                   connection.pending_channel_map, connection.channel_map, m)
        /\ Follows(Ticked(S), Wrap(C + 1), behind - 1, FALSE, "timing",
                   connection.pending_connection_update, connection.timing, t)
    BY <1>1, <1>6, <1>7, <2>2, TickFollows, Zenon DEF m, t
  <2>4. /\ Follows(central'.procedure, central'.counter, behind', FALSE, "map",
              connection'.pending_channel_map, connection'.channel_map, central'.channel_map)
        /\ Follows(central'.procedure, central'.counter, behind', FALSE, "timing",
              connection'.pending_connection_update, connection'.timing, central'.timing)
    BY <1>1, <1>14, <2>3, Zenon DEF IsHeld
  <2> QED BY <2>1, <2>4, OpenOrNotAfter, Zenon
<1>24. IntervalInv'
  <2>1. Split(S, behind, step.delta, step.before, step.after, step.walked.before,
              step.walked.after, step.switched)
    BY <1>1, <1>5 DEF Linked, IntervalInv, S
  <2>2. Split(Ticked(S), behind - 1, step.delta, step.before, step.after,
              IF step.switched THEN step.walked.before ELSE step.walked.before + 1,
              IF step.switched THEN step.walked.after + 1 ELSE step.walked.after,
              step.switched \/ At(S, "timing") # {})
    BY <1>1, <1>6, <1>7, <1>15, <2>1, TickIntervals, Zenon
  <2>3. Split(Ticked(S), behind - 1, step.delta, step.before, step.after, w.before, w.after, x)
    BY <1>16, <2>2, Zenon DEF x
  <2>4. phase' # "Completed" /\ central'.procedure = Ticked(S) /\ behind' = behind - 1
        /\ step'.delta = step.delta /\ step'.before = step.before /\ step'.after = step.after
        /\ step'.walked = w /\ step'.switched = x
    BY <1>1, <1>14, <1>17 DEF IsHeld, IsStepped
  <2> QED BY <2>3, <2>4, Zenon DEF IntervalInv
<1>25. ClearInv'
  <2> SUFFICES ASSUME step.paused, NEW q \in Ticked(S)
               PROVE  ClearOne(q, behind - 1, step.delta)
    BY <1>1, <1>14, <1>17, Zenon DEF ClearInv, IsHeld, IsStepped
  <2>1. PICK p \in S : (p.left > 0 \/ ~Known(p)) /\ Later(p, q)
    BY <1>6, <1>7, TickSet, Zenon
  <2>2. ClearOne(p, behind, step.delta) /\ p \in Procedures
    BY <1>5, <1>6 DEF Linked, ClearInv, S
  <2> QED BY <1>1, <1>6, <1>15, <2>1, <2>2, TickClear, Zenon
<1> QED BY <1>18, <1>19, <1>20, <1>21, <1>22, <1>23, <1>24, <1>25 DEF LeInvariant, Linked

\* observe_header, field by field.
Observed(m, b, i, a) ==
    [m EXCEPT !.initial_acknowledged = b, !.recovery_required = FALSE,
              !.indication_sn = i, !.instant_acknowledgement = a]

IsObserved(r, b, a) ==
    /\ r \in Maintenances
    /\ r.initial_acknowledged = b /\ r.instant_acknowledgement = a

LEMMA ObservedFields ==
    ASSUME NEW m \in Maintenances, NEW b \in BOOLEAN, NEW i \in {0, 1},
           NEW a \in {"HeaderRequired", "AwaitingPeerSequenceAdvance", "Confirmed"}
    PROVE  IsObserved(Observed(m, b, i, a), b, a)
BY Zenon DEF Maintenances, Observed, IsObserved

HeaderObserved(r, m, nesn, pending) ==
    /\ r \in Maintenances
    /\ r.initial_acknowledged => m.initial_acknowledged \/ nesn = 1
    /\ pending /\ m.instant_acknowledgement = "HeaderRequired"
         => r.instant_acknowledgement # "Confirmed"

\* What a received header does: it establishes the initial acknowledgement
\* when the Central acknowledges, and the first header after an indication
\* does not confirm it.
LEMMA ObserveFields ==
    ASSUME NEW m \in Maintenances, NEW sn \in {0, 1}, NEW nesn, NEW pending \in BOOLEAN
    PROVE  HeaderObserved(ObserveHeader(m, sn, nesn, pending), m, nesn, pending)
<1> DEFINE b == m.initial_acknowledged \/ nesn = 1
           i == IF pending /\ m.instant_acknowledgement = "HeaderRequired" THEN sn
                ELSE IF pending /\ m.indication_sn # sn THEN 0 ELSE m.indication_sn
           a == IF ~pending THEN m.instant_acknowledgement
                ELSE IF m.instant_acknowledgement = "HeaderRequired"
                THEN "AwaitingPeerSequenceAdvance"
                ELSE IF m.indication_sn # sn THEN "Confirmed" ELSE m.instant_acknowledgement
<1>1. /\ m.initial_acknowledged \in BOOLEAN /\ m.indication_sn \in {0, 1}
      /\ m.instant_acknowledgement \in
            {"HeaderRequired", "AwaitingPeerSequenceAdvance", "Confirmed"}
    BY DEF Maintenances
<1>2. b \in BOOLEAN
    OBVIOUS
<1>3. i \in {0, 1}
    BY <1>1
<1>4. a \in {"HeaderRequired", "AwaitingPeerSequenceAdvance", "Confirmed"}
    BY <1>1
<1>5. pending /\ m.instant_acknowledgement = "HeaderRequired" => a # "Confirmed"
    OBVIOUS
<1>6. ObserveHeader(m, sn, nesn, pending) = Observed(m, b, i, a)
    BY Zenon DEF ObserveHeader, Observed
<1>7. b <=> m.initial_acknowledged \/ nesn = 1
    OBVIOUS
<1> HIDE DEF b, i, a
<1>8. IsObserved(Observed(m, b, i, a), b, a)
    BY <1>2, <1>3, <1>4, ObservedFields, Zenon
<1> QED BY <1>5, <1>6, <1>7, <1>8, Zenon DEF IsObserved, HeaderObserved

\* A new maintenance state.
Maintained(c, m) == [c EXCEPT !.maintenance = m]

IsMaintained(r, c, m) ==
    /\ r \in Connections /\ r.maintenance = m
    /\ r.event_counter = c.event_counter /\ r.last_unmapped = c.last_unmapped
    /\ r.channel_map = c.channel_map /\ r.timing = c.timing
    /\ r.pending_channel_map = c.pending_channel_map
    /\ r.pending_connection_update = c.pending_connection_update

LEMMA MaintainedFields ==
    ASSUME NEW c \in Connections, NEW m \in Maintenances
    PROVE  IsMaintained(Maintained(c, m), c, m)
BY DEF Connections, Maintained, IsMaintained

\* The Central's packet was delivered; its indication makes S of its procedures.
Delivered(c, S) == [c EXCEPT !.accepted = TRUE, !.procedure = S]

IsDelivered(r, c, S) ==
    /\ r \in Centrals
    /\ r.counter = c.counter /\ r.last_unmapped = c.last_unmapped
    /\ r.channel_map = c.channel_map /\ r.timing = c.timing
    /\ r.procedure = S /\ r.accepted = TRUE
    /\ r.carries = c.carries /\ r.heard = c.heard

LEMMA DeliveredFields ==
    ASSUME NEW c \in Centrals, NEW S \in SUBSET Procedures
    PROVE  IsDelivered(Delivered(c, S), c, S) /\ IsDelivered([c EXCEPT !.accepted = TRUE], c, c.procedure)
BY Zenon DEF Centrals, Delivered, IsDelivered

\* A procedure of which the Central learns that its packet was answered.
Answer(p, carries) ==
    [p EXCEPT !.status = CASE p.status = "waiting" -> "sent"
                           [] p.status = "accepted" /\ carries = "indication" -> "acked"
                           [] OTHER -> p.status]

\* A procedure is the same but for what the Central knows of the Peripheral.
Alike(p, q) ==
    q.kind = p.kind /\ q.value = p.value /\ q.left = p.left /\ (Known(q) <=> Known(p))

LEMMA AnswerFields ==
    ASSUME NEW p \in Procedures, NEW carries, p.status = "accepted" => carries = "indication"
    PROVE  /\ Answer(p, carries) \in Procedures /\ Alike(p, Answer(p, carries))
           /\ Answer(p, carries).status # "accepted"
<1> DEFINE s == CASE p.status = "waiting" -> "sent"
                  [] p.status = "accepted" /\ carries = "indication" -> "acked"
                  [] OTHER -> p.status
<1>1. p.status \in {"waiting", "sent", "accepted", "acked"}
    BY DEF Procedures
<1>2. /\ s \in {"sent", "acked"}
      /\ s \in {"accepted", "acked"} <=> p.status \in {"accepted", "acked"}
    BY <1>1
<1>3. Answer(p, carries) = [p EXCEPT !.status = s]
    BY DEF Answer
<1> HIDE DEF s
<1>4. /\ [p EXCEPT !.status = s] \in Procedures /\ [p EXCEPT !.status = s].status = s
      /\ [p EXCEPT !.status = s].kind = p.kind /\ [p EXCEPT !.status = s].value = p.value
      /\ [p EXCEPT !.status = s].left = p.left
    BY <1>2 DEF Procedures
<1> QED BY <1>2, <1>3, <1>4 DEF Alike, Known

\* What the two sides know of each other after a completed event.
Agree(c, K) ==
    /\ \A p, q \in K.procedure : p = q
    /\ \A p \in K.procedure :
        /\ Known(p) => p.left >= 0
        /\ p.left <= 0 /\ p.kind = "map" => p.value = K.channel_map
        /\ p.left <= 0 /\ p.kind = "timing" => p.value = K.timing
        /\ p.status = "accepted" =>
              /\ K.carries = "indication" /\ K.accepted
              /\ Pending(c) # {} => c.maintenance.instant_acknowledgement # "Confirmed"
    /\ Follows(K.procedure, K.counter, 0, FALSE, "map",
               c.pending_channel_map, c.channel_map, K.channel_map)
    /\ Follows(K.procedure, K.counter, 0, FALSE, "timing",
               c.pending_connection_update, c.timing, K.timing)

\* The Central after it heard an answer.
Hearing(c, sn, carries, S) ==
    [c EXCEPT !.heard = TRUE, !.sn = sn, !.accepted = FALSE, !.carries = carries,
              !.procedure = S]

IsHearing(r, c, S) ==
    /\ r \in Centrals
    /\ r.counter = c.counter /\ r.last_unmapped = c.last_unmapped
    /\ r.channel_map = c.channel_map /\ r.timing = c.timing
    /\ r.procedure = S /\ r.heard = TRUE

LEMMA HearingFields ==
    ASSUME NEW c \in Centrals, NEW sn \in {0, 1}, NEW carries \in {"data", "indication"},
           NEW S \in SUBSET Procedures
    PROVE  IsHearing(Hearing(c, sn, carries, S), c, S)
BY Zenon DEF Centrals, Hearing, IsHearing

\* Hearing the answer changes no more than the status of the procedure.
LEMMA HearsFields ==
    ASSUME NEW K \in Centrals, \A p \in K.procedure : p.status = "accepted" => K.carries = "indication"
    PROVE  IsHearing(CentralHears(K), K, {Answer(p, K.carries) : p \in K.procedure})
<1> DEFINE S == {Answer(p, K.carries) : p \in K.procedure}
           carries == IF \E p \in K.procedure : p.status = "waiting" THEN "indication" ELSE "data"
<1>1. K.procedure \in SUBSET Procedures /\ K.sn \in {0, 1}
    BY CentralFields
<1>2. S \in SUBSET Procedures
    BY <1>1, AnswerFields
<1>3. 1 - K.sn \in {0, 1}
    BY <1>1
<1>4. carries \in {"data", "indication"}
    OBVIOUS
<1>5. CentralHears(K) = Hearing(K, 1 - K.sn, carries, S)
    BY Zenon DEF CentralHears, Hearing, Answer
<1> HIDE DEF carries, S
<1>6. IsHearing(Hearing(K, 1 - K.sn, carries, S), K, S)
    BY <1>2, <1>3, <1>4, HearingFields, Zenon
<1> QED BY <1>5, <1>6, Zenon DEF S

\* The answer, heard or not, leaves the two sides in agreement.
LEMMA AnsweredAgree ==
    ASSUME NEW c, NEW K \in Centrals, Agree(c, K), NEW reply
    PROVE  LET r == Answered(K, reply)
           IN  /\ r \in Centrals /\ Agree(c, r)
               /\ r.counter = K.counter /\ r.last_unmapped = K.last_unmapped
               /\ K.heard => r.heard
<1>1. CASE ~reply
    BY <1>1 DEF Answered
<1>2. CASE reply
  <2> DEFINE r == CentralHears(K)
             ans(p) == Answer(p, K.carries)
  <2>1. \A p \in K.procedure : p.status = "accepted" => K.carries = "indication"
    BY Zenon DEF Agree
  <2>2. IsHearing(r, K, {ans(p) : p \in K.procedure})
    BY <2>1, HearsFields, Zenon
  <2>3. K.procedure \in SUBSET Procedures
    BY CentralFields
  <2>4. \A q \in r.procedure : \E p \in K.procedure :
            q = ans(p) /\ Alike(p, q) /\ q.status # "accepted"
    <3>1. \A p \in K.procedure : Alike(p, ans(p)) /\ ans(p).status # "accepted"
        BY <2>1, <2>3, AnswerFields, Zenon
    <3> QED BY <2>2, <3>1, Zenon DEF IsHearing
  <2>5. \A p, q \in r.procedure : p = q
    BY <2>4, Zenon DEF Agree
  <2>6. r.procedure = {} => K.procedure = {}
    BY <2>2 DEF IsHearing
  <2> HIDE DEF r, ans
  <2>7. \A q \in r.procedure :
        /\ Known(q) => q.left >= 0
        /\ q.left <= 0 /\ q.kind = "map" => q.value = K.channel_map
        /\ q.left <= 0 /\ q.kind = "timing" => q.value = K.timing
        /\ q.status # "accepted"
    <3>1. SUFFICES ASSUME NEW q \in r.procedure
          PROVE  /\ Known(q) => q.left >= 0
                 /\ q.left <= 0 /\ q.kind = "map" => q.value = K.channel_map
                 /\ q.left <= 0 /\ q.kind = "timing" => q.value = K.timing
                 /\ q.status # "accepted"
        OBVIOUS
    <3>2. PICK p \in K.procedure : Alike(p, q) /\ q.status # "accepted"
        BY <2>4, <3>1
    <3> QED BY <3>2 DEF Agree, Alike
  <2>8. \A C, kind, P, v, V : Follows(K.procedure, C, 0, FALSE, kind, P, v, V)
                                => Follows(r.procedure, C, 0, FALSE, kind, P, v, V)
    <3>1. \A p, q, C, kind, P, v, V :
            Alike(p, q) /\ FollowsOne(p, C, 0, FALSE, kind, P, v, V)
               => FollowsOne(q, C, 0, FALSE, kind, P, v, V)
      <4> SUFFICES ASSUME NEW p, NEW q, NEW C, NEW kind, NEW P, NEW v, NEW V,
                          Alike(p, q), FollowsOne(p, C, 0, FALSE, kind, P, v, V)
                   PROVE  FollowsOne(q, C, 0, FALSE, kind, P, v, V)
        BY Zenon
      <4>1. /\ q.kind = p.kind /\ q.value = p.value /\ q.left = p.left
            /\ Known(q) <=> Known(p)
        BY Zenon DEF Alike
      <4> QED BY <4>1, SameOne, Zenon
    <3> QED BY <2>4, <2>6, <3>1, Zenon DEF Follows
  <2>9. Agree(c, r)
    BY <2>2, <2>5, <2>7, <2>8, Zenon DEF Agree, IsHearing
  <2>10. r \in Centrals /\ r.counter = K.counter /\ r.last_unmapped = K.last_unmapped /\ r.heard
    BY <2>2, Zenon DEF IsHearing
  <2>11. Answered(K, reply) = r
    BY <1>2, Zenon DEF Answered, r
  <2> QED BY <2>9, <2>10, <2>11, Zenon
<1> QED BY <1>1, <1>2

\* A packet that carries no indication leaves the two sides in agreement.
LEMMA KeepAgree ==
    ASSUME NEW c, NEW r, NEW K, NEW L, Agree(c, K),
           r.pending_channel_map = c.pending_channel_map,
           r.pending_connection_update = c.pending_connection_update,
           r.channel_map = c.channel_map, r.timing = c.timing,
           L.counter = K.counter, L.channel_map = K.channel_map, L.timing = K.timing,
           L.procedure = K.procedure,
           \/ ~K.accepted
           \/ /\ L.accepted = K.accepted /\ L.carries = K.carries
              /\ r.maintenance.instant_acknowledgement = c.maintenance.instant_acknowledgement
    PROVE  Agree(r, L)
<1>1. Pending(r) = Pending(c)
    BY Zenon DEF Pending
<1>2. \A p \in K.procedure : p.status = "accepted" =>
              /\ L.carries = "indication" /\ L.accepted
              /\ Pending(r) # {} => r.maintenance.instant_acknowledgement # "Confirmed"
    BY <1>1, Zenon DEF Agree
<1> QED BY <1>2, Zenon DEF Agree

\* schedule_channel_map_update and schedule_connection_update, field by field.
IsScheduled(s, c, kind, value, i, now) ==
    /\ s \in Connections
    /\ s.event_counter = c.event_counter /\ s.last_unmapped = c.last_unmapped
    /\ s.channel_map = IF kind = "map" /\ now THEN value ELSE c.channel_map
    /\ s.timing = IF kind = "timing" /\ now THEN value ELSE c.timing
    /\ s.pending_channel_map =
          IF kind = "map" /\ ~now THEN {[value |-> value, instant |-> i]} ELSE {}
    /\ s.pending_connection_update =
          IF kind = "timing" /\ ~now THEN {[value |-> value, instant |-> i]} ELSE {}
    /\ s.maintenance.initial_acknowledged = c.maintenance.initial_acknowledged
    /\ ~now => s.maintenance.instant_acknowledgement = "HeaderRequired"

LEMMA ScheduledFields ==
    ASSUME NEW c \in Connections, Pending(c) = {}, NEW kind \in Kinds, NEW value \in Values,
           NEW i \in Counters
    PROVE  IsScheduled(Scheduled(c, kind, value, i), c, kind, value, i,
                       Wrap(i - Wrap(c.event_counter - 1)) = 0)
<1> DEFINE d == Wrap(i - Wrap(c.event_counter - 1))
           U == {[value |-> value, instant |-> i]}
           n == [c.maintenance EXCEPT !.instant_acknowledgement = "HeaderRequired"]
           s == Scheduled(c, kind, value, i)
<1>1. U \in SUBSET Updates
    BY DEF Updates
<1>2. n \in Maintenances /\ n.instant_acknowledgement = "HeaderRequired"
      /\ n.initial_acknowledged = c.maintenance.initial_acknowledged
  <2>1. c.maintenance \in Maintenances
    BY ConnectionFields
  <2> QED BY <2>1 DEF Maintenances
<1>3. c.pending_channel_map = {} /\ c.pending_connection_update = {}
    BY DEF Pending
<1>4. s = IF d = 0 /\ kind = "map" THEN [c EXCEPT !.channel_map = value]
          ELSE IF d = 0 THEN [c EXCEPT !.timing = value]
          ELSE IF kind = "map" THEN [c EXCEPT !.pending_channel_map = U, !.maintenance = n]
          ELSE [c EXCEPT !.pending_connection_update = U, !.maintenance = n]
    BY Zenon DEF Scheduled
<1> HIDE DEF d, U, n, s
<1>5. kind = "map" \/ kind = "timing"
    BY DEF Kinds
<1>6. CASE d = 0 /\ kind = "map"
  <2>1. s = [c EXCEPT !.channel_map = value]
    BY <1>4, <1>6
  <2>2. IsScheduled(s, c, kind, value, i, TRUE)
    BY <1>3, <1>6, <2>1 DEF Connections, IsScheduled
  <2> QED BY <1>6, <2>2, Zenon DEF d, s
<1>7. CASE d = 0 /\ kind = "timing"
  <2>1. s = [c EXCEPT !.timing = value]
    BY <1>4, <1>7
  <2>2. IsScheduled(s, c, kind, value, i, TRUE)
    BY <1>3, <1>7, <2>1 DEF Connections, IsScheduled
  <2> QED BY <1>7, <2>2, Zenon DEF d, s
<1>8. CASE d # 0 /\ kind = "map"
  <2>1. s = [c EXCEPT !.pending_channel_map = U, !.maintenance = n]
    BY <1>4, <1>8
  <2>2. /\ s \in Connections /\ s.event_counter = c.event_counter
        /\ s.last_unmapped = c.last_unmapped /\ s.channel_map = c.channel_map
        /\ s.timing = c.timing /\ s.pending_channel_map = U
        /\ s.pending_connection_update = c.pending_connection_update /\ s.maintenance = n
    BY <1>1, <1>2, <2>1, Zenon DEF Connections
  <2>3. IsScheduled(s, c, kind, value, i, FALSE)
    BY <1>2, <1>3, <1>8, <2>2, Zenon DEF IsScheduled, U
  <2> QED BY <1>8, <2>3, Zenon DEF d, s
<1>9. CASE d # 0 /\ kind = "timing"
  <2>1. s = [c EXCEPT !.pending_connection_update = U, !.maintenance = n]
    BY <1>4, <1>9
  <2>2. /\ s \in Connections /\ s.event_counter = c.event_counter
        /\ s.last_unmapped = c.last_unmapped /\ s.channel_map = c.channel_map
        /\ s.timing = c.timing /\ s.pending_channel_map = c.pending_channel_map
        /\ s.pending_connection_update = U /\ s.maintenance = n
    BY <1>1, <1>2, <2>1, Zenon DEF Connections
  <2>3. IsScheduled(s, c, kind, value, i, FALSE)
    BY <1>2, <1>3, <1>9, <2>2 DEF IsScheduled, U
  <2> QED BY <1>9, <2>3, Zenon DEF d, s
<1> QED BY <1>5, <1>6, <1>7, <1>8, <1>9

\* An indication that is not refused is scheduled: its instant has not passed.
LEMMA AcceptedFields ==
    ASSUME NEW c \in Connections, NEW C \in Counters, NEW p \in Procedures,
           c.event_counter = Wrap(C + 1), ~Refused(c, Wrap(C + p.left))
    PROVE  /\ p.left >= 0 /\ Pending(c) = {}
           /\ IsScheduled(Scheduled(c, p.kind, p.value, Wrap(C + p.left)), c,
                          p.kind, p.value, Wrap(C + p.left), p.left = 0)
<1> DEFINE i == Wrap(C + p.left)
           d == Wrap(i - Wrap(c.event_counter - 1))
<1>1. p.kind \in Kinds /\ p.value \in Values /\ p.left \in Int
    BY ConstantTypes DEF Procedures
<1>2. i \in Counters
  <2>1. C + p.left \in Int
    BY <1>1, CounterType
  <2> QED BY <2>1, WrapAdd, Zenon
<1>3. Pending(c) = {} /\ ~(d >= Horizon)
    BY Zenon DEF Refused
<1>4. p.left >= 0 /\ (d = 0 <=> p.left = 0)
    BY <1>3, AcceptDistance
<1>5. IsScheduled(Scheduled(c, p.kind, p.value, i), c, p.kind, p.value, i, d = 0)
    BY <1>1, <1>2, <1>3, ScheduledFields, Zenon
<1>6. (d = 0) = (p.left = 0)
    BY <1>4
<1> QED BY <1>3, <1>4, <1>5, <1>6, Zenon

\* An accepted indication: its update is pending, or in force at its instant.
LEMMA IndicationAgree ==
    ASSUME NEW c \in Connections, NEW K \in Centrals, Agree(c, K),
           c.event_counter = Wrap(K.counter + 1), NEW p \in K.procedure,
           ~Refused(c, Wrap(K.counter + p.left)), K.carries = "indication",
           NEW s, s = Scheduled(c, p.kind, p.value, Wrap(K.counter + p.left)),
           NEW r, NEW m, IsMaintained(r, s, m),
           Pending(s) # {} /\ s.maintenance.instant_acknowledgement = "HeaderRequired"
              => m.instant_acknowledgement # "Confirmed",
           NEW L, IsDelivered(L, K, {[p EXCEPT !.status = "accepted"]})
    PROVE  Agree(r, L)
<1> DEFINE C == K.counter
           i == Wrap(K.counter + p.left)
           q == [p EXCEPT !.status = "accepted"]
<1>1. p \in Procedures /\ C \in Counters
    BY CentralFields
<1>4. p.left >= 0 /\ Pending(c) = {}
    BY <1>1, AcceptedFields, Zenon
<1>6. IsScheduled(s, c, p.kind, p.value, i, p.left = 0)
    BY <1>1, AcceptedFields, Zenon
<1>7. q.kind = p.kind /\ q.value = p.value /\ q.left = p.left /\ q.status = "accepted" /\ Known(q)
    BY <1>1 DEF Procedures, Known
<1> HIDE DEF q
<1>8. /\ r.channel_map = IF p.kind = "map" /\ p.left = 0 THEN p.value ELSE c.channel_map
      /\ r.timing = IF p.kind = "timing" /\ p.left = 0 THEN p.value ELSE c.timing
      /\ r.pending_channel_map =
            IF p.kind = "map" /\ p.left # 0 THEN {[value |-> p.value, instant |-> i]} ELSE {}
      /\ r.pending_connection_update =
            IF p.kind = "timing" /\ p.left # 0 THEN {[value |-> p.value, instant |-> i]} ELSE {}
    BY <1>6, Zenon DEF IsScheduled, IsMaintained
<1>9. c.pending_channel_map = {} /\ c.pending_connection_update = {}
    BY <1>4 DEF Pending
<1>10. Pending(r) # {} => r.maintenance.instant_acknowledgement # "Confirmed"
  <2>1. Pending(s) = Pending(r)
    BY DEF Pending, IsMaintained
  <2>2. Pending(s) # {} => s.maintenance.instant_acknowledgement = "HeaderRequired"
    BY <1>6 DEF IsScheduled, Pending
  <2> QED BY <2>1, <2>2, Zenon DEF IsMaintained
<1>11. /\ p.left <= 0 /\ p.kind = "map" => p.value = K.channel_map
       /\ p.left <= 0 /\ p.kind = "timing" => p.value = K.timing
       /\ FollowsOne(p, C, 0, FALSE, "map", {}, c.channel_map, K.channel_map)
       /\ FollowsOne(p, C, 0, FALSE, "timing", {}, c.timing, K.timing)
    BY <1>9, Zenon DEF Agree, Follows
<1>12. FollowsOne(q, C, 0, FALSE, "map", r.pending_channel_map, r.channel_map, K.channel_map)
    BY <1>1, <1>4, <1>7, <1>8, <1>11, AcceptOne, Zenon
<1>13. FollowsOne(q, C, 0, FALSE, "timing", r.pending_connection_update, r.timing, K.timing)
    BY <1>1, <1>4, <1>7, <1>8, <1>11, AcceptOne, Zenon
<1>14. /\ L.procedure = {q} /\ L.counter = C /\ L.channel_map = K.channel_map
       /\ L.timing = K.timing /\ L.carries = "indication" /\ L.accepted = TRUE
    BY Zenon DEF IsDelivered, q
<1>15. \A x \in L.procedure : x = q
    BY <1>14
<1>16. /\ Follows(L.procedure, L.counter, 0, FALSE, "map",
                  r.pending_channel_map, r.channel_map, L.channel_map)
       /\ Follows(L.procedure, L.counter, 0, FALSE, "timing",
                  r.pending_connection_update, r.timing, L.timing)
    BY <1>12, <1>13, <1>14, <1>15, Zenon DEF Follows
<1>17. /\ Known(q) => q.left >= 0
       /\ q.left <= 0 /\ q.kind = "map" => q.value = L.channel_map
       /\ q.left <= 0 /\ q.kind = "timing" => q.value = L.timing
       /\ L.carries = "indication" /\ L.accepted
    BY <1>4, <1>7, <1>11, <1>14
<1> QED BY <1>10, <1>15, <1>16, <1>17, Zenon DEF Agree

\* What a reception needs to keep the invariant.
LEMMA ReceivedInvariant ==
    ASSUME LeInvariant, phase = "Completed",
           step' = [step EXCEPT !.serviced = TRUE], UNCHANGED <<algorithm, behind>>,
           connection' \in Connections, central' \in Centrals, IsPrepared(prepared'),
           connection'.maintenance.initial_acknowledged => central'.heard,
           \/ phase' = "Lost"
           \/ /\ phase' = "Completed" /\ Agree(connection', central')
              /\ connection'.event_counter = connection.event_counter
              /\ connection'.last_unmapped = connection.last_unmapped
              /\ central'.counter = central.counter
              /\ central'.last_unmapped = central.last_unmapped
    PROVE  LeInvariant'
<1>1. Typed /\ HeardInv /\ Linked
    BY DEF LeInvariant
<1>2. /\ step' \in Steps /\ step'.serviced = TRUE /\ step'.delta = step.delta
      /\ step'.before = step.before /\ step'.after = step.after
      /\ step'.paused = step.paused /\ step'.walked = step.walked
      /\ step'.switched = step.switched
  <2>1. step \in Steps
    BY <1>1 DEF Typed
  <2> QED BY <2>1, Zenon DEF Steps
<1>3. /\ behind = 0 /\ behind' = 0 /\ Ahead = 1
      /\ step.delta = 1 /\ step.before = 1 /\ step.after = 0 /\ ~step.switched /\ ~step.paused
      /\ step.walked.before = 0 /\ step.walked.after = 0
    BY <1>1 DEF Linked, HopInv, Ahead, IntervalInv
<1>4. Typed'
    BY <1>1, <1>2 DEF Typed
<1>5. HeardInv'
    BY <1>2, <1>3 DEF HeardInv
<1>6. SUFFICES ASSUME phase' = "Completed" PROVE Linked'
    BY <1>4, <1>5 DEF LeInvariant
<1>7. HopInv'
  <2>1. Ahead' = 1
    BY <1>6 DEF Ahead
  <2> QED BY <1>1, <1>3, <1>6, <2>1 DEF Linked, HopInv
<1>8. ChannelInv' /\ IntervalInv' /\ ClearInv'
    BY <1>2, <1>3, <1>6 DEF ChannelInv, IntervalInv, ClearInv
<1>9. Agree(connection', central')
    BY <1>6
<1>10. ProcedureInv'
    BY <1>9, Zenon DEF Agree, ProcedureInv
<1>11. MapInv' /\ TimingInv'
  <2>1. phase' # "Connection"
    BY <1>6
  <2> QED BY <1>3, <1>9, <2>1, OpenOrNotAfter, Zenon DEF Agree
<1> QED BY <1>7, <1>8, <1>10, <1>11 DEF Linked

\* Receiving the peer's packet in a completed event.
LEMMA ReceiveInvariant ==
    ASSUME LeInvariant, NEW nesn, NEW reply, Receive(nesn, reply)
    PROVE  LeInvariant'
<1>1. /\ phase = "Completed"
      /\ nesn = 1 => central.heard
      /\ step' = [step EXCEPT !.serviced = TRUE] /\ UNCHANGED <<algorithm, behind>>
    BY DEF Receive
<1>2. Typed /\ HeardInv /\ Linked
    BY <1>1 DEF LeInvariant
<1>3. /\ connection \in Connections /\ central \in Centrals /\ IsPrepared(prepared)
      /\ connection.maintenance \in Maintenances /\ central.sn \in {0, 1}
      /\ central.procedure \in SUBSET Procedures
    BY <1>2, CentralFields, ConnectionFields DEF Typed
<1>4. connection.event_counter = Wrap(central.counter + 1)
    BY <1>1, <1>2 DEF Linked, HopInv, Ahead
<1>5. Agree(connection, central)
  <2>1. behind = 0 /\ phase # "Connection"
    BY <1>1, <1>2 DEF Linked, HopInv
  <2>2. MapInv /\ TimingInv /\ ProcedureInv
    BY <1>2 DEF Linked
  <2> QED BY <2>1, <2>2, OpenOrNot, Zenon DEF Agree, ProcedureInv
<1>6. connection.maintenance.initial_acknowledged => central.heard
    BY <1>2 DEF HeardInv
<1>7. ASSUME NEW K \in Centrals, central' = Answered(K, reply), Agree(connection', K),
             K.counter = central.counter, K.last_unmapped = central.last_unmapped,
             K.heard = central.heard
      PROVE  /\ central' \in Centrals /\ Agree(connection', central')
             /\ central'.counter = central.counter
             /\ central'.last_unmapped = central.last_unmapped
             /\ central.heard => central'.heard
  <2>1. PICK c : c = connection'
    OBVIOUS
  <2>2. LET r == Answered(K, reply)
        IN  /\ r \in Centrals /\ Agree(c, r)
            /\ r.counter = K.counter /\ r.last_unmapped = K.last_unmapped
            /\ K.heard => r.heard
    BY <1>7, <2>1, AnsweredAgree, Zenon
  <2> QED BY <1>7, <2>1, <2>2, Zenon
<1>8. CASE ReceiveData(nesn, reply)
  <2> DEFINE m == ObserveHeader(connection.maintenance, central.sn, nesn,
                                Pending(connection) # {})
             K == [central EXCEPT !.accepted = TRUE]
  <2>1. /\ ~central.accepted /\ connection' = Maintained(connection, m)
        /\ central' = Answered(K, reply) /\ UNCHANGED <<prepared, phase>>
    BY <1>8, Zenon DEF ReceiveData, Maintained
  <2>2. /\ m \in Maintenances
        /\ m.initial_acknowledged => connection.maintenance.initial_acknowledged \/ nesn = 1
    <3>1. (Pending(connection) # {}) \in BOOLEAN
        OBVIOUS
    <3>2. HeaderObserved(m, connection.maintenance, nesn, Pending(connection) # {})
        BY <1>3, <3>1, ObserveFields, Zenon
    <3> HIDE DEF m
    <3> QED BY <3>2 DEF HeaderObserved
  <2> HIDE DEF m
  <2>3. IsMaintained(connection', connection, m)
    BY <1>3, <2>1, <2>2, MaintainedFields, Zenon
  <2>4. IsDelivered(K, central, central.procedure)
    BY <1>3, DeliveredFields, Zenon
  <2> HIDE DEF K
  <2>5. Agree(connection', K)
    <3>1. /\ connection'.pending_channel_map = connection.pending_channel_map
          /\ connection'.pending_connection_update = connection.pending_connection_update
          /\ connection'.channel_map = connection.channel_map
          /\ connection'.timing = connection.timing
        BY <2>3, Zenon DEF IsMaintained
    <3>2. /\ K.counter = central.counter /\ K.channel_map = central.channel_map
          /\ K.timing = central.timing /\ K.procedure = central.procedure
        BY <2>4, Zenon DEF IsDelivered
    <3> QED BY <1>5, <2>1, <3>1, <3>2, KeepAgree, Zenon
  <2>6. /\ central' \in Centrals /\ Agree(connection', central')
        /\ central'.counter = central.counter /\ central'.last_unmapped = central.last_unmapped
        /\ central.heard => central'.heard
    BY <1>7, <2>1, <2>4, <2>5, Zenon DEF IsDelivered
  <2>7. /\ connection' \in Connections
        /\ connection'.event_counter = connection.event_counter
        /\ connection'.last_unmapped = connection.last_unmapped
        /\ connection'.maintenance.initial_acknowledged => central'.heard
    BY <1>1, <1>6, <2>2, <2>3, <2>6 DEF IsMaintained
  <2>8. IsPrepared(prepared')
    BY <1>3, <2>1, Zenon DEF IsPrepared
  <2> QED BY <1>1, <2>1, <2>6, <2>7, <2>8, ReceivedInvariant, Zenon
<1>9. CASE ReceiveIndication(nesn, reply)
  <2> DEFINE i(p) == Wrap(central.counter + p.left)
  <2>1. PICK p \in central.procedure : LET c == Scheduled(connection, p.kind, p.value, i(p)) IN
            /\ ~central.accepted
            /\ central.carries = "indication"
            /\ IF Refused(connection, i(p))
               THEN phase' = "Lost" /\ UNCHANGED <<connection, prepared>>
               ELSE /\ connection' = Maintained(c,
                          ObserveHeader(c.maintenance, central.sn, nesn, Pending(c) # {}))
                    /\ prepared' = [prepared EXCEPT
                          !.channel_map_updated = @ \/ (p.left = 0 /\ p.kind = "map"),
                          !.connection_timing_transition =
                              @ \/ (p.left = 0 /\ p.kind = "timing")]
                    /\ UNCHANGED phase
            /\ central' = Answered(Delivered(central, {[p EXCEPT !.status = "accepted"]}), reply)
    BY <1>9, Zenon DEF ReceiveIndication, Maintained, Delivered
  <2> DEFINE s == Scheduled(connection, p.kind, p.value, i(p))
             m == ObserveHeader(s.maintenance, central.sn, nesn, Pending(s) # {})
             K == Delivered(central, {[p EXCEPT !.status = "accepted"]})
  <2>2. p \in Procedures /\ {[p EXCEPT !.status = "accepted"]} \in SUBSET Procedures
    BY <1>3 DEF Procedures
  <2>3. IsDelivered(K, central, {[p EXCEPT !.status = "accepted"]})
    BY <1>3, <2>2, DeliveredFields, Zenon
  <2>4. K \in Centrals /\ K.counter = central.counter /\ K.heard = central.heard
        /\ K.last_unmapped = central.last_unmapped
    BY <2>3 DEF IsDelivered
  <2>5. central' = Answered(K, reply)
    BY <2>1, Zenon
  <2> HIDE DEF K
  <2>6. CASE Refused(connection, i(p))
    <3>1. phase' = "Lost" /\ connection' = connection /\ prepared' = prepared
        BY <2>1, <2>6, Zenon
    <3>2. central' \in Centrals /\ (central.heard => central'.heard)
      <4>1. K.carries = "indication"
        BY <2>1, <2>3 DEF IsDelivered
      <4>2. IsHearing(CentralHears(K), K, {Answer(x, K.carries) : x \in K.procedure})
        BY <2>4, <4>1, HearsFields, Zenon
      <4> QED BY <2>4, <2>5, <4>2 DEF Answered, IsHearing
    <3>3. IsPrepared(prepared')
        BY <1>3, <3>1, Zenon DEF IsPrepared
    <3> QED BY <1>1, <1>3, <1>6, <3>1, <3>2, <3>3, ReceivedInvariant
  <2>7. CASE ~Refused(connection, i(p))
    <3>1. /\ connection' = Maintained(s, m) /\ phase' = phase
          /\ prepared' = [prepared EXCEPT
                !.channel_map_updated = @ \/ (p.left = 0 /\ p.kind = "map"),
                !.connection_timing_transition = @ \/ (p.left = 0 /\ p.kind = "timing")]
        BY <2>1, <2>7, Zenon
    <3>2. IsPrepared(prepared')
        BY <1>3, <3>1, Zenon DEF IsPrepared
    <3>3. IsScheduled(s, connection, p.kind, p.value, i(p), p.left = 0)
      <4>1. central.counter \in Counters
        BY <1>3, CentralFields
      <4> QED BY <1>3, <1>4, <2>2, <2>7, <4>1, AcceptedFields, Zenon
    <3>4. /\ s \in Connections /\ s.maintenance \in Maintenances
          /\ s.event_counter = connection.event_counter
          /\ s.last_unmapped = connection.last_unmapped
          /\ s.maintenance.initial_acknowledged = connection.maintenance.initial_acknowledged
        BY <3>3, ConnectionFields, Zenon DEF IsScheduled
    <3>5. /\ m \in Maintenances
          /\ m.initial_acknowledged => s.maintenance.initial_acknowledged \/ nesn = 1
          /\ Pending(s) # {} /\ s.maintenance.instant_acknowledgement = "HeaderRequired"
               => m.instant_acknowledgement # "Confirmed"
      <4>1. (Pending(s) # {}) \in BOOLEAN
        BY Zenon
      <4> HIDE DEF s
      <4>2. HeaderObserved(m, s.maintenance, nesn, Pending(s) # {})
        BY <1>3, <3>4, <4>1, ObserveFields, Zenon
      <4> HIDE DEF m
      <4> QED BY <4>2 DEF HeaderObserved
    <3>6. s = Scheduled(connection, p.kind, p.value, i(p))
        BY Zenon
    <3> HIDE DEF m, s
    <3>7. IsMaintained(connection', s, m)
        BY <3>1, <3>4, <3>5, MaintainedFields, Zenon
    <3>8. Agree(connection', K)
        BY <1>3, <1>4, <1>5, <2>1, <2>3, <2>7, <3>5, <3>6, <3>7, IndicationAgree, Zenon
    <3>9. /\ central' \in Centrals /\ Agree(connection', central')
          /\ central'.counter = central.counter /\ central'.last_unmapped = central.last_unmapped
          /\ central.heard => central'.heard
        BY <1>7, <2>4, <2>5, <3>8, Zenon
    <3>10. /\ connection' \in Connections
           /\ connection'.event_counter = connection.event_counter
           /\ connection'.last_unmapped = connection.last_unmapped
           /\ connection'.maintenance.initial_acknowledged => central'.heard
        BY <1>1, <1>6, <3>4, <3>5, <3>7, <3>9 DEF IsMaintained
    <3> QED BY <1>1, <3>1, <3>2, <3>9, <3>10, ReceivedInvariant, Zenon
  <2> QED BY <2>6, <2>7
<1>10. CASE ReceiveDuplicate(reply)
  <2> DEFINE m == [connection.maintenance EXCEPT !.recovery_required = FALSE]
  <2>1. /\ connection' = Maintained(connection, m)
        /\ central' = Answered(central, reply) /\ UNCHANGED <<prepared, phase>>
    BY <1>10 DEF ReceiveDuplicate, Maintained
  <2>2. /\ m \in Maintenances
        /\ m.initial_acknowledged = connection.maintenance.initial_acknowledged
        /\ m.instant_acknowledgement = connection.maintenance.instant_acknowledgement
    BY <1>3, Zenon DEF Maintenances
  <2> HIDE DEF m
  <2>3. IsMaintained(connection', connection, m)
    BY <1>3, <2>1, <2>2, MaintainedFields, Zenon
  <2>5. Agree(connection', central)
    BY <1>5, <2>2, <2>3, KeepAgree DEF IsMaintained
  <2>6. /\ central' \in Centrals /\ Agree(connection', central')
        /\ central'.counter = central.counter /\ central'.last_unmapped = central.last_unmapped
        /\ central.heard => central'.heard
    BY <1>3, <1>7, <2>1, <2>5, Zenon
  <2>7. /\ connection' \in Connections
        /\ connection'.event_counter = connection.event_counter
        /\ connection'.last_unmapped = connection.last_unmapped
        /\ connection'.maintenance.initial_acknowledged => central'.heard
    BY <1>6, <2>2, <2>3, <2>6, Zenon DEF IsMaintained
  <2>8. IsPrepared(prepared')
    BY <1>3, <2>1, Zenon DEF IsPrepared
  <2> QED BY <1>1, <2>1, <2>6, <2>7, <2>8, ReceivedInvariant, Zenon
<1> QED BY <1>8, <1>9, <1>10 DEF Receive

-----------------------------------------------------------------------------
(* The theorems.                                                            *)

\* Every step keeps the invariant.
LEMMA LeStep == LeInvariant /\ [Next]_vars => LeInvariant'
<1> SUFFICES ASSUME LeInvariant, [Next]_vars PROVE LeInvariant'
    OBVIOUS
<1>1. CASE PrepareEvent
    BY <1>1, PrepareInvariant
<1>2. CASE Cancel \/ IntoSubmitted
    BY <1>2, CancelInvariant
<1>3. CASE IntoConnection
    BY <1>3, IntoInvariant
<1>4. ASSUME NEW activity \in {"Observed", "Missed"}, Complete(activity)
      PROVE  LeInvariant'
    BY <1>4, CompleteInvariant, Zenon
<1>5. ASSUME NEW nesn \in {0, 1}, NEW reply \in BOOLEAN, Receive(nesn, reply)
      PROVE  LeInvariant'
    BY <1>5, ReceiveInvariant, Zenon
<1>6. ASSUME NEW delta \in 1..MaxDelta, NEW pause \in BOOLEAN, Commit(delta, pause)
      PROVE  LeInvariant'
    BY <1>6, CommitInvariant, Zenon
<1>7. CASE CentralEvent
    BY <1>7, EventInvariant
<1>8. ASSUME NEW left \in 1..MaxInstant,
             \/ \E map \in Maps : CentralStart("map", map, left)
             \/ \E timing \in Timings : CentralStart("timing", timing, left)
      PROVE  LeInvariant'
  <2>1. PICK kind \in Kinds, value \in Values : CentralStart(kind, value, left)
    BY <1>8 DEF Kinds, Values
  <2> QED BY <2>1, StartInvariant, Zenon
<1>9. CASE CentralLeaves
    BY <1>9, LeavesInvariant
<1>10. CASE Reconnect
    BY <1>10, ReconnectInvariant
<1>11. CASE UNCHANGED vars
    BY <1>11, Zenon DEF vars, LeInvariant, Typed, HeardInv, Linked, HopInv, Ahead, ChannelInv,
                 Preview, ProcedureInv, Pending, MapInv, TimingInv, IntervalInv, ClearInv
<1> QED BY <1>1, <1>2, <1>3, <1>4, <1>5, <1>6, <1>7, <1>8, <1>9, <1>10, <1>11, Zenon DEF Next

\* The two sides stay linked: counter, hop, channel, pending instants, interval
\* split and maintenance state of the connection against the Central's, for
\* every counter width, hop, channel map, and every distance of events skipped.
THEOREM LeConnectionInvariant == Spec => []LeInvariant
<1>1. Init => LeInvariant
    BY InitInvariant
<1>2. LeInvariant /\ [Next]_vars => LeInvariant'
    BY LeStep
<1> QED BY <1>1, <1>2, PTL DEF Spec

\* At an event both sides hold, no instant separates them.
LEMMA AtEventFacts ==
    ASSUME LeInvariant, AtEvent
    PROVE  /\ Typed /\ Linked /\ phase = "InFlight" /\ behind = 0 /\ Ahead = 0
           /\ \A p \in central.procedure, kind \in Kinds : ~Passed(p, kind) /\ ~Comes(p, kind, 0)
<1>1. phase = "InFlight" /\ behind = 0 /\ ~Diverged
    BY DEF AtEvent
<1>2. Typed /\ Linked /\ Ahead = 0
    BY <1>1 DEF LeInvariant, Ahead
<1>3. central.procedure \in SUBSET Procedures
    BY <1>2, CentralFields DEF Typed
<1>4. ASSUME NEW p \in central.procedure, NEW kind
      PROVE  ~Passed(p, kind) /\ ~Comes(p, kind, 0)
  <2>1. /\ p.left \in Int /\ p.status \in {"waiting", "sent", "accepted", "acked"}
    BY <1>3, ConstantTypes DEF Procedures
  <2> QED BY <1>1, <2>1 DEF Diverged, Passed, Comes, Known
<1> QED BY <1>1, <1>2, <1>4

\* Stepping one hop back and one forward is where it was.
LEMMA HopBack ==
    ASSUME NEW l \in 0..(Channels - 1), NEW n \in 0..(Channels - 1),
           Remainder(n + Hop, Channels) = Remainder(l + Hop * 0, Channels)
    PROVE  (n + Hop) % Channels = (((l + (Channels - Hop)) % Channels) + Hop) % Channels
<1>1. Channels \in Nat \ {0} /\ Hop \in Nat /\ Hop \in Int /\ l \in Int
    BY ConstantTypes
<1>2. PICK k \in Int : k = l + (Channels - Hop)
    BY <1>1
<1>3. Remainder(Remainder(k, Channels) + Hop, Channels) = Remainder(k + Hop, Channels)
    BY <1>1, RemainderAdd, Zenon
<1>4. PICK j \in Int : j = k + Hop
    BY <1>1
<1>5. j = l + Channels * 1
    BY <1>1, <1>2, <1>4
<1>6. Congruent(j, l, Channels)
    BY <1>5 DEF Congruent
<1>7. Remainder(j, Channels) = Remainder(l, Channels)
    BY <1>1, <1>6, RemainderSame, Zenon
<1>8. l + Hop * 0 = l
    BY <1>1
<1> QED BY <1>2, <1>3, <1>4, <1>7, <1>8 DEF Remainder

\* Whenever the Peripheral listens it listens where and as the Central sends:
\* same event, channel and timing, whatever events it skipped, cancelled and
\* prepared again (prepare_event, commit, complete), for every modulus and hop.
THEOREM ListeningWithCentral == Spec => []ListensWithCentral
<1>1. LeInvariant => ListensWithCentral
  <2> SUFFICES ASSUME LeInvariant, AtEvent
               PROVE  Meets /\ connection.event_counter = central.counter
    BY DEF ListensWithCentral
  <2>1. /\ Typed /\ Linked /\ phase = "InFlight" /\ behind = 0 /\ Ahead = 0
        /\ \A p \in central.procedure, kind \in Kinds : ~Passed(p, kind) /\ ~Comes(p, kind, 0)
    BY AtEventFacts
  <2>2. /\ connection \in Connections /\ central \in Centrals /\ central.counter \in Counters
        /\ central.last_unmapped \in 0..(Channels - 1)
        /\ connection.last_unmapped \in 0..(Channels - 1)
    BY <2>1, CentralFields, ConnectionFields DEF Typed
  <2>3. connection.event_counter = central.counter
    <3>1. connection.event_counter = Wrap(central.counter + 0)
        BY <2>1 DEF Linked, HopInv
    <3>2. /\ central.counter \in Int /\ central.counter + 0 = central.counter
          /\ 0 - Modulus <= central.counter /\ central.counter < Modulus /\ ~(central.counter < 0)
        BY <2>2, CounterType, ConstantTypes
    <3> QED BY <3>1, <3>2, WrapNear
  <2>4. connection.channel_map = central.channel_map /\ connection.timing = central.timing
    <3>1. \A kind \in Kinds : \A P, v, V :
            Follows(central.procedure, central.counter, 0, FALSE, kind, P, v, V) => v = V
        BY <2>1, Zenon DEF Follows, FollowsOne
    <3>2. "map" \in Kinds /\ "timing" \in Kinds /\ phase # "Connection"
        BY <2>1 DEF Kinds
    <3> QED BY <2>1, <3>1, <3>2, OpenOrNot, Zenon DEF Linked
  <2>5. prepared.channel = Preview(connection.channel_map, connection.last_unmapped,
                                   connection.event_counter).channel
    BY <2>1 DEF Linked, ChannelInv
  <2>6. algorithm = "One" =>
          (connection.last_unmapped + Hop) % Channels
             = (((central.last_unmapped + (Channels - Hop)) % Channels) + Hop) % Channels
    <3>1. algorithm = "One" =>
            Remainder(connection.last_unmapped + Hop, Channels)
              = Remainder(central.last_unmapped + Hop * 0, Channels)
        BY <2>1 DEF Linked, HopInv
    <3> QED BY <2>2, <3>1, HopBack, Zenon
  <2>7. prepared.channel = CentralChannel
    <3>1. CASE algorithm = "One"
      <4>1. \A map, a, b, c : (a + Hop) % Channels = (b + Hop) % Channels
                               => Preview(map, a, c) = Preview(map, b, c)
        BY <3>1, Zenon DEF Preview
      <4>2. PICK x : x = (central.last_unmapped + (Channels - Hop)) % Channels
        OBVIOUS
      <4>3. Preview(central.channel_map, connection.last_unmapped, central.counter)
               = Preview(central.channel_map, x, central.counter)
        BY <2>6, <3>1, <4>1, <4>2, Zenon
      <4> QED BY <2>3, <2>4, <2>5, <4>2, <4>3, Zenon DEF CentralChannel
    <3>2. CASE algorithm # "One"
        BY <2>3, <2>4, <2>5, <3>2, Zenon DEF CentralChannel, Preview
    <3> QED BY <3>1, <3>2
  <2> QED BY <2>3, <2>4, <2>7 DEF Meets
<1> QED BY <1>1, LeConnectionInvariant, PTL

\* The old and the new intervals of a step, from which the scheduler computes
\* when to listen, are those the Central let pass (LeConnectionTimingIntervals).
THEOREM IntervalsExact == Spec => []IntervalsAreExact
<1>1. LeInvariant => IntervalsAreExact
  <2> SUFFICES ASSUME LeInvariant, AtEvent
               PROVE  step.walked = [before |-> step.before, after |-> step.after]
    BY DEF IntervalsAreExact
  <2>1. /\ Typed /\ Linked /\ phase = "InFlight" /\ behind = 0
        /\ \A p \in central.procedure, kind \in Kinds : ~Passed(p, kind) /\ ~Comes(p, kind, 0)
    BY AtEventFacts
  <2>2. "timing" \in Kinds
    BY DEF Kinds
  <2>3. Split(central.procedure, 0, step.delta, step.before, step.after,
              step.walked.before, step.walked.after, step.switched)
    BY <2>1, Zenon DEF Linked, IntervalInv
  <2>4. /\ step.walked.before \in Nat /\ step.walked.after \in Nat
        /\ step.walked = [before |-> step.walked.before, after |-> step.walked.after]
    BY <2>1 DEF Typed, Steps
  <2>5. /\ step.walked.before + 0 = step.walked.before
        /\ step.walked.after + 0 = step.walked.after
    BY <2>4
  <2>6. step.walked.before = step.before /\ step.walked.after = step.after
    BY <2>1, <2>2, <2>3, <2>5, Zenon DEF Split, SplitOne
  <2> QED BY <2>4, <2>6
<1> QED BY <1>1, LeConnectionInvariant, PTL

\* A deliberate pause is earned, keeps clear of the instant of an accepted
\* update and of the event before it, and the Central knows that the update was
\* accepted (maintenance_skip_eligible).
THEOREM PausesAreSafe == Spec => []PauseIsSafe
<1>1. LeInvariant => PauseIsSafe
  <2> SUFFICES ASSUME LeInvariant PROVE PauseIsSafe
    OBVIOUS
  <2>1. step.paused => step.earned
    BY DEF LeInvariant, HeardInv
  <2>2. ASSUME phase = "InFlight", step.paused, 0 < behind, behind < step.delta,
               NEW p \in central.procedure
        PROVE  p.status \in {"waiting", "sent"} \/ (p.status = "acked" /\ p.left \notin {0, 1})
    <3>1. Typed /\ ClearOne(p, behind, step.delta)
        BY <2>2 DEF LeInvariant, Linked, ClearInv
    <3>2. /\ p.left \in Int /\ p.status \in {"waiting", "sent", "accepted", "acked"}
          /\ behind \in Nat /\ step.delta \in Nat
        BY <3>1, CentralFields, ConstantTypes DEF Typed, Procedures, Steps
    <3> QED BY <2>2, <3>1, <3>2 DEF ClearOne, Known
  <2> QED BY <2>1, <2>2 DEF PauseIsSafe
<1> QED BY <1>1, LeConnectionInvariant, PTL
=============================================================================
