--------------------------- MODULE PermitPoolProofs --------------------------
(***************************************************************************)
(* The permit pool loses no wake-up and mixes up no places, for every set  *)
(* of permits and seats and every ticket width.                            *)
(***************************************************************************)
EXTENDS PermitPool, TLAPS

\* Wrapping subtraction on the ticket circle.
LEMMA Wraps ==
    ASSUME NEW t \in Tickets, NEW n \in Tickets
    PROVE  wrapping_sub(t, n) = IF t >= n THEN t - n ELSE t - n + TICKETS
BY TicketsAssumption, SMT DEF Tickets, wrapping_sub

\* The ticket after a ticket is another ticket (wrapping_add, lib.rs:237).
LEMMA NextTicket ==
    ASSUME NEW n \in Tickets
    PROVE  (n + 1) % TICKETS = IF n + 1 = TICKETS THEN 0 ELSE n + 1
BY TicketsAssumption, SMT DEF Tickets

\* Issuing a ticket brings every other ticket one closer to the front.
LEMMA IssueShifts ==
    ASSUME NEW t \in Tickets, NEW n \in Tickets, t # n
    PROVE  /\ (n + 1) % TICKETS \in Tickets
           /\ wrapping_sub(t, (n + 1) % TICKETS) = wrapping_sub(t, n) - 1
           /\ wrapping_sub(t, n) \in Int
<1>1. (n + 1) % TICKETS \in Tickets
    BY NextTicket, TicketsAssumption DEF Tickets
<1> QED BY <1>1, NextTicket, Wraps, TicketsAssumption DEF Tickets

\* The rank of a ticket is a natural number (wrapping_sub, lib.rs:182).
LEMMA RankType ==
    ASSUME NEW t \in Tickets, NEW n \in Tickets
    PROVE  wrapping_sub(t, n) \in Int
BY Wraps, TicketsAssumption DEF Tickets

-----------------------------------------------------------------------------
Inv == TypeOK /\ PlacesAreOwned /\ NoLostWake

\* A seat that leads once `s` gave up a place it did not lead with led before.
LEMMA VacateKeepsLeader ==
    ASSUME TypeOK, NEW s \in Seats, NEW r \in Seats,
           ~Leads(s, line, next), Leads(r, Vacate(line, s), next)
    PROVE  Leads(r, line, next)
<1>1. /\ r # s /\ line[r] # NoTicket
      /\ \A q \in Seats \ {s} : line[q] # NoTicket =>
            wrapping_sub(line[r], next) <= wrapping_sub(line[q], next)
    BY DEF TypeOK, Vacate, Leads
<1>2. line[s] # NoTicket => wrapping_sub(line[r], next) <= wrapping_sub(line[s], next)
  <2> HAVE line[s] # NoTicket
  <2>1. PICK q \in Seats : /\ line[q] # NoTicket
                           /\ ~(wrapping_sub(line[s], next) <= wrapping_sub(line[q], next))
      BY DEF Leads
  <2>2. /\ wrapping_sub(line[s], next) \in Int /\ wrapping_sub(line[q], next) \in Int
        /\ wrapping_sub(line[r], next) \in Int
      BY <1>1, <2>1, RankType DEF TypeOK
  <2>3. q # s
      BY <2>1, <2>2
  <2> QED BY <1>1, <2>1, <2>2, <2>3
<1> QED BY <1>1, <1>2 DEF Leads

\* A ticket issued to `s` changes no other seat's lead, unless `s` replaced a
\* leading leaked take.
LEMMA IssueKeepsLeader ==
    ASSUME TypeOK, NEW s \in Seats, NEW r \in Seats, r # s,
           ~Keeps(s), WithinHorizon(s), ~Leads(s, line, next),
           Leads(r, LineAfter(s), NextAfter(s))
    PROVE  Leads(r, line, next)
<1>1. /\ line[r] # NoTicket
      /\ \A q \in Seats \ {s} : line[q] # NoTicket =>
            wrapping_sub(line[r], NextAfter(s)) <= wrapping_sub(line[q], NextAfter(s))
    BY DEF TypeOK, LineAfter, Leads
<1>2. \A q \in Seats \ {s} : line[q] # NoTicket =>
            wrapping_sub(line[r], next) <= wrapping_sub(line[q], next)
  <2> TAKE q \in Seats \ {s}
  <2> HAVE line[q] # NoTicket
  <2>1. /\ line[q] \in Tickets /\ line[r] \in Tickets /\ next \in Tickets
        /\ line[q] # next /\ line[r] # next
      BY <1>1 DEF TypeOK, WithinHorizon
  <2>2. NextAfter(s) = (next + 1) % TICKETS
      BY DEF NextAfter
  <2> QED BY <1>1, <2>1, <2>2, IssueShifts
<1>3. Leads(r, Vacate(line, s), next)
    BY <1>1, <1>2 DEF Leads, Vacate, TypeOK
<1> QED BY <1>3, VacateKeepsLeader

\* What poll_take stores has its type (lib.rs:223).
LEMMA PollType ==
    ASSUME TypeOK, NEW s \in Seats
    PROVE  /\ Issued(s) \in Tickets
           /\ NextAfter(s) \in Tickets
           /\ LineAfter(s) \in [Seats -> Tickets \union {NoTicket}]
           /\ ReplacedWakes(s) \subseteq Seats
<1>1. NextAfter(s) \in Tickets
  <2>1. (next + 1) % TICKETS \in Tickets
      BY NextTicket, TicketsAssumption DEF TypeOK, Tickets
  <2> QED BY <2>1 DEF NextAfter, TypeOK
<1>2. Issued(s) \in Tickets
    BY DEF Issued, Keeps, TypeOK
<1> QED BY <1>1, <1>2 DEF LineAfter, ReplacedWakes, wake_leader, TypeOK

-----------------------------------------------------------------------------
\* Each action keeps the invariant.
LEMMA PollPendingInv ==
    ASSUME Inv, NEW s \in Seats, PollPending(s)
    PROVE  Inv'
<1>1. TypeOK'
    BY PollType DEF Inv, TypeOK, PollPending
<1>2. PlacesAreOwned'
  <2>1. line'[s] = Issued(s) /\ ticket'[s] = Issued(s)
      BY PollType DEF PollPending, LineAfter, Inv, TypeOK
  <2>2. \A r \in Seats \ {s} : line'[r] = line[r] /\ ticket'[r] = ticket[r]
      BY DEF PollPending, LineAfter, Inv, TypeOK
  <2>3. \A r \in Seats \ {s} : line[r] # Issued(s)
      BY DEF PollPending, WithinHorizon, Issued, Keeps, Inv, PlacesAreOwned
  <2> QED BY <2>1, <2>2, <2>3 DEF Inv, PlacesAreOwned
<1>3. NoLostWake'
  <2> SUFFICES ASSUME free' # {}, NEW r \in Seats, Leads(r, line', next'),
                      ticket'[r] # NoTicket
               PROVE  r \in scheduled'
      BY DEF NoLostWake
  <2>1. r # s
      BY DEF PollPending
  <2>2. free # {} /\ ticket[r] # NoTicket /\ Leads(r, LineAfter(s), NextAfter(s))
      BY <2>1 DEF PollPending, Inv, TypeOK
  <2>3. CASE Keeps(s)
    <3>1. LineAfter(s) = line /\ NextAfter(s) = next
        BY <2>3 DEF LineAfter, NextAfter, Issued, Keeps, Inv, TypeOK
    <3> QED BY <2>1, <2>2, <3>1 DEF Inv, NoLostWake, PollPending
  <2>4. CASE ~Keeps(s) /\ Leads(s, line, next)
      BY <2>2, <2>4 DEF PollPending, ReplacedWakes, wake_leader
  <2>5. CASE ~Keeps(s) /\ ~Leads(s, line, next)
    <3>1. Leads(r, line, next)
        BY <2>1, <2>2, <2>5, IssueKeepsLeader DEF PollPending, Inv
    <3> QED BY <2>1, <2>2, <3>1 DEF Inv, NoLostWake, PollPending
  <2> QED BY <2>3, <2>4, <2>5
<1> QED BY <1>1, <1>2, <1>3 DEF Inv

\* Serving the leader keeps the invariant (lib.rs:252).
LEMMA PollReadyInv ==
    ASSUME Inv, NEW s \in Seats, NEW p \in Permits, PollReady(s, p)
    PROVE  Inv'
<1>1. TypeOK'
  <2>1. left_wakes(LineAfter(s), NextAfter(s), s, free') \subseteq Seats
      BY DEF left_wakes, wake_leader
  <2> QED BY <2>1, PollType, Zenon DEF Inv, TypeOK, PollReady, Vacate
<1>2. PlacesAreOwned'
  <2>1. line'[s] = NoTicket /\ ticket'[s] = NoTicket
      BY PollType DEF PollReady, LineAfter, Vacate, Inv, TypeOK
  <2>2. \A r \in Seats \ {s} : line'[r] = line[r] /\ ticket'[r] = ticket[r]
      BY PollType DEF PollReady, LineAfter, Vacate, Inv, TypeOK
  <2> QED BY <2>1, <2>2 DEF Inv, PlacesAreOwned
<1>3. NoLostWake'
    BY DEF NoLostWake, PollReady, left_wakes, wake_leader
<1> QED BY <1>1, <1>2, <1>3 DEF Inv

\* A cancelled take keeps the invariant (Place::drop, lib.rs:278).
LEMMA CancelInv ==
    ASSUME Inv, NEW s \in Seats, Cancel(s)
    PROVE  Inv'
<1>1. line' = Vacate(line, s)
    BY DEF Cancel, Inv, PlacesAreOwned
<1>2. TypeOK'
    BY <1>1 DEF Inv, TypeOK, Cancel, Vacate, left_wakes, wake_leader
<1>3. PlacesAreOwned'
  <2>1. line'[s] = NoTicket /\ ticket'[s] = NoTicket
      BY <1>1 DEF Cancel, Vacate, Inv, TypeOK
  <2>2. \A r \in Seats \ {s} : line'[r] = line[r] /\ ticket'[r] = ticket[r]
      BY <1>1 DEF Cancel, Vacate, Inv, TypeOK
  <2> QED BY <2>1, <2>2 DEF Inv, PlacesAreOwned
<1>4. NoLostWake'
  <2> SUFFICES ASSUME free' # {}, NEW r \in Seats, Leads(r, line', next'),
                      ticket'[r] # NoTicket
               PROVE  r \in scheduled'
      BY DEF NoLostWake
  <2>1. free # {} /\ Leads(r, Vacate(line, s), next)
      BY <1>1 DEF Cancel
  <2>2. r # s /\ ticket[r] # NoTicket
      BY DEF Cancel, Inv, TypeOK
  <2>3. CASE Leads(s, line, next)
      BY <2>1, <2>3 DEF Cancel, left_wakes, wake_leader
  <2>4. CASE ~Leads(s, line, next)
    <3>1. Leads(r, line, next)
        BY <2>1, <2>4, VacateKeepsLeader DEF Inv
    <3> QED BY <2>1, <2>2, <3>1 DEF Inv, NoLostWake, Cancel
  <2> QED BY <2>3, <2>4
<1> QED BY <1>2, <1>3, <1>4 DEF Inv

\* A leaked take keeps the invariant (lib.rs:231).
LEMMA ForgetInv ==
    ASSUME Inv, NEW s \in Seats, Forget(s)
    PROVE  Inv'
BY DEF Inv, TypeOK, PlacesAreOwned, NoLostWake, Forget

\* A released permit keeps the invariant (release, lib.rs:311).
LEMMA ReleaseInv ==
    ASSUME Inv, NEW p \in Permits, Release(p)
    PROVE  Inv'
BY DEF Inv, TypeOK, PlacesAreOwned, NoLostWake, Release, wake_leader

\* The invariant behind the theorems below: types, owned places and no lost wake
\* for every operation of the pool (lib.rs:202-320).
THEOREM Invariance == Spec => []Inv
<1>1. Init => Inv
    BY TicketsAssumption
       DEF Init, Inv, TypeOK, PlacesAreOwned, NoLostWake, Leads, Tickets
<1>2. Inv /\ [Next]_vars => Inv'
  <2> SUFFICES ASSUME Inv, [Next]_vars
               PROVE  Inv'
      OBVIOUS
  <2>1. CASE UNCHANGED vars
      BY <2>1 DEF vars, Inv, TypeOK, PlacesAreOwned, NoLostWake
  <2> QED BY <2>1, PollPendingInv, PollReadyInv, CancelInv, ForgetInv, ReleaseInv
          DEF Next, Poll
<1> QED BY <1>1, <1>2, PTL DEF Spec

\* Type correctness of the pool (lib.rs:101).
THEOREM TypeCorrect == Spec => []TypeOK
BY Invariance, PTL DEF Inv

\* Whoever releases, cancels, is served or replaces a leaked take, a free
\* permit never waits beside a leading take that nobody woke (lib.rs:202, :244).
THEOREM WakeNotLost == Spec => []NoLostWake
BY Invariance, PTL DEF Inv

\* Each live take owns its place and each place its ticket (lib.rs:206, :226).
THEOREM PlacesOwned == Spec => []PlacesAreOwned
BY Invariance, PTL DEF Inv

-----------------------------------------------------------------------------
(* The arrival order.                                                       *)

\* The places in line l are the seats of a, each once, by growing rank.
Lined(a, l, n) ==
    /\ a \in Seq(Seats)
    /\ \A i, j \in 1..Len(a) : a[i] = a[j] => i = j
    /\ \A s \in Seats : l[s] # NoTicket <=> \E i \in 1..Len(a) : a[i] = s
    /\ \A i, j \in 1..Len(a) : i < j => wrapping_sub(l[a[i]], n) < wrapping_sub(l[a[j]], n)

\* q is a without s: the other seats, in the order they had.
IsWithout(q, a, s) ==
    /\ q \in Seq(Seats)
    /\ \E h \in [1..Len(q) -> 1..Len(a)] :
          /\ \A i, j \in 1..Len(q) : i < j => h[i] < h[j]
          /\ \A i \in 1..Len(q) : q[i] = a[h[i]] /\ q[i] # s
          /\ \A j \in 1..Len(a) : a[j] # s => \E i \in 1..Len(q) : h[i] = j

\* Two stretches of the order, one after the other.
LEMMA Joined ==
    ASSUME NEW x \in Seq(Seats), NEW y \in Seq(Seats)
    PROVE  x \o y \in Seq(Seats) /\ Len(x \o y) = Len(x) + Len(y)
OBVIOUS

\* A seat that leaves takes nobody else's place in the order.
LEMMA Leaves ==
    ASSUME NEW a \in Seq(Seats), \A i, j \in 1..Len(a) : a[i] = a[j] => i = j,
           NEW s \in Seats, NEW q, q = RemoveFirst(a, s)
    PROVE  IsWithout(q, a, s)
<1>1. CASE ~\E i \in 1..Len(a) : a[i] = s
    <2> DEFINE h == [i \in 1..Len(a) |-> i]
    <2>1. q = a
        BY <1>1 DEF RemoveFirst
    <2>2. h \in [1..Len(q) -> 1..Len(a)] /\ \A i \in 1..Len(a) : h[i] = i
        BY <2>1
    <2> HIDE DEF h
    <2> QED BY <1>1, <2>1, <2>2 DEF IsWithout
<1>2. ASSUME NEW k \in 1..Len(a), a[k] = s
      PROVE  IsWithout(q, a, s)
    <2> DEFINE I == {i \in 1..Len(a) : a[i] = s}
               h == [i \in 1..Len(q) |-> IF i < k THEN i ELSE i + 1]
    <2>1. I = {k}
        BY <1>2
    <2>2. SelectInSeq(a, LAMBDA v : v = s) = Min(I)
        BY <2>1 DEF SelectInSeq
    <2>3. Min(I) = k
        BY <2>1 DEF Min
    <2>4. q = RemoveAt(a, k)
        BY <1>2, <2>2, <2>3 DEF RemoveFirst
    <2>5. q = SubSeq(a, 1, k - 1) \o SubSeq(a, k + 1, Len(a))
        BY <2>4 DEF RemoveAt
    <2>6. PICK m \in Nat : m = Len(a)
        OBVIOUS
    <2>7. /\ SubSeq(a, 1, k - 1) \in Seq(Seats) /\ Len(SubSeq(a, 1, k - 1)) = k - 1
          /\ \A i \in 1..(k - 1) : SubSeq(a, 1, k - 1)[i] = a[i]
        BY <1>2
    <2>8. /\ SubSeq(a, k + 1, Len(a)) \in Seq(Seats) /\ Len(SubSeq(a, k + 1, Len(a))) = m - k
          /\ \A i \in 1..(m - k) : SubSeq(a, k + 1, Len(a))[i] = a[k + i]
        BY <1>2, <2>6
    <2>a. PICK x \in Seq(Seats), y \in Seq(Seats) :
             /\ q = x \o y /\ Len(x) = k - 1 /\ Len(y) = m - k
             /\ \A i \in 1..(k - 1) : x[i] = a[i]
             /\ \A i \in 1..(m - k) : y[i] = a[k + i]
        BY <2>5, <2>7, <2>8, Zenon
    <2>9. q \in Seq(Seats) /\ Len(q) = m - 1
        <3>1. q \in Seq(Seats) /\ Len(q) = Len(x) + Len(y)
            BY <2>a, Joined, Zenon
        <3> QED BY <1>2, <2>6, <2>a, <3>1
    <2>10. \A i \in 1..(m - 1) : q[i] = IF i < k THEN a[i] ELSE a[i + 1]
        <3>1. SUFFICES ASSUME NEW i \in 1..(m - 1)
                       PROVE  q[i] = IF i < k THEN a[i] ELSE a[i + 1]
            OBVIOUS
        <3>2. CASE i < k
            BY <1>2, <2>6, <2>a, <3>2
        <3>3. CASE ~(i < k)
            <4>1. i - (k - 1) \in 1..(m - k) /\ k + (i - (k - 1)) = i + 1
                BY <1>2, <2>6, <3>3
            <4>2. q[i] = y[i - (k - 1)]
                BY <1>2, <2>6, <2>a, <3>3
            <4> QED BY <2>a, <3>3, <4>1, <4>2
        <3> QED BY <3>2, <3>3
    <2>11. h \in [1..Len(q) -> 1..Len(a)]
           /\ \A i \in 1..Len(q) : h[i] = IF i < k THEN i ELSE i + 1
        BY <1>2, <2>6, <2>9
    <2> HIDE DEF h
    <2>12. \A i \in 1..Len(q) : q[i] = a[h[i]] /\ h[i] # k
        <3>1. SUFFICES ASSUME NEW i \in 1..Len(q) PROVE q[i] = a[h[i]] /\ h[i] # k
            OBVIOUS
        <3>2. /\ i \in 1..(m - 1) /\ i \in Int /\ k \in Int
              /\ h[i] = IF i < k THEN i ELSE i + 1
            BY <1>2, <2>6, <2>9, <2>11, <3>1
        <3>3. q[i] = IF i < k THEN a[i] ELSE a[i + 1]
            BY <2>10, <3>2
        <3> QED BY <3>2, <3>3
    <2>13. \A i \in 1..Len(q) : q[i] # s
        <3>1. SUFFICES ASSUME NEW i \in 1..Len(q), q[i] = s PROVE FALSE
            OBVIOUS
        <3>2. h[i] \in 1..Len(a)
            BY <2>11
        <3>3. a[h[i]] = a[k] /\ h[i] # k
            BY <1>2, <2>12, <3>1
        <3> QED BY <1>2, <3>2, <3>3
    <2>14. \A i, j \in 1..Len(q) : i < j => h[i] < h[j]
        BY <1>2, <2>6, <2>9, <2>11
    <2>15. ASSUME NEW j \in 1..Len(a), a[j] # s PROVE \E i \in 1..Len(q) : h[i] = j
        <3>1. CASE j < k
            BY <1>2, <2>6, <2>9, <2>11, <3>1
        <3>2. CASE j > k
            <4>1. j - 1 \in 1..Len(q) /\ ~(j - 1 < k) /\ (j - 1) + 1 = j
                BY <1>2, <2>6, <2>9, <3>2
            <4> QED BY <2>11, <4>1, Zenon
        <3> QED BY <1>2, <2>15, <3>1, <3>2
    <2>16. /\ \A i \in 1..Len(q) : q[i] = a[h[i]] /\ q[i] # s
           /\ \A j \in 1..Len(a) : a[j] # s => \E i \in 1..Len(q) : h[i] = j
        BY <2>12, <2>13, <2>15, Zenon
    <2>17. h \in [1..Len(q) -> 1..Len(a)]
        BY <2>11
    <2>18. \E g \in [1..Len(q) -> 1..Len(a)] :
              /\ \A i, j \in 1..Len(q) : i < j => g[i] < g[j]
              /\ \A i \in 1..Len(q) : q[i] = a[g[i]] /\ q[i] # s
              /\ \A j \in 1..Len(a) : a[j] # s => \E i \in 1..Len(q) : g[i] = j
        BY <2>14, <2>16, <2>17, Zenon
    <2> QED BY <2>9, <2>18, Zenon DEF IsWithout
<1> QED BY <1>1, <1>2

\* A place given up leaves the others in arrival order (leave, lib.rs:202).
LEMMA VacateLined ==
    ASSUME NEW a, NEW l \in [Seats -> Tickets \union {NoTicket}], NEW n, Lined(a, l, n),
           NEW s \in Seats
    PROVE  Lined(RemoveFirst(a, s), Vacate(l, s), n)
<1>1. /\ a \in Seq(Seats) /\ \A i, j \in 1..Len(a) : a[i] = a[j] => i = j
      /\ \A r \in Seats : l[r] # NoTicket <=> \E i \in 1..Len(a) : a[i] = r
      /\ \A i, j \in 1..Len(a) : i < j => wrapping_sub(l[a[i]], n) < wrapping_sub(l[a[j]], n)
    BY DEF Lined
<1>2. PICK q : q = RemoveFirst(a, s)
    OBVIOUS
<1>a. IsWithout(q, a, s)
    BY <1>1, <1>2, Leaves, Zenon
<1>3. q \in Seq(Seats)
    BY <1>a DEF IsWithout
<1>4. PICK h \in [1..Len(q) -> 1..Len(a)] :
         /\ \A i, j \in 1..Len(q) : i < j => h[i] < h[j]
         /\ \A i \in 1..Len(q) : q[i] = a[h[i]] /\ q[i] # s
         /\ \A j \in 1..Len(a) : a[j] # s => \E i \in 1..Len(q) : h[i] = j
    BY <1>a DEF IsWithout
<1>5. PICK v : v = Vacate(l, s)
    OBVIOUS
<1>6. v[s] = NoTicket /\ \A r \in Seats \ {s} : v[r] = l[r]
    BY <1>5 DEF Vacate
<1>7. \A i \in 1..Len(q) : q[i] \in Seats
    BY <1>3
<1>8. \A i, j \in 1..Len(q) : q[i] = q[j] => i = j
    <2>1. SUFFICES ASSUME NEW i \in 1..Len(q), NEW j \in 1..Len(q), q[i] = q[j], i # j
                   PROVE  FALSE
        OBVIOUS
    <2>2. h[i] = h[j]
        <3>1. /\ h[i] \in 1..Len(a) /\ h[j] \in 1..Len(a)
              /\ q[i] = a[h[i]] /\ q[j] = a[h[j]]
            BY <1>4, Zenon
        <3>2. a[h[i]] = a[h[j]]
            BY <2>1, <3>1, Zenon
        <3> QED BY <1>1, <3>1, <3>2, Zenon
    <2>3. i < j \/ j < i
        BY <2>1
    <2> QED BY <1>4, <2>2, <2>3
<1>9. \A i, j \in 1..Len(q) : i < j => wrapping_sub(v[q[i]], n) < wrapping_sub(v[q[j]], n)
    <2>1. SUFFICES ASSUME NEW i \in 1..Len(q), NEW j \in 1..Len(q), i < j
                   PROVE  wrapping_sub(v[q[i]], n) < wrapping_sub(v[q[j]], n)
        OBVIOUS
    <2>2. v[q[i]] = l[a[h[i]]] /\ v[q[j]] = l[a[h[j]]]
        BY <1>4, <1>6, <1>7
    <2>3. h[i] \in 1..Len(a) /\ h[j] \in 1..Len(a) /\ h[i] < h[j]
        BY <1>4, <2>1
    <2> QED BY <1>1, <2>2, <2>3
<1>10. ASSUME NEW r \in Seats PROVE v[r] # NoTicket <=> \E i \in 1..Len(q) : q[i] = r
    <2>1. CASE r = s
        BY <1>4, <1>6, <2>1
    <2>2. CASE r # s
        <3>1. ASSUME v[r] # NoTicket PROVE \E i \in 1..Len(q) : q[i] = r
            <4>1. PICK j \in 1..Len(a) : a[j] = r
                BY <1>1, <1>6, <2>2, <3>1
            <4> QED BY <1>4, <2>2, <4>1
        <3>2. ASSUME NEW i \in 1..Len(q), q[i] = r PROVE v[r] # NoTicket
            BY <1>1, <1>4, <1>6, <2>2, <3>2
        <3> QED BY <3>1, <3>2
    <2> QED BY <2>1, <2>2
<1>11. Lined(q, v, n)
    BY <1>3, <1>8, <1>9, <1>10 DEF Lined
<1> QED BY <1>2, <1>5, <1>11

\* A seat that is issued the next ticket goes to the end of the order.
LEMMA IssueLined ==
    ASSUME NEW a, NEW l \in [Seats -> Tickets \union {NoTicket}], NEW n \in Tickets,
           Lined(a, l, n), NEW s \in Seats, l[s] = NoTicket, \A r \in Seats : l[r] # n
    PROVE  Lined(Append(a, s), [l EXCEPT ![s] = n], (n + 1) % TICKETS)
<1>1. /\ a \in Seq(Seats) /\ \A i, j \in 1..Len(a) : a[i] = a[j] => i = j
      /\ \A r \in Seats : l[r] # NoTicket <=> \E i \in 1..Len(a) : a[i] = r
      /\ \A i, j \in 1..Len(a) : i < j => wrapping_sub(l[a[i]], n) < wrapping_sub(l[a[j]], n)
    BY DEF Lined
<1>2. PICK q : q = Append(a, s)
    BY Zenon
<1>3. PICK m \in Nat : m = Len(a)
    BY <1>1
<1>4. /\ q \in Seq(Seats) /\ Len(q) = m + 1 /\ q[m + 1] = s
      /\ \A i \in 1..m : q[i] = a[i] /\ a[i] \in Seats
    BY <1>1, <1>2, <1>3
<1>5. PICK v : v = [l EXCEPT ![s] = n]
    BY Zenon
<1>6. v[s] = n /\ \A r \in Seats \ {s} : v[r] = l[r]
    BY <1>5
<1>7. n # NoTicket
    BY TicketsAssumption DEF Tickets, NoTicket
<1>8. \A i \in 1..m : a[i] # s /\ l[a[i]] \in Tickets /\ l[a[i]] # n
    BY <1>1, <1>3, <1>4
<1>9. PICK k : k = (n + 1) % TICKETS
    OBVIOUS
<1>10. \A i \in 1..m : /\ wrapping_sub(v[q[i]], k) = wrapping_sub(l[a[i]], n) - 1
                       /\ wrapping_sub(l[a[i]], n) \in Int
    <2>1. \A i \in 1..m : v[q[i]] = l[a[i]]
        BY <1>4, <1>6, <1>8
    <2> QED BY <1>8, <1>9, <2>1, IssueShifts
<1>11. \A i \in 1..m : wrapping_sub(l[a[i]], n) < TICKETS
    BY <1>8, Wraps, TicketsAssumption DEF Tickets
<1>12. wrapping_sub(v[q[m + 1]], k) = TICKETS - 1
    <2>1. k \in Tickets
        BY <1>9, NextTicket, TicketsAssumption DEF Tickets
    <2>2. wrapping_sub(n, k) = TICKETS - 1
        BY <1>9, <2>1, NextTicket, Wraps, TicketsAssumption DEF Tickets
    <2> QED BY <1>4, <1>6, <2>2
<1>13. \A i, j \in 1..(m + 1) : i < j => wrapping_sub(v[q[i]], k) < wrapping_sub(v[q[j]], k)
    <2>1. SUFFICES ASSUME NEW i \in 1..(m + 1), NEW j \in 1..(m + 1), i < j
                   PROVE  wrapping_sub(v[q[i]], k) < wrapping_sub(v[q[j]], k)
        OBVIOUS
    <2>2. i \in 1..m
        BY <2>1
    <2>3. CASE j = m + 1
        BY <1>10, <1>11, <1>12, <2>2, <2>3, TicketsAssumption
    <2>4. CASE j # m + 1
        <3>1. j \in 1..m
            BY <2>4
        <3>2. wrapping_sub(l[a[i]], n) < wrapping_sub(l[a[j]], n)
            BY <1>1, <1>3, <2>1, <2>2, <3>1
        <3> QED BY <1>10, <2>2, <3>1, <3>2
    <2> QED BY <2>3, <2>4
<1>14. \A i, j \in 1..(m + 1) : q[i] = q[j] => i = j
    <2>1. SUFFICES ASSUME NEW i \in 1..(m + 1), NEW j \in 1..(m + 1), q[i] = q[j]
                   PROVE  i = j
        OBVIOUS
    <2>2. (i = m + 1 \/ i \in 1..m) /\ (j = m + 1 \/ j \in 1..m)
        OBVIOUS
    <2> QED BY <1>1, <1>3, <1>4, <1>8, <2>1, <2>2
<1>15. ASSUME NEW r \in Seats PROVE v[r] # NoTicket <=> \E i \in 1..(m + 1) : q[i] = r
    <2>1. CASE r = s
        <3>1. m + 1 \in 1..(m + 1)
            OBVIOUS
        <3> QED BY <1>4, <1>6, <1>7, <2>1, <3>1
    <2>2. CASE r # s
        <3>1. \A i \in 1..(m + 1) : i \in 1..m \/ i = m + 1
            OBVIOUS
        <3>2. 1..m \subseteq 1..(m + 1)
            OBVIOUS
        <3> QED BY <1>1, <1>3, <1>4, <1>6, <2>2, <3>1, <3>2
    <2> QED BY <2>1, <2>2
<1>16. Lined(q, v, k)
    BY <1>4, <1>13, <1>14, <1>15 DEF Lined
<1> QED BY <1>2, <1>5, <1>9, <1>16

\* The queue of the arrivals is the line, in rank order, whatever a poll, a
\* cancelled take or a leaked one does to it (lib.rs:176-320).
Queued == Lined(arrivals, line, next)

\* The line a poll leaves is in arrival order (lib.rs:223).
LEMMA PollLined ==
    ASSUME Inv, Queued, NEW s \in Seats, WithinHorizon(s)
    PROVE  Lined(ArrivalsAfter(s), LineAfter(s), NextAfter(s))
<1>1. CASE Keeps(s)
    <2>1. LineAfter(s) = line /\ NextAfter(s) = next /\ ArrivalsAfter(s) = arrivals
        BY <1>1 DEF LineAfter, NextAfter, ArrivalsAfter, Issued, Keeps, Inv, TypeOK
    <2> QED BY <2>1 DEF Queued
<1>2. CASE ~Keeps(s)
    <2>1. PICK v : v = Vacate(line, s)
        OBVIOUS
    <2>2. /\ v \in [Seats -> Tickets \union {NoTicket}] /\ v[s] = NoTicket
          /\ \A r \in Seats \ {s} : v[r] = line[r]
          /\ next \in Tickets /\ line \in [Seats -> Tickets \union {NoTicket}]
        BY <2>1 DEF Vacate, Inv, TypeOK
    <2>3. \A r \in Seats : v[r] # next
        BY <1>2, <2>2, TicketsAssumption DEF WithinHorizon, NoTicket, Tickets
    <2>4. PICK q : q = RemoveFirst(arrivals, s)
        OBVIOUS
    <2>5. Lined(q, v, next)
        BY <2>1, <2>2, <2>4, VacateLined, Zenon DEF Queued
    <2>6. Lined(Append(q, s), [v EXCEPT ![s] = next], (next + 1) % TICKETS)
        BY <2>2, <2>3, <2>5, IssueLined, Zenon
    <2>7. LineAfter(s) = [v EXCEPT ![s] = next]
        BY <1>2, <2>1, Zenon DEF LineAfter, Issued, Vacate, Inv, TypeOK
    <2>8. NextAfter(s) = (next + 1) % TICKETS /\ ArrivalsAfter(s) = Append(q, s)
        BY <1>2, <2>4 DEF NextAfter, ArrivalsAfter
    <2> QED BY <2>6, <2>7, <2>8, Zenon
<1> QED BY <1>1, <1>2

\* Every operation of the pool keeps the line in arrival order (lib.rs:202-320).
LEMMA NextQueued ==
    ASSUME Inv, Queued, [Next]_vars
    PROVE  Queued'
<1>1. ASSUME NEW s \in Seats, PollPending(s) PROVE Queued'
    <2>1. Lined(ArrivalsAfter(s), LineAfter(s), NextAfter(s))
        BY <1>1, PollLined DEF PollPending
    <2> QED BY <1>1, <2>1, Zenon DEF PollPending, Queued
<1>2. ASSUME NEW s \in Seats, NEW p \in Permits, PollReady(s, p) PROVE Queued'
    <2>1. Lined(ArrivalsAfter(s), LineAfter(s), NextAfter(s))
        BY <1>2, PollLined DEF PollReady
    <2>2. LineAfter(s) \in [Seats -> Tickets \union {NoTicket}]
        BY PollType DEF Inv
    <2>3. Lined(RemoveFirst(ArrivalsAfter(s), s), Vacate(LineAfter(s), s), NextAfter(s))
        BY <2>1, <2>2, VacateLined, Zenon
    <2> QED BY <1>2, <2>3, Zenon DEF PollReady, Queued
<1>3. ASSUME NEW s \in Seats, Cancel(s) PROVE Queued'
    <2>1. line' = Vacate(line, s) /\ line \in [Seats -> Tickets \union {NoTicket}]
        BY <1>3 DEF Cancel, Inv, PlacesAreOwned, TypeOK
    <2>2. Lined(RemoveFirst(arrivals, s), Vacate(line, s), next)
        BY <2>1, VacateLined, Zenon DEF Queued
    <2> QED BY <1>3, <2>1, <2>2, Zenon DEF Cancel, Queued
<1>4. ASSUME NEW s \in Seats, Forget(s) PROVE Queued'
    BY <1>4, Zenon DEF Forget, Queued
<1>5. ASSUME NEW p \in Permits, Release(p) PROVE Queued'
    BY <1>5, Zenon DEF Release, Queued
<1>6. CASE UNCHANGED vars
    BY <1>6, Zenon DEF vars, Queued
<1> QED BY <1>1, <1>2, <1>3, <1>4, <1>5, <1>6, Zenon DEF Next, Poll

\* The first of the arrivals is the seat with the least rank.
LEMMA QueuedLeader ==
    ASSUME Inv, Queued
    PROVE  LeaderIsOldest
<1>1. /\ arrivals \in Seq(Seats)
      /\ \A r \in Seats : line[r] # NoTicket <=> \E i \in 1..Len(arrivals) : arrivals[i] = r
      /\ \A i, j \in 1..Len(arrivals) : i < j =>
            wrapping_sub(line[arrivals[i]], next) < wrapping_sub(line[arrivals[j]], next)
    BY DEF Queued, Lined
<1>2. \A r \in Seats : line[r] # NoTicket => wrapping_sub(line[r], next) \in Int
    BY RankType DEF Inv, TypeOK
<1>3. ASSUME NEW s \in Seats, Leads(s, line, next) PROVE arrivals # <<>> /\ s = Head(arrivals)
    <2>1. PICK i \in 1..Len(arrivals) : arrivals[i] = s
        BY <1>1, <1>3 DEF Leads
    <2>2. 1 \in 1..Len(arrivals) /\ arrivals # <<>> /\ Head(arrivals) = arrivals[1]
          /\ arrivals[1] \in Seats
        BY <1>1, <2>1
    <2>3. line[arrivals[1]] # NoTicket /\ line[s] # NoTicket
        BY <1>1, <1>3, <2>2 DEF Leads
    <2>4. wrapping_sub(line[s], next) <= wrapping_sub(line[arrivals[1]], next)
        BY <1>3, <2>2, <2>3 DEF Leads
    <2>5. ~(1 < i)
        BY <1>1, <1>2, <2>1, <2>2, <2>3, <2>4
    <2> QED BY <2>1, <2>2, <2>5
<1>4. ASSUME NEW s \in Seats, arrivals # <<>>, s = Head(arrivals) PROVE Leads(s, line, next)
    <2>1. 1 \in 1..Len(arrivals) /\ s = arrivals[1]
        BY <1>1, <1>4
    <2>2. line[s] # NoTicket
        BY <1>1, <2>1
    <2>3. ASSUME NEW r \in Seats, line[r] # NoTicket
          PROVE  wrapping_sub(line[s], next) <= wrapping_sub(line[r], next)
        <3>1. PICK i \in 1..Len(arrivals) : arrivals[i] = r
            BY <1>1, <2>3
        <3>2. CASE i = 1
            BY <1>2, <2>1, <2>2, <3>1, <3>2
        <3>3. CASE 1 < i
            BY <1>1, <1>2, <2>1, <2>2, <2>3, <3>1, <3>3
        <3> QED BY <3>2, <3>3
    <2> QED BY <2>2, <2>3 DEF Leads
<1> QED BY <1>3, <1>4 DEF LeaderIsOldest

\* The pool is first come, first served across the wrap of the ticket counter:
\* the seat that leads is the one whose take arrived first (lib.rs:176).
THEOREM ArrivalOrder == Spec => []LeaderIsOldest
<1>1. Init => Queued
    BY DEF Init, Queued, Lined
<1>2. Inv /\ Queued /\ [Next]_vars => Queued'
    BY NextQueued
<1>3. Inv /\ Queued => LeaderIsOldest
    BY QueuedLeader
<1> QED BY <1>1, <1>2, <1>3, Invariance, PTL DEF Spec
=============================================================================
