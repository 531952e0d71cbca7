------------------------------ MODULE PermitPool -----------------------------
(***************************************************************************)
(* FifoPermitPool (crates/runtime/radio/permit-pool/src/lib.rs): the       *)
(* permits of one installed port and the line of takers waiting for them.  *)
(*                                                                         *)
(* The pool is not Sync, so each poll, drop and release is one step.  A    *)
(* take may be polled without being woken, cancelled by dropping its       *)
(* future, or leaked without its drop.  Tickets wrap at TICKETS (2^32 in   *)
(* the code).                                                              *)
(***************************************************************************)
EXTENDS Integers, SequencesExt

CONSTANTS Permits, Seats, TICKETS

ASSUME CapacityAssumption == Permits # {} \/ Seats = {}
ASSUME TicketsAssumption == TICKETS \in Nat \ {0}

VARIABLES
    free,       \* the permits not held
    line,       \* each seat's place: the ticket waiting on it
    next,       \* the next ticket
    ticket,     \* each seat's current take: the ticket its future holds
    scheduled,  \* seats whose take was woken and not polled since
    arrivals    \* history: the seats in line, in the order they arrived

vars == <<free, line, next, ticket, scheduled, arrivals>>

NoTicket == -1
Tickets == 0..(TICKETS - 1)

TypeOK ==
    /\ free \subseteq Permits
    /\ line \in [Seats -> Tickets \union {NoTicket}]
    /\ next \in Tickets
    /\ ticket \in [Seats -> Tickets \union {NoTicket}]
    /\ scheduled \subseteq Seats

Init ==
    /\ free = Permits
    /\ line = [s \in Seats |-> NoTicket]
    /\ next = 0
    /\ ticket = [s \in Seats |-> NoTicket]
    /\ scheduled = {}
    /\ arrivals = <<>>

-----------------------------------------------------------------------------
\* Mutant of wrapping_sub: tickets are compared as they are.
plain_ticket(t, n) == t

wrapping_sub(t, n) == (t - n) % TICKETS

\* leader: the seat in line whose ticket is the least after `n`, wrapping.
Leads(s, l, n) ==
    /\ l[s] # NoTicket
    /\ \A r \in Seats : l[r] # NoTicket => wrapping_sub(l[s], n) <= wrapping_sub(l[r], n)

\* wake_leader: the seats it wakes.
wake_leader(l, n) == {s \in Seats : Leads(s, l, n)}

Vacate(l, s) == [l EXCEPT ![s] = NoTicket]

\* Mutant of left_wakes: whoever leaves wakes no one.
leaves_silently(l, n, s, available) == {}

\* leave: the seats woken when `s` gives up its place with `available` free.
left_wakes(l, n, s, available) ==
    IF Leads(s, l, n) /\ available # {} THEN wake_leader(Vacate(l, s), n) ELSE {}

\* What the first half of poll_take makes of the line, the next ticket and the
\* wakes: a take polled again keeps its place, any other is issued a ticket
\* and replaces a leaked take of its seat.
Keeps(s) == ticket[s] # NoTicket /\ line[s] = ticket[s]

Issued(s) == IF Keeps(s) THEN ticket[s] ELSE next

NextAfter(s) == IF Keeps(s) THEN next ELSE (next + 1) % TICKETS

LineAfter(s) == [line EXCEPT ![s] = Issued(s)]

ReplacedWakes(s) ==
    IF ~Keeps(s) /\ Leads(s, line, next) /\ free # {}
    THEN wake_leader(LineAfter(s), NextAfter(s))
    ELSE {}

ArrivalsAfter(s) ==
    IF Keeps(s) THEN arrivals ELSE Append(RemoveFirst(arrivals, s), s)

\* The horizon of the tickets: no place outlives TICKETS issued tickets.
WithinHorizon(s) == Keeps(s) \/ \A r \in Seats \ {s} : line[r] # next

\* poll_take, not the leader or no permit free.
PollPending(s) ==
    /\ WithinHorizon(s)
    /\ ~Leads(s, LineAfter(s), NextAfter(s)) \/ free = {}
    /\ line' = LineAfter(s)
    /\ next' = NextAfter(s)
    /\ ticket' = [ticket EXCEPT ![s] = Issued(s)]
    /\ scheduled' = (scheduled \ {s}) \union ReplacedWakes(s)
    /\ arrivals' = ArrivalsAfter(s)
    /\ UNCHANGED free

\* poll_take serves the leader and leaves the line.
PollReady(s, p) ==
    /\ WithinHorizon(s)
    /\ Leads(s, LineAfter(s), NextAfter(s))
    /\ p \in free
    /\ free' = free \ {p}
    /\ line' = Vacate(LineAfter(s), s)
    /\ next' = NextAfter(s)
    /\ ticket' = [ticket EXCEPT ![s] = NoTicket]
    /\ scheduled' = (scheduled \ {s}) \union ReplacedWakes(s)
                      \union left_wakes(LineAfter(s), NextAfter(s), s, free')
    /\ arrivals' = RemoveFirst(ArrivalsAfter(s), s)

\* The take's future drops before it is served: Place::drop leaves the line.
Cancel(s) ==
    /\ ticket[s] # NoTicket
    /\ line' = IF line[s] = ticket[s] THEN Vacate(line, s) ELSE line
    /\ ticket' = [ticket EXCEPT ![s] = NoTicket]
    /\ scheduled' = scheduled \union left_wakes(line, next, s, free)
    /\ arrivals' = RemoveFirst(arrivals, s)
    /\ UNCHANGED <<free, next>>

\* The take's future leaks: its place stays and no one polls it again.
Forget(s) ==
    /\ ticket[s] # NoTicket
    /\ ticket' = [ticket EXCEPT ![s] = NoTicket]
    /\ UNCHANGED <<free, line, next, scheduled, arrivals>>

\* Mutant of Release: the leader is not woken.
ReleaseSilently(p) ==
    /\ p \in Permits \ free
    /\ free' = free \union {p}
    /\ UNCHANGED <<line, next, ticket, scheduled, arrivals>>

\* A held permit comes back.
Release(p) ==
    /\ p \in Permits \ free
    /\ free' = free \union {p}
    /\ scheduled' = scheduled \union wake_leader(line, next)
    /\ UNCHANGED <<line, next, ticket, arrivals>>

Poll(s) == PollPending(s) \/ \E p \in Permits : PollReady(s, p)

Next ==
    \/ \E s \in Seats : Poll(s) \/ Cancel(s) \/ Forget(s)
    \/ \E p \in Permits : Release(p)

Spec == Init /\ [][Next]_vars

\* The executor polls a woken take, and the operation a permit admits ends.
Fairness ==
    /\ \A s \in Seats : WF_vars(s \in scheduled /\ ticket[s] # NoTicket /\ Poll(s))
    /\ \A p \in Permits : WF_vars(Release(p))

FairSpec == Spec /\ Fairness

-----------------------------------------------------------------------------
(* Properties.                                                              *)

\* The ticket that leads under wrapping subtraction is the one that arrived
\* first: arrival order survives the wrap of the ticket counter, cancelled
\* takes and replaced leaked ones (lib.rs:176).
LeaderIsOldest ==
    \A s \in Seats :
        Leads(s, line, next) <=> arrivals # <<>> /\ s = Head(arrivals)

\* No wake-up is lost: while a permit is free, the take that leads the line
\* has been woken, whoever released, cancelled or was served before it.  Only
\* a leaked leader, which no one polls, is exempt (lib.rs:202, :244).
NoLostWake ==
    free # {} =>
        \A s \in Seats : Leads(s, line, next) /\ ticket[s] # NoTicket => s \in scheduled

\* A live take owns the place of its seat and no two places share a ticket,
\* so leave never gives up another take's place (lib.rs:206).
PlacesAreOwned ==
    /\ \A s \in Seats : ticket[s] # NoTicket => line[s] = ticket[s]
    /\ \A s, r \in Seats : line[s] # NoTicket /\ line[s] = line[r] => s = r

\* Every waiting take is served unless it gives up or a leaked take is ahead
\* of it in the line (lib.rs:231).
LeakedAhead(s) ==
    \E r \in Seats :
        /\ line[r] # NoTicket /\ ticket[r] = NoTicket
        /\ wrapping_sub(line[r], next) < wrapping_sub(line[s], next)

TakersAreServed ==
    \A s \in Seats :
        ticket[s] # NoTicket ~> (ticket[s] = NoTicket \/ LeakedAhead(s))
=============================================================================
