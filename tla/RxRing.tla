------------------------------- MODULE RxRing --------------------------------
(***************************************************************************)
(* The ESP32-S31 receive descriptor ring, shared by the MAC's DMA walker   *)
(* and the one task that owns the ring.                                    *)
(*                                                                         *)
(*   ring      crates/hardware/esp32s31/driver/ieee80211/dma/src/          *)
(*             rx_ring.rs (RxRingLive, RxRingStopped, RxRingHalted)        *)
(*   buffers   dma/src/rx_storage.rs (RxDmaStorage)                        *)
(*   service   src/rx/transaction/service.rs, the staged roles' pass       *)
(*   scan      src/rx/frontier/lifecycle.rs, service_completed_frontier    *)
(*                                                                         *)
(* The walker runs while the task reads its registers, so each register    *)
(* read of the task is a step of its own.  The walker is external: it is   *)
(* what the ring's comments say of it.  It fills the descriptor NEXT names *)
(* and makes RX_DONE, LAST and NEXT visible in steps.  Two walkers are     *)
(* modelled, which differ in when a descriptor's link is read:             *)
(*   "early"  with the descriptor; the reload doorbell reads a null link   *)
(*            again; LAST and NEXT advance together;                       *)
(*   "late"   after LAST has advanced, when even NEXT may already show the *)
(*            successor.                                                   *)
(* A frame's RX-success edge is raised when NEXT has its value for good.   *)
(* A BASE store has reached the walker when the fence after it returns.    *)
(* A unit longer than the list is never begun, and none of two descriptors *)
(* arrives in a scanning role.  With LinkFetched, the walker has also read *)
(* the link of the descriptor LAST names before a frozen cursor rearms it; *)
(* the ring's comments say that it need not have.                          *)
(***************************************************************************)
EXTENDS Integers, Sequences, FiniteSets

CONSTANTS
    COUNT,          \* descriptors of the ring
    BUDGET_UNITS,   \* units and descriptors of one pass
    Walkers,        \* the walkers considered
    LinkFetched     \* assumed: a frozen LAST's link is read before its rearm

ASSUME RingAssumption ==
    /\ COUNT \in Nat /\ COUNT >= 2 /\ COUNT % 2 = 0  \* validate_live_ring_geometry
    /\ BUDGET_UNITS \in Nat \ {0}
    /\ Walkers \subseteq {"early", "late"} /\ LinkFetched \in BOOLEAN

Ring == 0..(COUNT - 1)
Nil == COUNT

VARIABLES
    \* memory both sides see
    word,       \* each descriptor: "armed", "filled" (its guard) or "done"
    link,       \* each descriptor's next word
    owner,      \* each buffer: "RING", "DETACHED" or "RELEASED"
    \* the walker and its registers
    mode, NEXT, LAST, reload,
    walk,       \* the descriptor it holds, and how far it is with it
    irq,        \* an RX-success edge not yet taken
    \* RxRingLive
    phase, role, observed, recycle_start, accepted_tail, pending_tail,
    republished,    \* exhausted_republication_head_low, as a set of <= 1
    \* the pass
    pc, seen, cursor, group, tries, resume, units, limit, spent,
    again,      \* the pass has found a reason to be called again
    progress,   \* what the last pass returned: "Drained", "Again" or "Busy"
    \* history
    backlog     \* the completed units not yet taken, oldest first

memory == <<word, link, owner>>
hardware == <<mode, NEXT, LAST, reload, walk, irq>>
ring == <<phase, role, observed, recycle_start, accepted_tail, pending_tail, republished>>
pass == <<pc, seen, cursor, group, tries, resume, units, limit, spent, again, progress>>
vars == <<memory, hardware, ring, pass, backlog>>

-----------------------------------------------------------------------------
(* RingIndex.                                                               *)

Advance(d, n) == (d + n) % COUNT
Distance(a, b) == ((b - a) + COUNT) % COUNT
Group(d, n) == {Advance(d, k) : k \in 0..(n - 1)}

rx_done(d) == word[d] = "done"

Least(a, b) == IF a < b THEN a ELSE b

\* The longest run 0..n-1, n <= most, on which P holds.
PrefixLength(P, most) ==
    CHOOSE n \in 0..most :
        /\ \A k \in 0..(n - 1) : P[k]
        /\ n < most => ~P[n]

observed_prefix_len ==
    PrefixLength([k \in 0..(COUNT - 1) |-> Advance(recycle_start, k) \in observed], COUNT)

-----------------------------------------------------------------------------
(* The cold list: every descriptor armed, linked from `start` in physical   *)
(* order, the last link null.                                               *)

ColdLink(start) ==
    [d \in Ring |-> IF d = Advance(start, COUNT - 1) THEN Nil ELSE Advance(d, 1)]

Rest == [at |-> Nil, latched |-> Nil, unread |-> FALSE, stage |-> "idle", last |-> TRUE]

NoCursor == [last |-> Nil, next |-> Nil]

Idle ==
    /\ pc = "idle" /\ seen = Nil /\ cursor = NoCursor
    /\ group = 0 /\ tries = 0 /\ resume = "deferred" /\ units = 0 /\ limit = 0 /\ spent = 0
    /\ again = FALSE /\ progress = "Drained"

Init ==
    /\ word = [d \in Ring |-> "armed"]
    /\ link = ColdLink(0)
    /\ owner = [d \in Ring |-> "RING"]
    /\ mode \in Walkers /\ NEXT = 0 /\ LAST = Nil /\ reload = FALSE /\ walk = Rest
    /\ irq = FALSE
    /\ phase = "live" /\ role \in {"staged", "scan"} /\ observed = {} /\ recycle_start = 0
    /\ accepted_tail = COUNT - 1 /\ pending_tail = Nil /\ republished = {}
    /\ Idle
    /\ backlog = <<>>

-----------------------------------------------------------------------------
(* The walker.                                                              *)

\* The descriptor is read; an early walker reads its link with it.
Fetch ==
    /\ phase = "live" /\ walk.stage = "idle" /\ NEXT # Nil
    /\ walk' = [at |-> NEXT, latched |-> IF mode = "early" THEN link[NEXT] ELSE Nil,
                unread |-> mode = "late", stage |-> "fetched", last |-> walk.last]
    /\ UNCHANGED <<memory, mode, NEXT, LAST, reload, irq, ring, pass, backlog>>

\* A frame, or the rest of one, is stored in the buffer: it ends there, or
\* goes on in the next descriptor of the list.
Fill(ends) ==
    /\ walk.stage = "fetched"
    /\ ~ends => /\ role = "staged" /\ walk.last
                /\ (IF mode = "early" THEN walk.latched ELSE link[walk.at]) # Nil
    /\ word' = [word EXCEPT ![walk.at] = "filled"]
    /\ walk' = [walk EXCEPT !.stage = IF ends THEN "stored" ELSE "written", !.last = ends]
    /\ backlog' = IF walk.last THEN Append(backlog, <<walk.at, IF ends THEN 1 ELSE 2>>)
                  ELSE backlog
    /\ UNCHANGED <<link, owner, mode, NEXT, LAST, reload, irq, ring, pass>>

\* The terminal descriptor's RX_DONE becomes visible, before or after LAST.
WriteBack ==
    /\ walk.stage \in {"stored", "passed"}
    /\ word' = [word EXCEPT ![walk.at] = "done"]
    /\ walk' = [walk EXCEPT !.stage = IF walk.stage = "stored" THEN "written" ELSE "advanced"]
    /\ UNCHANGED <<link, owner, mode, NEXT, LAST, reload, irq, ring, pass, backlog>>

\* LAST names the descriptor.  An early walker's NEXT follows at once; a late
\* walker's may show the successor it has yet to read.
AdvanceLast ==
    /\ walk.stage \in {"stored", "written"}
    /\ LAST' = walk.at
    /\ NEXT' \in IF mode = "early" THEN {walk.latched}
                 ELSE {NEXT, link[walk.at]} \ {Nil}
    /\ walk' = [walk EXCEPT !.stage = IF walk.stage = "stored" THEN "passed" ELSE "advanced"]
    /\ irq' = (irq \/ (walk.last /\ ~walk.unread))
    /\ UNCHANGED <<memory, mode, reload, ring, pass, backlog>>

\* The walker leaves the descriptor for its successor.
Leave ==
    /\ walk.stage = "advanced"
    /\ NEXT' = IF walk.unread THEN link[walk.at] ELSE NEXT
    /\ walk' = [Rest EXCEPT !.last = walk.last]
    /\ irq' = (irq \/ (walk.last /\ walk.unread))
    /\ UNCHANGED <<memory, mode, LAST, reload, ring, pass, backlog>>

\* The reload doorbell self-clears: a null link already read is read again,
\* unless the list was exhausted first.
Reload ==
    /\ reload /\ reload' = FALSE
    /\ walk' = IF walk.stage \in {"fetched", "stored", "written"} /\ ~walk.unread
                  /\ walk.latched = Nil
               THEN [walk EXCEPT !.latched = link[walk.at]] ELSE walk
    /\ UNCHANGED <<memory, mode, NEXT, LAST, irq, ring, pass, backlog>>

\* An upper owner drops the buffer it was given.
ReleaseBuffer(d) ==
    /\ owner[d] = "DETACHED"
    /\ owner' = [owner EXCEPT ![d] = "RELEASED"]
    /\ UNCHANGED <<word, link, hardware, ring, pass, backlog>>

-----------------------------------------------------------------------------
(* What the task reads in the descriptors.                                  *)

\* validate_descriptor_image: the link is the one the task left there.
Valid(d) ==
    link[d] = IF d = (IF pending_tail # Nil THEN pending_tail ELSE accepted_tail) THEN Nil
              ELSE Advance(d, 1)

NoFrontier == [units |-> 0, descriptors |-> 0]

\* A segment is taken for consumed by its overwritten guard; in an exhausted
\* list every descriptor is.
Consumed(d, exhausted) == exhausted \/ word[d] = "filled"

\* The size of the unit that begins with the descriptor `first`, within
\* `most` descriptors; 0 when it is not complete.
UnitSize(first, most, exhausted) ==
    LET ends == {n \in 1..most :
                    /\ rx_done(Advance(first, n - 1))
                    /\ \A k \in 0..(n - 2) :
                           /\ ~rx_done(Advance(first, k))
                           /\ Advance(first, k) \notin observed
                           /\ Consumed(Advance(first, k), exhausted)
                    /\ Advance(first, n - 1) \notin observed}
    IN  IF ends = {} THEN 0 ELSE CHOOSE n \in ends : TRUE

\* Mutant of LimitThrough: RX_DONE alone is taken for a completed frontier.
LimitThroughAny(c) == COUNT - observed_prefix_len

\* completed_unit_frontier_through: the descriptors up to LAST.
LimitThrough(c) ==
    LET done == observed_prefix_len IN
    IF \/ c.last = Nil \/ done = COUNT
       \/ Distance(recycle_start, c.last) < done
       \/ Distance(recycle_start, c.last) > Distance(recycle_start, accepted_tail)
    THEN 0 ELSE (Distance(recycle_start, c.last) + 1) - done

Exhausted(c) == c.next = Nil /\ c.last = accepted_tail

\* completed_unit_frontier_through_cursor: a run of one-descriptor units, or
\* one longer unit.
CompletedFrontier(c) ==
    LET most == LimitThrough(c)
        first == Advance(recycle_start, observed_prefix_len)
        run == PrefixLength([k \in 0..(COUNT - 1) |->
                   rx_done(Advance(first, k)) /\ Advance(first, k) \notin observed], most)
        size == UnitSize(first, most, Exhausted(c))
    IN  IF run > 0 THEN [units |-> run, descriptors |-> run]
        ELSE IF size > 0 THEN [units |-> 1, descriptors |-> size]
        ELSE NoFrontier

\* recycle_released_prefix: the oldest buffers whose owners have let go.
ReleasedPrefix ==
    PrefixLength([k \in 0..(COUNT - 1) |->
                     LET d == Advance(recycle_start, k) IN
                     d \in observed /\ rx_done(d) /\ owner[d] = "RELEASED"],
                 Least(BUDGET_UNITS, COUNT))

\* recycle_completed_prefix, of the roles that copy frames out of the ring.
ObservedPrefix ==
    PrefixLength([k \in 0..(COUNT - 1) |->
                     LET d == Advance(recycle_start, k) IN d \in observed /\ rx_done(d)], COUNT)

\* first_observed_ring_unit_descriptor_count: a discarded unit at the front.
DiscardedUnit ==
    LET ends == {n \in 1..COUNT :
                    /\ \A d \in Group(recycle_start, n) : d \in observed /\ owner[d] = "RING"
                    /\ rx_done(Advance(recycle_start, n - 1))
                    /\ \A k \in 0..(n - 2) : ~rx_done(Advance(recycle_start, k))}
    IN  IF ends = {} THEN 0 ELSE CHOOSE n \in ends : TRUE

\* Mutant of LinkReleased: a LAST further on is enough.
LinkReleasedByLast(last, next, n) ==
    LET tail == Advance(recycle_start, n - 1) IN
    /\ last # Nil
    /\ \/ link[tail] = Nil /\ next = Nil
       \/ next = Nil /\ last = accepted_tail
       \/ Distance(recycle_start, last) > n - 1

\* completed_unit_link_released_from_ordered_snapshot: the list is exhausted,
\* or LAST has advanced through a later completed descriptor.
LinkReleased(last, next, n) ==
    LET tail == Advance(recycle_start, n - 1) IN
    /\ last # Nil
    /\ \/ link[tail] = Nil /\ next = Nil
       \/ next = Nil /\ last = accepted_tail /\ n - 1 <= Distance(recycle_start, last)
       \/ /\ Distance(recycle_start, last) > n - 1
          /\ Distance(recycle_start, last) <= Distance(recycle_start, accepted_tail)
          /\ \A k \in n..Distance(recycle_start, last) : rx_done(Advance(recycle_start, k))

\* frozen_cursor_releases_unit; every append is followed by a new cursor.
FrozenReleases(c, n) ==
    /\ c.last # Nil
    /\ n - 1 <= Distance(recycle_start, c.last)
    /\ Distance(recycle_start, c.last) <= Distance(recycle_start, accepted_tail)

\* With LinkFetched a rearm that FrozenReleases admits finds its link read.
LinkFetchedBy(n) == LinkFetched => ~(walk.unread /\ walk.at \in Group(recycle_start, n))

-----------------------------------------------------------------------------
(* recycle_completed_group.                                                 *)

\* What it refuses as corrupt before it changes anything.
Recyclable(n, whole) ==
    /\ \A d \in Group(recycle_start, n) : d \in observed /\ Valid(d) /\ owner[d] # "DETACHED"
    /\ \A k \in 0..(n - 1) : rx_done(Advance(recycle_start, k)) = (whole \/ k = n - 1)
    /\ n - 1 <= Distance(recycle_start, accepted_tail)
    /\ Advance(recycle_start, n - 1) # accepted_tail => link[accepted_tail] = Nil

Fault ==
    /\ pc' = "failed"
    /\ UNCHANGED <<memory, hardware, ring, seen, cursor, group, tries, resume, units, limit,
                   spent, again, progress, backlog>>

\* publish_exhausted_descriptor_base.
PublishBase(head) == NEXT' = IF NEXT = Nil THEN head ELSE NEXT

\* The rearmed group is a list of its own; its last link is null.
Rearmed(n) ==
    [d \in Ring |-> IF d \notin Group(recycle_start, n) THEN link[d]
                    ELSE IF d = Advance(recycle_start, n - 1) THEN Nil ELSE Advance(d, 1)]

\* What follows an append: a pass that has not begun to take units probes the
\* head it published before it freezes the cursor.
AfterAppend(after) == IF after = "deferred" THEN "probe" ELSE "freeze"

\* The group is rearmed and linked behind the accepted tail, and the doorbell
\* is rung; a list that became empty is published through BASE instead.  A
\* scanning pass ends with the reload pending.
AppendGroup(n, after) ==
    LET head == recycle_start
        tail == Advance(head, n - 1)
    IN
    /\ word' = [d \in Ring |-> IF d \in Group(head, n) THEN "armed" ELSE word[d]]
    /\ owner' = [d \in Ring |-> IF d \in Group(head, n) THEN "RING" ELSE owner[d]]
    /\ observed' = observed \ Group(head, n)
    /\ IF tail = accepted_tail
       THEN /\ link' = Rearmed(n)
            /\ PublishBase(head) /\ republished' = {<<head, FALSE>>}
            /\ recycle_start' = head
            /\ pc' = IF after = "scan" THEN "tail" ELSE AfterAppend(after)
            /\ UNCHANGED <<reload, pending_tail>>
       ELSE /\ link' = [Rearmed(n) EXCEPT ![accepted_tail] = head]
            /\ reload' = TRUE
            /\ pending_tail' = tail
            /\ recycle_start' = Advance(head, n)
            /\ pc' = IF after = "scan" THEN "tail" ELSE "reload"
            /\ UNCHANGED <<NEXT, republished>>
    /\ resume' = after
    /\ again' = TRUE /\ seen' = Nil /\ cursor' = NoCursor /\ group' = 0 /\ tries' = 0
    /\ UNCHANGED <<mode, LAST, walk, irq, phase, role, accepted_tail, units, limit, backlog>>

-----------------------------------------------------------------------------
(* One pass of a staged role.                                               *)

\* observe_exhausted_republication, the probe of two turns.
Probed(next) == {<<p[1], TRUE>> : p \in {q \in republished : ~q[2] /\ q[1] = next}}
                \cup {q \in republished : ~q[2] /\ q[1] # next}

Goto(step) ==
    /\ pc' = step
    /\ UNCHANGED <<memory, hardware, phase, role, observed, recycle_start, accepted_tail,
                   pending_tail, backlog>>

\* The executor calls: an RX-success edge, a follow-up the last pass asked
\* for, or a buffer that came back.
Called == irq \/ progress = "Again" \/ \E d \in Ring : owner[d] = "RELEASED"

BeginService ==
    /\ pc = "idle" /\ phase = "live" /\ role = "staged" /\ Called /\ progress # "Busy"
    /\ pc' = "release" /\ irq' = FALSE
    /\ republished' = Probed(NEXT)
    /\ tries' = 0 /\ again' = FALSE /\ spent' = 0 /\ resume' = "deferred"
    /\ progress' = "Drained"
    /\ UNCHANGED <<memory, mode, NEXT, LAST, reload, walk, phase, role, observed, recycle_start,
                   accepted_tail, pending_tail, seen, cursor, group, units, limit, backlog>>

\* recycle_released_prefix, as far as the read of LAST.
ReleaseLast ==
    /\ pc = "release"
    /\ LET n == ReleasedPrefix IN
       IF n > 0 /\ ~Recyclable(n, TRUE) THEN Fault
       ELSE /\ Goto(IF n = 0 THEN "freeze" ELSE "releaseNext")
            /\ group' = n /\ seen' = IF n = 0 THEN Nil ELSE LAST
            /\ UNCHANGED <<republished, cursor, tries, resume, units, limit, spent, again,
                           progress>>

\* The read of NEXT and what follows from it.  A staged role looks twice.
ReleaseNext ==
    /\ pc = "releaseNext"
    /\ IF LinkReleased(seen, NEXT, group)
       THEN AppendGroup(group, resume) /\ UNCHANGED <<spent, progress>>
       ELSE /\ Goto(IF role = "scan" THEN "tail"
                    ELSE IF seen = Nil \/ tries = 1 THEN "freeze" ELSE "release")
            /\ tries' = 1 - tries /\ seen' = Nil /\ group' = 0
            /\ again' = (again \/ (role = "scan" /\ seen # Nil))
            /\ UNCHANGED <<republished, cursor, resume, units, limit, spent,
                           progress>>

AfterReload == IF resume = "scan" THEN "scan" ELSE AfterAppend(resume)

\* complete_pending_reload waits for the doorbell and reads NEXT: the walker
\* has the appended list, or was exhausted before it saw it.
ReloadSettled ==
    /\ pc = "reload" /\ ~reload
    /\ IF NEXT = Nil
       THEN pc' = "settle" /\ UNCHANGED <<accepted_tail, pending_tail>>
       ELSE /\ pc' = AfterReload
            /\ accepted_tail' = pending_tail /\ pending_tail' = Nil
    /\ UNCHANGED <<memory, hardware, phase, role, observed, recycle_start, republished, seen,
                   cursor, group, tries, resume, units, limit, spent, again, progress, backlog>>

\* The wait is bounded: the pass ends in an error with the reload pending.  A
\* scanning role polls again; the owner of a staged one stops the ring.
ReloadBusy ==
    /\ pc = "reload" /\ reload
    /\ Goto("idle")
    /\ progress' = IF role = "scan" THEN "Again" ELSE "Busy"
    /\ seen' = Nil /\ cursor' = NoCursor /\ group' = 0 /\ tries' = 0
    /\ resume' = "deferred" /\ units' = 0 /\ limit' = 0 /\ spent' = 0 /\ again' = FALSE
    /\ UNCHANGED republished

\* BASE is published again unless the appended list itself was used up.
Repairs(last) == last # pending_tail

\* Mutant of RepairHead: the list is published from the software's head.
RepairHeadOfRing(last) == recycle_start

\* The walker goes on behind the last descriptor it used.
RepairHead(last) == link[last]

Settle ==
    /\ pc = "settle"
    /\ IF LAST = Nil \/ (Repairs(LAST) /\ RepairHead(LAST) = Nil) THEN Fault
       ELSE /\ pc' = AfterReload
            /\ IF Repairs(LAST)
               THEN PublishBase(RepairHead(LAST)) /\ republished' = {<<RepairHead(LAST), FALSE>>}
               ELSE UNCHANGED <<NEXT, republished>>
            /\ accepted_tail' = pending_tail /\ pending_tail' = Nil
            /\ UNCHANGED <<memory, mode, LAST, reload, walk, irq, phase, role, observed,
                           recycle_start, seen, cursor, group, tries, resume, units, limit,
                           spent, again, progress, backlog>>

\* The append of a pass that has not begun to take units is probed at once.
Probe ==
    /\ pc = "probe"
    /\ Goto("freeze") /\ republished' = Probed(NEXT)
    /\ UNCHANGED <<seen, cursor, group, tries, resume, units, limit, spent, again, progress>>

\* freeze_cursor: LAST, then NEXT.
FreezeLast ==
    /\ pc = "freeze"
    /\ Goto("freezeNext") /\ seen' = LAST
    /\ UNCHANGED <<republished, cursor, group, tries, resume, units, limit, spent, again,
                   progress>>

FreezeNext ==
    /\ pc = "freezeNext"
    /\ Goto(resume) /\ cursor' = [last |-> seen, next |-> NEXT] /\ seen' = Nil
    /\ UNCHANGED <<republished, group, tries, resume, units, limit, spent, again,
                   progress>>

\* Discards of earlier passes that have come to the front of the ring.
Deferred ==
    /\ pc = "deferred"
    /\ LET n == DiscardedUnit
           done == n = 0 \/ spent >= BUDGET_UNITS
           refused == spent + n > BUDGET_UNITS \/ ~FrozenReleases(cursor, n)
       IN  IF done \/ refused
           THEN /\ Goto("frontier")
                /\ again' = (again \/ ~done)
                /\ UNCHANGED <<republished, seen, cursor, group, tries, resume, units, limit,
                               spent, progress>>
           ELSE IF ~Recyclable(n, FALSE) THEN Fault
           ELSE /\ LinkFetchedBy(n)
                /\ AppendGroup(n, "deferred") /\ spent' = spent + n /\ UNCHANGED progress

\* The completion frontier of this pass.
Frontier ==
    /\ pc = "frontier"
    /\ LET f == CompletedFrontier(cursor) IN
       /\ units' = Least(f.units, BUDGET_UNITS) /\ limit' = f.descriptors
       /\ again' = (again \/ f.units > BUDGET_UNITS)
    /\ Goto("take") /\ resume' = "take" /\ spent' = 0
    /\ UNCHANGED <<republished, seen, cursor, group, tries, progress>>

\* take_completed_unit, given the descriptors it may look at.
Unit(most) ==
    LET first == Advance(recycle_start, observed_prefix_len)
        ends == {n \in 1..most : /\ rx_done(Advance(first, n - 1))
                                 /\ \A k \in 0..(n - 2) : ~rx_done(Advance(first, k))}
    IN  IF \/ most > COUNT - observed_prefix_len \/ ends = {}
           \/ Group(first, CHOOSE n \in ends : TRUE) \cap observed # {}
        THEN <<first, 0>> ELSE <<first, CHOOSE n \in ends : TRUE>>

Took(u) ==
    /\ observed' = observed \cup Group(u[1], u[2])
    /\ units' = units - 1 /\ limit' = limit - u[2]
    /\ backlog' = Tail(backlog)

\* A unit that cannot be taken is the pass's error.
TakeFails ==
    /\ pc = "take" /\ units > 0
    /\ LET u == Unit(limit) IN
       \/ u[2] = 0 \/ \E d \in Group(u[1], u[2]) : ~Valid(d) \/ owner[d] # "RING"

\* A frame of one descriptor leaves the ring with its buffer.
Stage ==
    /\ pc = "take" /\ units > 0
    /\ LET u == Unit(limit) IN
       IF TakeFails THEN Fault
       ELSE /\ u[2] = 1
            /\ owner' = [owner EXCEPT ![u[1]] = "DETACHED"]
            /\ Took(u)
            /\ UNCHANGED <<word, link, hardware, phase, role, recycle_start, accepted_tail,
                           pending_tail, republished, pc, seen, cursor, group, tries, resume,
                           spent, again, progress>>

\* A unit is discarded: chained, empty, too long, or dropped under overload.
\* It is returned to the walker at once when nothing older is out.
Discard ==
    /\ pc = "take" /\ units > 0 /\ ~TakeFails
    /\ LET u == Unit(limit) IN
       /\ Took(u)
       /\ pc' = IF u[1] # recycle_start THEN "take"
                ELSE IF FrozenReleases(cursor, u[2]) THEN "replenish" ELSE "failed"
       /\ group' = u[2]
       /\ again' = TRUE
    /\ UNCHANGED <<memory, hardware, phase, role, recycle_start, accepted_tail, pending_tail,
                   republished, seen, cursor, tries, resume, spent, progress>>

Replenish ==
    /\ pc = "replenish"
    /\ LinkFetchedBy(group)
    /\ IF Recyclable(group, FALSE) THEN AppendGroup(group, "take") /\ UNCHANGED <<spent, progress>>
       ELSE Fault

\* The unit stays in the ring for want of a credit.
Block ==
    /\ pc = "take" /\ units > 0
    /\ \E d \in Ring : owner[d] = "DETACHED"
    /\ Goto("tail") /\ again' = TRUE /\ units' = 0 /\ limit' = 0
    /\ UNCHANGED <<republished, seen, cursor, group, tries, resume, spent, progress>>

FrontierDone ==
    /\ pc = "take" /\ units = 0
    /\ Goto("tail")
    /\ UNCHANGED <<republished, seen, cursor, group, tries, resume, units, limit, spent, again,
                   progress>>

-----------------------------------------------------------------------------
(* A scanning role copies every completed frame out of the ring.            *)

\* completed_descriptor_frontier.
DoneFrontier ==
    LET first == Advance(recycle_start, observed_prefix_len) IN
    PrefixLength([k \in 0..(COUNT - 1) |->
                     rx_done(Advance(first, k)) /\ Advance(first, k) \notin observed],
                 COUNT - observed_prefix_len)

\* The append of an earlier pass is settled first.
BeginScan ==
    /\ pc = "idle" /\ phase = "live" /\ role = "scan" /\ Called
    /\ Goto(IF pending_tail = Nil THEN "scan" ELSE "reload")
    /\ tries' = 0 /\ again' = FALSE /\ resume' = "scan"
    /\ progress' = "Drained"
    /\ UNCHANGED <<republished, seen, cursor, group, units, limit, spent>>

ScanTake ==
    /\ pc = "scan"
    /\ LET first == Advance(recycle_start, observed_prefix_len) IN
       IF \E d \in Group(first, DoneFrontier) : ~Valid(d) THEN Fault
       ELSE /\ observed' = observed \cup Group(first, DoneFrontier)
            /\ backlog' = SubSeq(backlog, DoneFrontier + 1, Len(backlog))
            /\ republished' = Probed(NEXT)
            /\ irq' = FALSE
            /\ pc' = "scanLast"
            /\ UNCHANGED <<memory, mode, NEXT, LAST, reload, walk, phase, role, recycle_start,
                           accepted_tail, pending_tail, seen, cursor, group, tries, resume,
                           units, limit, spent, again, progress>>

\* recycle_completed_prefix, as far as the read of LAST.
ScanLast ==
    /\ pc = "scanLast"
    /\ LET n == ObservedPrefix IN
       IF n > 0 /\ ~Recyclable(n, TRUE) THEN Fault
       ELSE /\ Goto(IF n = 0 THEN "tail" ELSE "releaseNext")
            /\ group' = n /\ seen' = IF n = 0 THEN Nil ELSE LAST
            /\ UNCHANGED <<republished, cursor, tries, resume, units, limit, spent, again,
                           progress>>

-----------------------------------------------------------------------------
(* The end of a pass: is a further one needed before the next edge?         *)

TailLast ==
    /\ pc = "tail"
    /\ Goto("tailNext") /\ seen' = LAST /\ cursor' = NoCursor
    /\ again' = (again \/ CompletedFrontier(cursor).units # 0 \/ (role = "scan" /\ DoneFrontier # 0))
    /\ UNCHANGED <<republished, group, tries, resume, units, limit, spent, progress>>

\* Mutant of WritebackPending: an exhausted list is left to the next edge.
WritebackPendingNever(last, next) == FALSE

\* exhausted_terminal_writeback_pending.
WritebackPending(last, next) ==
    accepted_tail \notin observed /\ next = Nil /\ last = accepted_tail

TailNext ==
    /\ pc = "tailNext"
    /\ progress' = IF again \/ WritebackPending(seen, NEXT) \/ republished # {}
                   THEN "Again" ELSE "Drained"
    /\ Goto("idle")
    /\ seen' = Nil /\ cursor' = NoCursor /\ group' = 0 /\ tries' = 0
    /\ resume' = "deferred" /\ units' = 0 /\ limit' = 0 /\ spent' = 0 /\ again' = FALSE
    /\ UNCHANGED republished

-----------------------------------------------------------------------------
(* The ring's owner.                                                        *)

\* A live ring passes between a scanning and a staged role.  The scanning
\* role settles its last append before it hands the ring over.
Handoff ==
    /\ pc = "idle" /\ phase = "live" /\ progress # "Busy"
    /\ role' = IF role = "scan" THEN "staged" ELSE "scan"
    /\ IF role = "scan" THEN pending_tail = Nil
       ELSE /\ \A d \in Ring : owner[d] # "DETACHED"
            /\ \A d \in observed : rx_done(d)
            /\ walk.last
    /\ progress' = "Again"
    /\ UNCHANGED <<memory, hardware, phase, observed, recycle_start, accepted_tail, pending_tail,
                   republished, pc, seen, cursor, group, tries, resume, units, limit, spent,
                   again, backlog>>

\* try_stop: the walker is disabled where it is; NEXT and LAST are retained.
Stop ==
    /\ pc = "idle" /\ phase = "live"
    /\ phase' = "halted"
    /\ walk' = Rest /\ reload' = FALSE /\ irq' = FALSE /\ progress' = "Drained"
    /\ backlog' = <<>>
    /\ UNCHANGED <<memory, mode, NEXT, LAST, role, observed, recycle_start, accepted_tail,
                   pending_tail, republished, pc, seen, cursor, group, tries, resume, units,
                   limit, spent, again>>

\* Mutant of InitialStart: the list is always rebuilt from slot zero.
InitialStartZero(next) == 0

\* The walker resumes a NEXT it retained, whatever BASE says.
InitialStart(next) == IF next = Nil THEN 0 ELSE next

\* prepare and try_start; refused as long as a buffer is out.
Restart ==
    /\ phase = "halted"
    /\ \A d \in Ring : owner[d] # "DETACHED"
    /\ word' = [d \in Ring |-> "armed"] /\ link' = ColdLink(InitialStart(NEXT))
    /\ owner' = [d \in Ring |-> "RING"]
    /\ PublishBase(InitialStart(NEXT))
    /\ phase' = "live" /\ role' \in {"staged", "scan"}
    /\ observed' = {} /\ recycle_start' = InitialStart(NEXT)
    /\ accepted_tail' = Advance(InitialStart(NEXT), COUNT - 1)
    /\ pending_tail' = Nil /\ republished' = {}
    /\ UNCHANGED <<mode, LAST, reload, walk, irq, pass, backlog>>

-----------------------------------------------------------------------------
Walker == Fetch \/ Fill(TRUE) \/ Fill(FALSE) \/ WriteBack \/ AdvanceLast \/ Leave \/ Reload

Task ==
    \/ BeginService \/ ReleaseLast \/ ReleaseNext \/ ReloadSettled \/ ReloadBusy \/ Settle \/ Probe
    \/ FreezeLast \/ FreezeNext \/ Deferred \/ Frontier \/ Stage \/ Discard \/ Replenish
    \/ Block \/ FrontierDone \/ BeginScan \/ ScanTake \/ ScanLast \/ TailLast \/ TailNext

Next ==
    \/ Walker
    \/ \E d \in Ring : ReleaseBuffer(d)
    \/ Task \/ Handoff \/ Stop \/ Restart

Spec == Init /\ [][Next]_vars

-----------------------------------------------------------------------------
(* Properties.                                                              *)

TypeOK ==
    /\ word \in [Ring -> {"armed", "filled", "done"}]
    /\ link \in [Ring -> Ring \cup {Nil}]
    /\ owner \in [Ring -> {"RING", "DETACHED", "RELEASED"}]
    /\ NEXT \in Ring \cup {Nil} /\ LAST \in Ring \cup {Nil} /\ walk.at \in Ring \cup {Nil}
    /\ observed \subseteq Ring /\ recycle_start \in Ring /\ accepted_tail \in Ring
    /\ pending_tail \in Ring \cup {Nil}

\* The walker stores only into an armed descriptor whose buffer is in the
\* ring and which the task has not observed: no link rewrite, BASE repair or
\* restart ever leads it to a buffer an upper owner still reads.
NeverOverwrites ==
    LET target == IF walk.stage = "fetched" THEN walk.at
                  ELSE IF walk.stage = "idle" THEN NEXT ELSE Nil
    IN  phase = "live" /\ target # Nil =>
            word[target] = "armed" /\ owner[target] = "RING" /\ target \notin observed

\* A rearm overwrites a link the walker has yet to read: RX_DONE, LAST and
\* NEXT may all show before it does.
RearmsUnread ==
    \E d \in Ring :
        /\ phase = "live" /\ word[d] # "armed" /\ word'[d] = "armed"
        /\ walk.at = d /\ walk.unread

\* A descriptor rearmed on a sample of LAST and NEXT, by recycle_released_prefix
\* or recycle_completed_prefix, is one whose link the walker no longer needs.
SampledReleaseIsSafe == [][pc = "releaseNext" => ~RearmsUnread]_vars

\* No descriptor is rearmed while the walker still needs its link: "A
\* nonterminal link is released only when LAST advances through a later
\* terminal-complete descriptor" (rx_ring.rs:2010).
LinkIsLatched == [][~RearmsUnread]_vars

\* Units leave the ring once, whole, and in the order they arrived: what a
\* pass marks as observed is exactly the oldest units not yet taken.
TakenInOrder ==
    [][observed' \ observed # {} =>
           \E n \in 1..Len(backlog) :
               observed' \ observed = UNION {Group(backlog[k][1], backlog[k][2]) : k \in 1..n}]_vars

\* None of the ring's corruption checks ever fires, nor does a discard meet a
\* cursor that refuses it: the ring never has to be reset.
NeverFails == pc # "failed"

\* When a pass ends with no follow-up and no edge pending, an exhausted
\* walker waits for nothing but buffers that are out: no completed frame and
\* no returned descriptor is left behind for an interrupt that cannot come.
DrainedIsDrained ==
    (/\ pc = "idle" /\ phase = "live" /\ progress # "Busy" /\ ~Called
     /\ NEXT = Nil /\ walk.stage = "idle") =>
        observed = Ring /\ \E d \in Ring : owner[d] = "DETACHED"

=============================================================================
