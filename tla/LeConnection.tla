---------------------------- MODULE LeConnection ----------------------------
(***************************************************************************)
(* The peripheral side of one LE connection: the chain of affine values    *)
(* LePeripheralConnection -> Prepared -> InFlight -> Completed -> ... with *)
(* its event counter, hopping state, pending instants and maintenance      *)
(* pauses.  It runs against a reference Central that holds every           *)
(* connection event, hops one event at a time, starts Channel Map and      *)
(* Connection Updates and resends their indication until the Peripheral's  *)
(* answer reaches it.  The Peripheral sleeps over some of those events.    *)
(***************************************************************************)
EXTENDS Integers, FiniteSets

CONSTANTS
    Modulus,       \* values of the event counter: 2^16 in the code
    Channels,      \* data channels: 37
    Hop,           \* the request's hop increment
    Maps,          \* channel maps a Central uses, each of two channels or more
    Timings,       \* connection timings a Central uses
    Prn,           \* event counter to pseudo-random number (Algorithm Two)
    MaxDelta,      \* largest distance between two serviced events
    MaxInstant,    \* farthest instant the Central names
    MaxLate,       \* events an indication may come after its instant
    LastInitial    \* event by which the connection must be established: 5

Counters == 0..(Modulus - 1)

ASSUME ConnectionAssumption ==
    /\ Modulus \in Nat /\ Modulus % 2 = 0 /\ Channels \in Nat \ {0}
    /\ Hop \in 1..(Channels - 1)
    /\ \A m \in Maps : m \subseteq 0..(Channels - 1) /\ Cardinality(m) >= 2
    /\ Prn \in [Counters -> Counters]
    /\ MaxDelta \in 1..(Modulus - 1)
    /\ MaxInstant \in Nat /\ MaxLate \in Nat /\ MaxInstant + MaxLate < Modulus \div 2
    /\ LastInitial \in Nat

VARIABLES
    algorithm,  \* the negotiated channel selection algorithm
    connection, \* the LePeripheralConnection every phase carries
    phase,      \* which of the affine values carries it; "Lost" when it ended
    prepared,   \* the event's channel and what preparing it applied
    dispatched, \* the completed event's PDU went to the Link Layer
    step,       \* the latest step between two serviced events
    central,    \* the reference Central
    behind,     \* events the Central holds before the Peripheral's next one
    fresh       \* updates applied since the last completed event

vars == <<algorithm, connection, phase, prepared, dispatched, step, central,
          behind, fresh>>

Wrap(n) == n % Modulus

\* 0x7fff, which is also i16::MAX.
Horizon == Modulus \div 2 - 1

-----------------------------------------------------------------------------
\* Channel selection.

Remap(map, index) ==
    CHOOSE c \in map : Cardinality({d \in map : d < c}) = index

Select(map, candidate, index) ==
    IF candidate \in map THEN candidate ELSE Remap(map, index)

\* ConnectionChannelSelector::preview: the channel and the unmapped channel.
Preview(map, last_unmapped, counter) ==
    LET unmapped == (last_unmapped + Hop) % Channels
        size == Cardinality(map)
    IN  IF algorithm = "One"
        THEN [channel |-> Select(map, unmapped, unmapped % size),
              unmapped |-> unmapped]
        ELSE [channel |-> Select(map, Prn[counter] % Channels,
                                 (size * Prn[counter]) \div Modulus),
              unmapped |-> 0]

\* Mutant of Skip: the event serviced after the pause is skipped as well.
SkipOneMore(last_unmapped, skipped) ==
    IF algorithm = "One"
    THEN (last_unmapped + ((Hop * ((skipped + 1) % Channels)) % Channels)) % Channels
    ELSE last_unmapped

Skip(last_unmapped, skipped) ==
    IF algorithm = "One"
    THEN (last_unmapped + ((Hop * (skipped % Channels)) % Channels)) % Channels
    ELSE last_unmapped

-----------------------------------------------------------------------------
\* Instants.

\* The pending updates whose instant lies among the skipped events before
\* target or at it.
UpdateForTarget(pending, target, skipped) ==
    {u \in pending : Wrap(u.instant - Wrap(target - skipped)) <= skipped}

ApplyForTarget(c, target, skipped) ==
    LET map == UpdateForTarget(c.pending_channel_map, target, skipped)
        update == UpdateForTarget(c.pending_connection_update, target, skipped)
    IN  [c EXCEPT
            !.channel_map = IF map = {} THEN @ ELSE (CHOOSE u \in map : TRUE).value,
            !.timing = IF update = {} THEN @ ELSE (CHOOSE u \in update : TRUE).value,
            !.pending_channel_map = @ \ map,
            !.pending_connection_update = @ \ update]

\* Mutant of Intervals: the step to the instant counts as a new interval.
IntervalsFromInstant(c, target, skipped) ==
    LET update == UpdateForTarget(c.pending_connection_update, target, skipped)
        offset == Wrap((CHOOSE u \in update : TRUE).instant - Wrap(target - skipped))
    IN  IF update = {} THEN [before |-> skipped + 1, after |-> 0]
        ELSE [before |-> offset, after |-> skipped + 1 - offset]

\* LeConnectionTimingIntervals of a step: old and new intervals it is made of.
Intervals(c, target, skipped) ==
    LET update == UpdateForTarget(c.pending_connection_update, target, skipped)
        offset == Wrap((CHOOSE u \in update : TRUE).instant - Wrap(target - skipped))
    IN  IF update = {} THEN [before |-> skipped + 1, after |-> 0]
        ELSE [before |-> offset + 1, after |-> skipped - offset]

Pending(c) == c.pending_channel_map \union c.pending_connection_update

-----------------------------------------------------------------------------
\* The Central, a reference: Core Vol 6, Part B, seen by the Peripheral.

NewCentral(map, timing) ==
    [counter |-> Modulus - 1, last_unmapped |-> 0, channel_map |-> map,
     timing |-> timing, procedure |-> {},
     sn |-> 0, accepted |-> FALSE, carries |-> "data", heard |-> FALSE]

CentralChannel ==
    Preview(central.channel_map,
            (central.last_unmapped + (Channels - Hop)) % Channels,
            central.counter).channel

\* The Central's procedure has passed its instant and the Peripheral has not
\* received the indication: they no longer share a channel map or a timing.
Diverged ==
    \E p \in central.procedure :
        p.left <= 0 /\ p.status \in {"waiting", "sent"}

Meets ==
    /\ prepared.channel = CentralChannel
    /\ connection.timing = central.timing

-----------------------------------------------------------------------------
NewMaintenance ==
    [initial_acknowledged |-> FALSE, recovery_required |-> FALSE,
     instant_acknowledgement |-> "HeaderRequired", indication_sn |-> 0]

\* from_request: the connection of an accepted CONNECT_IND.
NewConnection(map, timing) ==
    [event_counter |-> 0, initial_transmit_window_pending |-> TRUE,
     channel_map |-> map, last_unmapped |-> 0, timing |-> timing,
     state |-> "Created", pending_channel_map |-> {},
     pending_connection_update |-> {}, maintenance |-> NewMaintenance]

NoEvent ==
    [channel |-> 0, unmapped |-> 0, channel_map_updated |-> FALSE,
     connection_timing_transition |-> FALSE, peer_activity |-> "Missed"]

FirstStep ==
    [delta |-> 1, before |-> 1, after |-> 0, paused |-> FALSE, earned |-> TRUE,
     walked |-> [before |-> 0, after |-> 0], switched |-> FALSE, serviced |-> TRUE]

NoneFresh == [map |-> FALSE, timing |-> FALSE]

Init ==
    /\ algorithm \in {"One", "Two"}
    /\ \E map \in Maps, timing \in Timings :
          /\ connection = NewConnection(map, timing)
          /\ central = NewCentral(map, timing)
    /\ phase = "Connection"
    /\ prepared = NoEvent
    /\ dispatched = FALSE
    /\ step = FirstStep
    /\ behind = 1
    /\ fresh = NoneFresh

\* prepare_event: the event of the current counter, updates included.
PrepareEvent ==
    LET counter == connection.event_counter
        c == ApplyForTarget(connection, counter, 0)
        preview == Preview(c.channel_map, c.last_unmapped, counter)
        map == UpdateForTarget(connection.pending_channel_map, counter, 0) # {}
        update == UpdateForTarget(connection.pending_connection_update, counter, 0) # {}
    IN  /\ phase = "Connection"
        /\ connection' = c
        /\ phase' = "Prepared"
        /\ prepared' = [prepared EXCEPT
              !.channel = preview.channel, !.unmapped = preview.unmapped,
              !.channel_map_updated = map,
              !.connection_timing_transition = update]
        /\ fresh' = [map |-> fresh.map \/ map, timing |-> fresh.timing \/ update]
        /\ UNCHANGED <<algorithm, dispatched, step, central, behind>>

Cancel ==
    /\ phase = "Prepared"
    /\ phase' = "Connection"
    /\ UNCHANGED <<algorithm, connection, prepared, dispatched, step, central,
                   behind, fresh>>

IntoSubmitted ==
    /\ phase = "Prepared"
    /\ phase' = "InFlight"
    /\ UNCHANGED <<algorithm, connection, prepared, dispatched, step, central,
                   behind, fresh>>

\* complete: both outcomes advance the counter and the hop once; six initial
\* events without the peer end the connection.
Complete(activity) ==
    LET established == connection.state = "Established" \/ activity = "Observed"
    IN  /\ phase = "InFlight"
        /\ behind = 0
        /\ activity = "Observed" => Meets
        /\ connection' = [connection EXCEPT
              !.event_counter = Wrap(@ + 1),
              !.last_unmapped = IF algorithm = "One" THEN prepared.unmapped ELSE @,
              !.initial_transmit_window_pending = FALSE,
              !.state = IF established THEN "Established" ELSE @]
        /\ prepared' = [prepared EXCEPT !.peer_activity = activity,
                                        !.channel = 0, !.unmapped = 0]
        /\ phase' = IF ~established /\ connection.event_counter >= LastInitial
                    THEN "Lost" ELSE "Completed"
        /\ step' = [FirstStep EXCEPT !.serviced = step.serviced]
        /\ UNCHANGED <<algorithm, dispatched, central, behind, fresh>>

-----------------------------------------------------------------------------
\* What the completed event received.

\* State::observe_header with the SN and NESN of a valid packet.
ObserveHeader(m, sn, nesn, pending) ==
    [m EXCEPT
        !.initial_acknowledged = @ \/ nesn = 1,
        !.recovery_required = FALSE,
        !.indication_sn =
            IF pending /\ m.instant_acknowledgement = "HeaderRequired" THEN sn
            ELSE IF pending /\ @ # sn THEN 0 ELSE @,
        !.instant_acknowledgement =
            IF ~pending THEN @
            ELSE IF @ = "HeaderRequired" THEN "AwaitingPeerSequenceAdvance"
            ELSE IF m.indication_sn # sn THEN "Confirmed" ELSE @]

\* schedule_channel_map_update and schedule_connection_update refuse an
\* update while another is pending or was applied by this event, and one
\* whose instant has passed.
Refused(c, instant) ==
    \/ Pending(c) # {}
    \/ prepared.channel_map_updated
    \/ prepared.connection_timing_transition
    \/ Wrap(instant - Wrap(c.event_counter - 1)) >= Horizon

Scheduled(c, kind, value, instant) ==
    LET now == Wrap(instant - Wrap(c.event_counter - 1)) = 0
        update == {[value |-> value, instant |-> instant]}
        received == [c.maintenance EXCEPT !.instant_acknowledgement = "HeaderRequired"]
    IN  IF now /\ kind = "map" THEN [c EXCEPT !.channel_map = value]
        ELSE IF now THEN [c EXCEPT !.timing = value]
        ELSE IF kind = "map"
        THEN [c EXCEPT !.pending_channel_map = update, !.maintenance = received]
        ELSE [c EXCEPT !.pending_connection_update = update, !.maintenance = received]

\* The Central sends its next PDU once it heard the answer to this one: the
\* indication of a procedure that waits, or data.
CentralHears(c) ==
    LET waiting == \E p \in c.procedure : p.status = "waiting"
        next(p) == CASE p.status = "waiting" -> "sent"
                     [] p.status = "accepted" /\ c.carries = "indication" -> "acked"
                     [] OTHER -> p.status
    IN  [c EXCEPT
            !.heard = TRUE, !.sn = 1 - @, !.accepted = FALSE,
            !.carries = IF waiting THEN "indication" ELSE "data",
            !.procedure = {[p EXCEPT !.status = next(p)] : p \in @}]

Answered(c, reply) == IF reply THEN CentralHears(c) ELSE c

\* A PDU that is not an indication: its header is observed.
ReceiveData(nesn, reply) ==
    /\ ~central.accepted
    /\ central.carries = "data"
    /\ connection' = [connection EXCEPT !.maintenance =
          ObserveHeader(@, central.sn, nesn, Pending(connection) # {})]
    /\ central' = Answered([central EXCEPT !.accepted = TRUE], reply)
    /\ UNCHANGED <<prepared, phase, fresh>>

\* An indication is scheduled, then its header is observed; the caller ends a
\* connection whose update was refused.
ReceiveIndication(nesn, reply) ==
    \E p \in central.procedure :
        LET instant == Wrap(central.counter + p.left)
            c == Scheduled(connection, p.kind, p.value, instant)
            now == p.left = 0
        IN  /\ ~central.accepted
            /\ central.carries = "indication"
            /\ IF Refused(connection, instant)
               THEN phase' = "Lost" /\ UNCHANGED <<connection, prepared, fresh>>
               ELSE /\ connection' = [c EXCEPT !.maintenance =
                          ObserveHeader(@, central.sn, nesn, Pending(c) # {})]
                    /\ prepared' = [prepared EXCEPT
                          !.channel_map_updated = @ \/ (now /\ p.kind = "map"),
                          !.connection_timing_transition =
                              @ \/ (now /\ p.kind = "timing")]
                    /\ fresh' = [map |-> fresh.map \/ (now /\ p.kind = "map"),
                                 timing |-> fresh.timing \/ (now /\ p.kind = "timing")]
                    /\ UNCHANGED phase
            /\ central' = Answered([central EXCEPT
                  !.accepted = TRUE,
                  !.procedure = {[p EXCEPT !.status = "accepted"]}], reply)

\* A resent PDU is not delivered; the backend reports the plaintext reception.
ReceiveDuplicate(reply) ==
    /\ central.accepted
    /\ connection' = [connection EXCEPT !.maintenance.recovery_required = FALSE]
    /\ central' = Answered(central, reply)
    /\ UNCHANGED <<prepared, phase, fresh>>

\* The Central's NESN is one only after it heard the Peripheral.
Receive(nesn, reply) ==
    /\ phase = "Completed"
    /\ prepared.peer_activity = "Observed"
    /\ ~dispatched
    /\ nesn = 1 => central.heard
    /\ \/ ReceiveData(nesn, reply)
       \/ ReceiveIndication(nesn, reply)
       \/ ReceiveDuplicate(reply)
    /\ dispatched' = TRUE
    /\ step' = [step EXCEPT !.serviced = TRUE]
    /\ UNCHANGED <<algorithm, behind>>

-----------------------------------------------------------------------------
\* The next event.

\* Mutant of Protected: the event before the instant may be omitted.
ProtectedInstantOnly(instant, next, skipped) == Wrap(instant - next) < skipped

Protected(instant, next, skipped) ==
    Wrap(instant - next) < skipped \/ Wrap(Wrap(instant - 1) - next) < skipped

\* maintenance_skip_eligible.
SkipEligible(c, delta) ==
    /\ delta > 1
    /\ delta <= Horizon
    /\ c.state = "Established"
    /\ c.maintenance.initial_acknowledged
    /\ ~c.maintenance.recovery_required
    /\ \A u \in Pending(c) : ~Protected(u.instant, c.event_counter, delta - 1)
    /\ Pending(c) # {} => c.maintenance.instant_acknowledgement = "Confirmed"

CommitSkip(m, pause) ==
    IF pause THEN [m EXCEPT !.recovery_required = TRUE] ELSE m

\* prepare_recurring_event or prepare_maintenance_event, then commit.  The
\* preview between them changes nothing, and its cancel returns it unchanged.
Commit(delta, pause) ==
    LET skipped == delta - 1
        target == Wrap(connection.event_counter + skipped)
        last == Skip(connection.last_unmapped, skipped)
        c == ApplyForTarget(connection, target, skipped)
        preview == Preview(c.channel_map, last, target)
        map == UpdateForTarget(connection.pending_channel_map, target, skipped) # {}
        update ==
            UpdateForTarget(connection.pending_connection_update, target, skipped) # {}
        split == Intervals(connection, target, skipped)
    IN  /\ phase = "Completed"
        /\ pause => SkipEligible(connection, delta)
        /\ connection' = [c EXCEPT
              !.event_counter = target, !.last_unmapped = last,
              !.maintenance = CommitSkip(@, pause)]
        /\ phase' = "Prepared"
        /\ prepared' = [channel |-> preview.channel, unmapped |-> preview.unmapped,
                        channel_map_updated |-> map,
                        connection_timing_transition |-> update,
                        peer_activity |-> "Missed"]
        /\ step' = [delta |-> delta, before |-> split.before, after |-> split.after,
                    paused |-> pause,
                    earned |-> step.serviced /\ central.heard,
                    walked |-> [before |-> 0, after |-> 0], switched |-> FALSE,
                    serviced |-> IF pause THEN FALSE ELSE step.serviced]
        /\ dispatched' = FALSE
        /\ behind' = delta
        /\ fresh' = [map |-> map, timing |-> update]
        /\ UNCHANGED <<algorithm, central>>

\* into_connection: the following event, without a preview.
IntoConnection ==
    /\ phase = "Completed"
    /\ phase' = "Connection"
    /\ dispatched' = FALSE
    /\ behind' = 1
    /\ fresh' = NoneFresh
    /\ prepared' = NoEvent
    /\ UNCHANGED <<algorithm, connection, step, central>>

-----------------------------------------------------------------------------
\* The Central holds its next event, switching at the instant.
CentralEvent ==
    LET at(kind) == {p \in central.procedure : p.left = 1 /\ p.kind = kind}
        value(kind) == (CHOOSE p \in at(kind) : TRUE).value
    IN  /\ phase = "InFlight"
        /\ behind > 0
        /\ \A p \in central.procedure : p.left > -MaxLate
        /\ central' = [central EXCEPT
              !.counter = Wrap(@ + 1),
              !.last_unmapped = (@ + Hop) % Channels,
              !.channel_map = IF at("map") = {} THEN @ ELSE value("map"),
              !.timing = IF at("timing") = {} THEN @ ELSE value("timing"),
              !.procedure = {[p EXCEPT !.left = @ - 1] : p \in
                  {q \in @ : q.left > 0 \/ q.status \in {"waiting", "sent"}}}]
        /\ step' = [step EXCEPT
              !.walked = IF step.switched THEN [step.walked EXCEPT !.after = @ + 1]
                         ELSE [step.walked EXCEPT !.before = @ + 1],
              !.switched = @ \/ at("timing") # {}]
        /\ behind' = behind - 1
        /\ UNCHANGED <<algorithm, connection, phase, prepared, dispatched, fresh>>

\* The Central begins an update left events ahead.
CentralStart(kind, value, left) ==
    /\ phase = "InFlight"
    /\ behind = 0
    /\ central.procedure = {}
    /\ central' = [central EXCEPT !.procedure =
          {[kind |-> kind, value |-> value, left |-> left, status |-> "waiting"]}]
    /\ UNCHANGED <<algorithm, connection, phase, prepared, dispatched, step,
                   behind, fresh>>

\* A Central whose indication is not acknowledged for too long gives up.
CentralLeaves ==
    /\ phase = "InFlight"
    /\ \E p \in central.procedure :
          p.left <= -MaxLate /\ p.status \in {"waiting", "sent"}
    /\ phase' = "Lost"
    /\ UNCHANGED <<algorithm, connection, prepared, dispatched, step, central,
                   behind, fresh>>

\* A new CONNECT_IND.
Reconnect ==
    /\ phase = "Lost"
    /\ \E map \in Maps, timing \in Timings :
          /\ connection' = NewConnection(map, timing)
          /\ central' = NewCentral(map, timing)
    /\ phase' = "Connection"
    /\ prepared' = NoEvent
    /\ dispatched' = FALSE
    /\ step' = FirstStep
    /\ behind' = 1
    /\ fresh' = NoneFresh
    /\ UNCHANGED algorithm

Next ==
    \/ PrepareEvent \/ Cancel \/ IntoSubmitted \/ IntoConnection
    \/ \E activity \in {"Observed", "Missed"} : Complete(activity)
    \/ \E nesn \in {0, 1}, reply \in BOOLEAN : Receive(nesn, reply)
    \/ \E delta \in 1..MaxDelta, pause \in BOOLEAN : Commit(delta, pause)
    \/ CentralEvent
    \/ \E left \in 1..MaxInstant :
          \/ \E map \in Maps : CentralStart("map", map, left)
          \/ \E timing \in Timings : CentralStart("timing", timing, left)
    \/ CentralLeaves
    \/ Reconnect

Spec == Init /\ [][Next]_vars

-----------------------------------------------------------------------------
AtEvent == phase = "InFlight" /\ behind = 0 /\ ~Diverged

\* Whenever the Peripheral listens it listens where and as the Central sends:
\* same event, channel and timing, whatever events it skipped, cancelled and
\* prepared again, and wherever in the skipped range an instant lay, across
\* the wrap of the counter.
ListensWithCentral ==
    AtEvent => Meets /\ connection.event_counter = central.counter

\* The step's old and new intervals, from which the scheduler computes when
\* to listen, are the intervals the Central really let pass.
IntervalsAreExact ==
    AtEvent => step.walked = [before |-> step.before, after |-> step.after]

\* A deliberate pause begins only after the Central heard this Peripheral and
\* after a packet was received since the previous deliberate pause; it never
\* covers the instant of an accepted update nor the event before it, and the
\* Central knows the update was accepted (maintenance_skip_eligible).
PauseIsSafe ==
    /\ step.paused => step.earned
    /\ (phase = "InFlight" /\ step.paused /\ 0 < behind /\ behind < step.delta)
          => \A p \in central.procedure :
                p.status \in {"waiting", "sent"}
                   \/ (p.status = "acked" /\ p.left \notin {0, 1})

\* A completed event reports the channel map and the timing that were put in
\* force for it (connection_timing_transition, channel_map_updated).
AppliedIsReported ==
    phase = "Completed" =>
       /\ fresh.map => prepared.channel_map_updated
       /\ fresh.timing => prepared.connection_timing_transition
=============================================================================
