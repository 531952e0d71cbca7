------------------------------ MODULE ExternalRx -----------------------------
(***************************************************************************)
(* The zero-copy receive path.  A completed DMA buffer is detached from    *)
(* its descriptor and bound to a slot of the handoff pool by the receive   *)
(* service; the protocol owner of the staged frame releases the slot or,   *)
(* under a credit, hands it to the network stack, which returns it when it *)
(* drops the packet.                                                       *)
(*                                                                         *)
(*   service   crates/hardware/esp32s31/driver/ieee80211/src/rx/           *)
(*             transaction/service.rs, mac/src/rx/pool.rs                  *)
(*   slots     crates/memory/src/rx_external_handoff.rs                    *)
(*   credits   crates/adapters/embassy-net/owned/src/owned/external_rx.rs  *)
(*   buffers   crates/hardware/esp32s31/driver/ieee80211/dma/src/          *)
(*             rx_storage.rs                                               *)
(*                                                                         *)
(* The service, the protocol owner and the stack run on two cores, so each *)
(* atomic operation of each is a step of its own.  The descriptor ring is  *)
(* abstracted to the state of its buffers.  The endpoint's RX queue and    *)
(* link only accept or refuse a packet here; OwnedEndpoint models them.    *)
(***************************************************************************)
EXTENDS Integers, Sequences, FiniteSets

CONSTANTS
    Buffers,    \* the DMA buffers of the ring
    SLOTS,      \* slots of the handoff pool
    DEPTH,      \* depth of the queue of staged frames
    RESERVED,   \* critical_reserved_credits of the admission policy
    RESERVE,    \* slots the network leaves to the driver
    None

ASSUME CreditsAssumption ==
    /\ SLOTS \in Nat /\ DEPTH \in Nat /\ RESERVED \in Nat /\ RESERVE \in Nat
    /\ RESERVED < SLOTS /\ RESERVED < DEPTH     \* CreditPolicy::validate
    /\ RESERVE < SLOTS                          \* ExternalRxOrigin::new
    /\ None \notin Buffers

VARIABLES
    buffer,         \* each buffer: "RING", "DETACHED" or "RELEASED"
    state,          \* each slot's state
    binding,        \* the buffer each slot is bound to
    next_claim,     \* where the service starts to look for a free slot
    spc,            \* the service's place in its transaction
    hand,           \* the buffer it detached, its class and the slot it claimed
    distance,       \* how far it has looked for a free slot
    poolCredits,    \* its last view of the free slots and of the free capacity
    queueCredits,
    staged,         \* the queue of staged frames, as slots
    ppc,            \* the protocol owner: what it does with `frame`
    frame,
    adopted,        \* slots retained by packets of the stack
    dropping,       \* slots whose packet the stack is dropping
    owed,           \* credits of dropped packets not yet returned
    held            \* credits the network holds

service == <<next_claim, spc, hand, distance, poolCredits, queueCredits>>
network == <<adopted, dropping, owed>>
vars == <<buffer, state, binding, service, staged, ppc, frame, network, held>>

Slots == 0..(SLOTS - 1)
Classes == {"bulk", "critical"}
\* Mutant of cap: nothing is left to the driver.
capWithoutReserve == SLOTS

cap == SLOTS - RESERVE
Empty == [buffer |-> None, class |-> "bulk", slot |-> 0]

TypeOK ==
    /\ buffer \in [Buffers -> {"RING", "DETACHED", "RELEASED"}]
    /\ state \in [Slots -> {"FREE", "RADIO", "READY", "NETWORK", "RELEASING"}]
    /\ binding \in [Slots -> Buffers \union {None}]
    /\ next_claim \in Slots
    /\ spc \in {"idle", "sampled", "loop", "refreshed", "admit", "claim", "send", "failed"}
    /\ hand \in [buffer : Buffers \union {None}, class : Classes, slot : Slots]
    /\ distance \in Slots
    /\ poolCredits \in 0..SLOTS /\ queueCredits \in 0..DEPTH
    /\ staged \in Seq(Slots) /\ Len(staged) <= DEPTH
    /\ ppc \in {"idle", "own", "refused", "admitted", "ready", "adopting",
               "release", "credit", "return"}
    /\ frame \in Slots
    /\ adopted \subseteq Slots /\ dropping \subseteq Slots
    /\ owed \in 0..SLOTS /\ held \in 0..cap

Init ==
    /\ buffer = [b \in Buffers |-> "RING"]
    /\ state = [s \in Slots |-> "FREE"]
    /\ binding = [s \in Slots |-> None]
    /\ next_claim = 0
    /\ spc = "idle" /\ hand = Empty /\ distance = 0
    /\ poolCredits = 0 /\ queueCredits = 0
    /\ staged = <<>>
    /\ ppc = "idle" /\ frame = 0
    /\ adopted = {} /\ dropping = {} /\ owed = 0 /\ held = 0

-----------------------------------------------------------------------------
(* ExternalRxHandoffSlot::release: the slot is taken, the buffer dropped    *)
(* back to the ring's owner, and only then the slot published as free.      *)

BeginRelease(s) == state' = [state EXCEPT ![s] = "RELEASING"]

Releasing(s) == state[s] = "RELEASING" /\ binding[s] # None

Released(s) == state[s] = "RELEASING" /\ binding[s] = None

\* Mutant of DropBuffer: the slot stays bound.
DropBufferBound(s) ==
    /\ Releasing(s)
    /\ buffer' = [buffer EXCEPT ![binding[s]] = "RELEASED"]
    /\ UNCHANGED <<state, binding, service, staged, ppc, frame, network, held>>

DropBuffer(s) ==
    /\ Releasing(s)
    /\ buffer' = [buffer EXCEPT ![binding[s]] = "RELEASED"]
    /\ binding' = [binding EXCEPT ![s] = None]
    /\ UNCHANGED <<state, service, staged, ppc, frame, network, held>>

PublishFree(s) ==
    /\ Released(s)
    /\ state' = [state EXCEPT ![s] = "FREE"]
    /\ UNCHANGED <<buffer, binding, next_claim, spc, hand, distance, poolCredits,
                   queueCredits, staged>>

-----------------------------------------------------------------------------
(* The receive service.                                                     *)

\* Mutant of available_slots: a slot being released counts as free.
available_slots_early == Cardinality({s \in Slots : state[s] \in {"FREE", "RELEASING"}})

available_slots == Cardinality({s \in Slots : state[s] = "FREE"})

free_capacity == DEPTH - Len(staged)

AtReserve == poolCredits <= RESERVED \/ queueCredits <= RESERVED

credits == IF poolCredits < queueCredits THEN poolCredits ELSE queueCredits

\* The released prefix of the ring is rearmed, at the start of a service.
recycle_released(b) ==
    /\ spc = "idle" /\ buffer[b] = "RELEASED"
    /\ buffer' = [buffer EXCEPT ![b] = "RING"]
    /\ UNCHANGED <<state, binding, service, staged, ppc, frame, network, held>>

\* The credits of both domains are sampled once for the transaction.  No other
\* thread claims a slot or fills the queue, so a scan of the slots returns the
\* count of some moment of the scan.
SamplePool ==
    /\ spc = "idle"
    /\ spc' = "sampled"
    /\ poolCredits' = available_slots
    /\ UNCHANGED <<buffer, state, binding, next_claim, hand, distance, queueCredits,
                   staged, ppc, frame, network, held>>

SampleQueue ==
    /\ spc \in {"sampled", "refreshed"}
    /\ spc' = IF spc = "sampled" THEN "loop" ELSE "admit"
    /\ queueCredits' = free_capacity
    /\ UNCHANGED <<buffer, state, binding, next_claim, hand, distance, poolCredits,
                   staged, ppc, frame, network, held>>

\* The head of the loop: only at the reserve are they sampled again.
Refresh ==
    /\ spc = "loop"
    /\ spc' = IF AtReserve THEN "refreshed" ELSE "admit"
    /\ poolCredits' = IF AtReserve THEN available_slots ELSE poolCredits
    /\ UNCHANGED <<buffer, state, binding, next_claim, hand, distance, queueCredits,
                   staged, ppc, frame, network, held>>

\* A completed unit with an ordinary credit, or a critical one with any.
Admissible(class) == credits > RESERVED \/ (class = "critical" /\ credits # 0)

detach_single(b, class) ==
    /\ spc = "admit" /\ buffer[b] = "RING" /\ Admissible(class)
    /\ spc' = "claim" /\ distance' = 0
    /\ buffer' = [buffer EXCEPT ![b] = "DETACHED"]
    /\ hand' = [hand EXCEPT !.buffer = b, !.class = class]
    /\ UNCHANGED <<state, binding, next_claim, poolCredits, queueCredits, staged,
                   ppc, frame, network, held>>

\* A unit discarded to the ring: malformed, or bulk without a credit.
Discard ==
    /\ spc = "admit"
    /\ spc' = "loop"
    /\ UNCHANGED <<buffer, state, binding, next_claim, hand, distance, poolCredits,
                   queueCredits, staged, ppc, frame, network, held>>

\* No unit is left in the frozen frontier, or the next one must wait.  The
\* views of the credits are the transaction's own.
EndService ==
    /\ spc = "admit"
    /\ spc' = "idle"
    /\ poolCredits' = 0 /\ queueCredits' = 0
    /\ UNCHANGED <<buffer, state, binding, next_claim, hand, distance, staged,
                   ppc, frame, network, held>>

\* try_claim_radio: one exchange of the scan.  A scan that finds no slot drops
\* the buffer and fails the transaction.
try_claim_radio ==
    LET i == (next_claim + distance) % SLOTS
        claimed == state[i] = "FREE"
        exhausted == ~claimed /\ distance = SLOTS - 1
    IN
    /\ spc = "claim"
    /\ state' = IF claimed THEN [state EXCEPT ![i] = "RADIO"] ELSE state
    /\ binding' = IF claimed THEN [binding EXCEPT ![i] = hand.buffer] ELSE binding
    /\ next_claim' = IF claimed THEN (i + 1) % SLOTS ELSE next_claim
    /\ buffer' = IF exhausted THEN [buffer EXCEPT ![hand.buffer] = "RELEASED"] ELSE buffer
    /\ hand' = CASE claimed -> [Empty EXCEPT !.slot = i]
                 [] exhausted -> Empty
                 [] OTHER -> hand
    /\ distance' = IF claimed \/ exhausted THEN 0 ELSE distance + 1
    /\ spc' = CASE claimed -> "send" [] exhausted -> "failed" [] OTHER -> "claim"
    /\ UNCHANGED <<poolCredits, queueCredits, staged, ppc, frame, network, held>>

\* Publisher::try_send; a full queue returns the frame, which is dropped, and
\* fails the transaction.
try_send ==
    LET accepted == Len(staged) < DEPTH
        s == hand.slot
    IN
    /\ spc = "send"
    /\ staged' = IF accepted THEN Append(staged, s) ELSE staged
    /\ spc' = IF accepted THEN "loop" ELSE "failed"
    /\ state' = IF accepted THEN state ELSE [state EXCEPT ![s] = "FREE"]
    /\ binding' = IF accepted THEN binding ELSE [binding EXCEPT ![s] = None]
    /\ buffer' = IF accepted THEN buffer ELSE [buffer EXCEPT ![binding[s]] = "RELEASED"]
    /\ poolCredits' = IF poolCredits = 0 THEN 0 ELSE poolCredits - 1
    /\ queueCredits' = IF queueCredits = 0 THEN 0 ELSE queueCredits - 1
    /\ hand' = Empty
    /\ UNCHANGED <<next_claim, distance, ppc, frame, network, held>>

-----------------------------------------------------------------------------
(* The protocol owner of staged frames.                                     *)

Take ==
    /\ ppc = "idle" /\ staged # <<>>
    /\ frame' = Head(staged)
    /\ staged' = Tail(staged)
    /\ ppc' = "own"
    /\ UNCHANGED <<buffer, state, binding, service, network, held>>

\* try_admit_external takes a credit.
try_take_credit ==
    /\ ppc = "own"
    /\ held < cap
    /\ held' = held + 1
    /\ ppc' = "admitted"
    /\ UNCHANGED <<buffer, state, binding, service, staged, frame, network>>

\* try_admit_external refuses the frame: link down, queue full or no credit.
Refuse ==
    /\ ppc = "own"
    /\ ppc' = "refused"
    /\ UNCHANGED <<buffer, state, binding, service, staged, frame, network, held>>

\* The frame is consumed here, or refused to the network and copied, and its
\* lease dropped.
DropLease ==
    /\ ppc \in {"own", "refused"}
    /\ BeginRelease(frame)
    /\ ppc' = "release"
    /\ UNCHANGED <<buffer, binding, service, staged, frame, network, held>>

\* Mutant of DropAdmission: its credit is lost.
ForgetAdmission ==
    /\ ppc = "admitted"
    /\ ppc' = "refused"
    /\ UNCHANGED <<buffer, state, binding, service, staged, frame, network, held>>

\* publish_ethernet_in_place refuses the frame: the admission is dropped.
DropAdmission ==
    /\ ppc = "admitted"
    /\ held' = held - 1
    /\ ppc' = "refused"
    /\ UNCHANGED <<buffer, state, binding, service, staged, frame, network>>

\* publish_ethernet_in_place publishes the slot.
republish ==
    /\ ppc = "admitted"
    /\ state' = [state EXCEPT ![frame] = "READY"]
    /\ ppc' = "ready"
    /\ UNCHANGED <<buffer, binding, service, staged, frame, network, held>>

\* publish_external: the slot becomes the network's.
claim_network ==
    /\ ppc = "ready" /\ state[frame] = "READY"
    /\ state' = [state EXCEPT ![frame] = "NETWORK"]
    /\ ppc' = "adopting"
    /\ UNCHANGED <<buffer, binding, service, staged, frame, network, held>>

\* The packet is queued for the stack.
Adopt ==
    /\ ppc = "adopting"
    /\ adopted' = adopted \union {frame}
    /\ ppc' = "idle" /\ frame' = 0
    /\ UNCHANGED <<buffer, state, binding, service, staged, dropping, owed, held>>

\* The storage does not fit a packet, the link is down or the queue is full.
Reject ==
    /\ ppc = "adopting"
    /\ BeginRelease(frame)
    /\ ppc' = "credit"
    /\ UNCHANGED <<buffer, binding, service, staged, frame, network, held>>

\* The release of `frame` goes on in this thread; a rejected packet's credit
\* is returned after it.
ProtocolDropBuffer == ppc \in {"release", "credit"} /\ DropBuffer(frame)

ProtocolPublishFree ==
    /\ ppc \in {"release", "credit"} /\ PublishFree(frame)
    /\ ppc' = IF ppc = "credit" THEN "return" ELSE "idle"
    /\ frame' = 0
    /\ UNCHANGED <<network, held>>

ProtocolReturnCredit ==
    /\ ppc = "return"
    /\ held' = held - 1
    /\ ppc' = "idle"
    /\ UNCHANGED <<buffer, state, binding, service, staged, frame, network>>

-----------------------------------------------------------------------------
(* The stack: external, but for the release callback of its packets.        *)

DropPacket(s) ==
    /\ s \in adopted
    /\ adopted' = adopted \ {s}
    /\ dropping' = dropping \union {s}
    /\ BeginRelease(s)
    /\ UNCHANGED <<buffer, binding, service, staged, ppc, frame, owed, held>>

StackDropBuffer(s) == s \in dropping /\ DropBuffer(s)

StackPublishFree(s) ==
    /\ s \in dropping /\ PublishFree(s)
    /\ dropping' = dropping \ {s}
    /\ owed' = owed + 1
    /\ UNCHANGED <<ppc, frame, adopted, held>>

return_credit ==
    /\ owed > 0
    /\ owed' = owed - 1
    /\ held' = held - 1
    /\ UNCHANGED <<buffer, state, binding, service, staged, ppc, frame, adopted, dropping>>

-----------------------------------------------------------------------------
Service ==
    \/ \E b \in Buffers : recycle_released(b)
    \/ SamplePool \/ SampleQueue \/ Refresh \/ Discard \/ EndService
    \/ \E b \in Buffers, class \in Classes : detach_single(b, class)
    \/ try_claim_radio \/ try_send

Protocol ==
    \/ Take \/ try_take_credit \/ Refuse \/ DropLease \/ DropAdmission \/ republish
    \/ claim_network \/ Adopt \/ Reject \/ ProtocolDropBuffer \/ ProtocolPublishFree
    \/ ProtocolReturnCredit

StackRelease ==
    \/ \E s \in Slots : StackDropBuffer(s) \/ StackPublishFree(s)
    \/ return_credit

Next == Service \/ Protocol \/ (\E s \in Slots : DropPacket(s)) \/ StackRelease

Spec == Init /\ [][Next]_vars

-----------------------------------------------------------------------------
(* Properties.                                                              *)

Holders(b) == {s \in Slots : binding[s] = b}

\* A detached buffer has exactly one owner above the ring, the service's hand
\* or one slot, and a buffer in the ring has none: its release, which asserts
\* that it is detached, runs once (rx_storage.rs:241), no descriptor is
\* rearmed over a buffer someone still reads, and at most SLOTS are detached
\* (service.rs:67).
BuffersAreOwned ==
    /\ \A b \in Buffers :
          Cardinality(Holders(b)) + (IF hand.buffer = b THEN 1 ELSE 0)
              = (IF buffer[b] = "DETACHED" THEN 1 ELSE 0)
    /\ Cardinality({b \in Buffers : buffer[b] = "DETACHED"}) <= SLOTS

\* Each slot is where its owner believes: the asserted exchanges of publish,
\* claim_network and release never find another state (rx_external_handoff.rs
\* :215, :224, :288).
SlotsAreOwned ==
    /\ \A i, j \in 1..Len(staged) : staged[i] = staged[j] => i = j
    /\ \A i \in 1..Len(staged) : state[staged[i]] = "RADIO"
    /\ spc = "send" => state[hand.slot] = "RADIO"
    /\ ppc \in {"own", "refused", "admitted"} => state[frame] = "RADIO"
    /\ ppc = "ready" => state[frame] = "READY"
    /\ ppc = "adopting" => state[frame] = "NETWORK"
    /\ ppc \in {"release", "credit"} => state[frame] = "RELEASING"
    /\ \A s \in adopted : state[s] = "NETWORK"
    /\ \A s \in dropping : state[s] = "RELEASING"

\* Every receive buffer and every slot has one owner, whoever of service,
\* protocol owner and stack runs in between.
OneOwner == BuffersAreOwned /\ SlotsAreOwned

\* The service's cached credits are lower bounds (service.rs:159): it never
\* fails a transaction for lack of a slot or of queue space, and it detaches a
\* bulk unit only while more slots and queue entries are really free than the
\* ones reserved for critical units (service.rs:187).
CachedCreditsAreSafe ==
    [][/\ spc' # "failed"
       /\ spc = "admit" /\ spc' = "claim" /\ hand'.class = "bulk" =>
             available_slots > RESERVED /\ free_capacity > RESERVED]_vars

\* Every credit is accounted for, so the network holds at most `cap` slots and
\* never appears to hold fewer than it does (external_rx.rs:225).
NetworkSlots == {s \in Slots : state[s] = "NETWORK"} \union dropping
InHand == IF ppc \in {"admitted", "ready", "credit", "return"} THEN 1 ELSE 0

CreditsAreExact ==
    /\ held = Cardinality(NetworkSlots) + owed + InHand
    /\ Cardinality(NetworkSlots) <= cap

\* A stack that never drops a packet cannot starve the driver: a slot is free
\* again and again (external_rx.rs:6).
SlotsKeepComing == []<>(available_slots > 0)
=============================================================================
