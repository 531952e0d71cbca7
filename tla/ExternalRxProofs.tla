--------------------------- MODULE ExternalRxProofs --------------------------
(***************************************************************************)
(* Safety of the zero-copy receive path for every number of buffers and    *)
(* slots, every queue depth and every reserve: one owner for each buffer   *)
(* and slot, exact credits, and cached credits that never overestimate;    *)
(* and of the endpoint on top of it, which implements the path's stack.    *)
(***************************************************************************)
EXTENDS OwnedEndpoint, FiniteSetTheorems, TLAPS

Hands == [buffer : Buffers \union {None}, class : Classes, slot : Slots]
SlotStates == {"FREE", "RADIO", "READY", "NETWORK", "RELEASING"}
BufferStates == {"RING", "DETACHED", "RELEASED"}

Typed ==
    /\ buffer \in [Buffers -> BufferStates]
    /\ state \in [Slots -> SlotStates]
    /\ binding \in [Slots -> Buffers \union {None}]
    /\ next_claim \in Slots /\ distance \in Slots
    /\ hand \in Hands
    /\ poolCredits \in Nat /\ queueCredits \in Nat
    /\ staged \in Seq(Slots) /\ Len(staged) <= DEPTH
    /\ frame \in Slots
    /\ adopted \subseteq Slots /\ dropping \subseteq Slots
    /\ owed \in Nat /\ held \in Int

(***************************************************************************)
(* Who owns a slot.  SlotsAreOwned says in which state each owner finds    *)
(* its slot; that no step of one owner moves the slot of another also      *)
(* needs the owners to be disjoint.                                        *)
(***************************************************************************)
Staged(s) == \E i \in 1..Len(staged) : staged[i] = s

SlotOwnership ==
    /\ SlotsAreOwned
    /\ spc = "send" => ~Staged(hand.slot)
    /\ ppc \in {"own", "refused", "admitted"} =>
         ~Staged(frame) /\ (spc = "send" => hand.slot # frame)
    /\ ppc = "adopting" => frame \notin adopted
    /\ ppc \in {"release", "credit"} => frame \notin dropping

(***************************************************************************)
(* Who owns a buffer: the bindings are injective, disjoint from the        *)
(* service's hand, and hold exactly the detached buffers.                  *)
(***************************************************************************)
BufferOwnership ==
    /\ hand.buffer # None <=> spc = "claim"
    /\ \A s \in Slots : state[s] = "FREE" => binding[s] = None
    /\ \A s \in Slots : state[s] \in {"RADIO", "READY", "NETWORK"} => binding[s] # None
    /\ \A s, t \in Slots : binding[s] = binding[t] /\ binding[s] # None => s = t
    /\ \A s \in Slots : binding[s] # None => binding[s] # hand.buffer
    /\ \A b \in Buffers :
          buffer[b] = "DETACHED" <=> hand.buffer = b \/ \E s \in Slots : binding[s] = b

(***************************************************************************)
(* The service's views are lower bounds wherever it uses them, and its     *)
(* scan has a free slot ahead of it: only the service takes slots from the *)
(* pool, so what was free stays free until it gets there.                  *)
(***************************************************************************)
FreeSlots == {s \in Slots : state[s] = "FREE"}

FreeAhead ==
    \E d \in Slots : d >= distance /\ state[(next_claim + d) % SLOTS] = "FREE"

CreditViews ==
    /\ spc # "failed"
    /\ spc \in {"sampled", "loop", "refreshed", "admit", "claim"} =>
         poolCredits <= available_slots
    /\ spc = "send" => poolCredits - 1 <= available_slots
    /\ spc \in {"loop", "refreshed", "admit", "claim", "send"} =>
         queueCredits <= free_capacity
    /\ spc \in {"claim", "send"} => poolCredits >= 1 /\ queueCredits >= 1
    /\ spc = "claim" => FreeAhead

\* Every credit is accounted for and none is beyond the network's share.
CreditAccount ==
    /\ held = Cardinality(NetworkSlots) + owed + InHand
    /\ held <= cap

PathInv == Typed /\ SlotOwnership /\ BufferOwnership /\ CreditViews /\ CreditAccount

-----------------------------------------------------------------------------
(* The lemmas about slots and the empty hand.                               *)

\* The pool has a slot.
LEMMA SlotZero == SLOTS \in Nat \ {0} /\ 0 \in Slots
BY CreditsAssumption DEF Slots

\* The service's hand may be empty.
LEMMA EmptyHand == Empty \in Hands /\ \A s \in Slots : [Empty EXCEPT !.slot = s] \in Hands
BY SlotZero DEF Empty, Classes, Hands

\* Sets of slots are finite and no larger than the pool.
LEMMA SlotSets ==
    ASSUME NEW S, S \subseteq Slots
    PROVE  IsFiniteSet(S) /\ Cardinality(S) \in Nat /\ Cardinality(S) <= SLOTS
<1>1. IsFiniteSet(Slots) /\ Cardinality(Slots) = SLOTS
    BY FS_Interval, SlotZero DEF Slots
<1>2. IsFiniteSet(S) /\ Cardinality(S) <= Cardinality(Slots)
    BY <1>1, FS_Subset
<1> QED BY <1>1, <1>2, FS_CardinalityType

\* The free slots are counted by a natural number.
LEMMA AvailableType ==
    /\ available_slots = Cardinality(FreeSlots)
    /\ FreeSlots \subseteq Slots /\ available_slots \in Nat
<1>1. available_slots = Cardinality(FreeSlots) /\ FreeSlots \subseteq Slots
    BY DEF available_slots, FreeSlots
<1> QED BY <1>1, SlotSets

\* The steps of the other threads, which leave the service's state alone.
Others == Protocol \/ (\E s \in Slots : DropPacket(s)) \/ StackRelease

\* The initial state: an idle ring.
LEMMA InitTyped == Init => Typed
BY SlotZero, EmptyHand, CreditsAssumption
   DEF Init, Typed, BufferStates, SlotStates

\* The service keeps the types.
LEMMA ServiceTyped ==
    ASSUME Typed, Service
    PROVE  Typed'
<1> USE DEF Typed
<1>1. CASE \E b \in Buffers : recycle_released(b)
    BY <1>1 DEF recycle_released, service, network, BufferStates
<1>2. CASE SamplePool \/ SampleQueue \/ Refresh \/ Discard \/ EndService
    <2>1. UNCHANGED <<buffer, state, binding, next_claim, hand, distance, staged, frame,
                      network, held>>
        BY <1>2 DEF SamplePool, SampleQueue, Refresh, Discard, EndService
    <2>2. /\ poolCredits' \in {poolCredits, available_slots, 0}
          /\ queueCredits' \in {queueCredits, free_capacity, 0}
        BY <1>2 DEF SamplePool, SampleQueue, Refresh, Discard, EndService
    <2>3. poolCredits' \in Nat /\ queueCredits' \in Nat
        BY <2>2, AvailableType, CreditsAssumption DEF free_capacity
    <2> QED BY <2>1, <2>3 DEF network
<1>3. CASE \E b \in Buffers, class \in Classes : detach_single(b, class)
    <2>1. PICK b \in Buffers, class \in Classes : detach_single(b, class)
        BY <1>3
    <2>2. hand' = [hand EXCEPT !.buffer = b, !.class = class]
        BY <2>1 DEF detach_single
    <2>3. hand' \in Hands
        BY <2>2, Zenon DEF Hands
    <2>4. buffer' = [buffer EXCEPT ![b] = "DETACHED"] /\ distance' = 0
        BY <2>1 DEF detach_single
    <2>5. buffer' \in [Buffers -> BufferStates]
        BY <2>4 DEF BufferStates
    <2>6. UNCHANGED <<state, binding, next_claim, poolCredits, queueCredits, staged,
                      frame, network, held>>
        BY <2>1 DEF detach_single
    <2> QED BY <2>3, <2>4, <2>5, <2>6, SlotZero DEF network
<1>4. CASE try_claim_radio
    <2> DEFINE i == (next_claim + distance) % SLOTS
    <2>1. i \in Slots /\ (i + 1) % SLOTS \in Slots
        BY SlotZero DEF Slots
    <2>2. state' \in {[state EXCEPT ![i] = "RADIO"], state}
        BY <1>4 DEF try_claim_radio
    <2>3. binding' \in {[binding EXCEPT ![i] = hand.buffer], binding}
        BY <1>4 DEF try_claim_radio
    <2>4. next_claim' \in {(i + 1) % SLOTS, next_claim}
        BY <1>4 DEF try_claim_radio
    <2>5. distance' = 0 \/ (distance # SLOTS - 1 /\ distance' = distance + 1)
        BY <1>4 DEF try_claim_radio
    <2>6. hand' \in {[Empty EXCEPT !.slot = i], Empty, hand}
        BY <1>4 DEF try_claim_radio
    <2>7. buffer' \in {[buffer EXCEPT ![hand.buffer] = "RELEASED"], buffer}
        BY <1>4 DEF try_claim_radio
    <2>8. UNCHANGED <<poolCredits, queueCredits, staged, frame, network, held>>
        BY <1>4 DEF try_claim_radio
    <2> HIDE DEF i
    <2>9. state' \in [Slots -> SlotStates]
        BY <2>2 DEF SlotStates
    <2>10. binding' \in [Slots -> Buffers \union {None}]
        BY <2>3 DEF Hands
    <2>11. distance' \in Slots
        BY <2>5, SlotZero DEF Slots
    <2>12. buffer' \in [Buffers -> BufferStates]
        BY <2>7 DEF BufferStates
    <2>13. hand' \in Hands
        BY <2>1, <2>6, EmptyHand
    <2> QED BY <2>1, <2>4, <2>8, <2>9, <2>10, <2>11, <2>12, <2>13 DEF network
<1>5. CASE try_send
    <2>1. hand.slot \in Slots
        BY DEF Hands
    <2>2. \/ Len(staged) < DEPTH /\ staged' = Append(staged, hand.slot)
          \/ staged' = staged
        BY <1>5 DEF try_send
    <2>3. staged' \in Seq(Slots) /\ Len(staged') <= DEPTH
        BY <2>1, <2>2, CreditsAssumption
    <2>4. state' \in {state, [state EXCEPT ![hand.slot] = "FREE"]}
        BY <1>5 DEF try_send
    <2>5. state' \in [Slots -> SlotStates]
        BY <2>4 DEF SlotStates
    <2>6. binding' \in {binding, [binding EXCEPT ![hand.slot] = None]}
        BY <1>5 DEF try_send
    <2>7. buffer' \in {buffer, [buffer EXCEPT ![binding[hand.slot]] = "RELEASED"]}
        BY <1>5 DEF try_send
    <2>8. buffer' \in [Buffers -> BufferStates]
        BY <2>7 DEF BufferStates
    <2>9. poolCredits' \in Nat /\ queueCredits' \in Nat
        BY <1>5 DEF try_send
    <2>10. hand' = Empty /\ UNCHANGED <<next_claim, distance, frame, network, held>>
        BY <1>5 DEF try_send
    <2> QED BY <2>3, <2>5, <2>6, <2>8, <2>9, <2>10, EmptyHand DEF network
<1> QED BY <1>1, <1>2, <1>3, <1>4, <1>5 DEF Service

\* The protocol owner and the stack keep the types.
LEMMA OthersTyped ==
    ASSUME Typed, Others
    PROVE  Typed'
<1> USE DEF Typed
<1>1. UNCHANGED service
    BY DEF Others, Protocol, Take, try_take_credit, Refuse, DropLease, DropAdmission,
           republish, claim_network, Adopt, Reject, ProtocolDropBuffer, DropBuffer,
           ProtocolPublishFree, PublishFree, ProtocolReturnCredit, DropPacket,
           StackRelease, StackDropBuffer, StackPublishFree, return_credit, service
<1>2. CASE Take
    <2>1. Head(staged) \in Slots /\ Tail(staged) \in Seq(Slots)
          /\ Len(Tail(staged)) <= DEPTH
        BY <1>2, CreditsAssumption DEF Take
    <2> QED BY <1>1, <1>2, <2>1 DEF Take, service, network
<1>3. CASE try_take_credit \/ Refuse \/ DropAdmission \/ ProtocolReturnCredit
    BY <1>1, <1>3 DEF try_take_credit, Refuse, DropAdmission, ProtocolReturnCredit,
                      service, network
<1>4. CASE DropLease \/ republish \/ claim_network \/ Reject
    BY <1>1, <1>4 DEF DropLease, republish, claim_network, Reject, BeginRelease,
                      service, network, SlotStates
<1>5. CASE Adopt
    BY <1>1, <1>5, SlotZero DEF Adopt, service
<1>6. CASE \E s \in Slots : DropBuffer(s)
    BY <1>1, <1>6, Zenon DEF DropBuffer, service, network, BufferStates
<1>7. CASE ProtocolPublishFree
    BY <1>1, <1>7, SlotZero DEF ProtocolPublishFree, PublishFree, service, network, SlotStates
<1>8. CASE \E s \in Slots : DropPacket(s)
    BY <1>1, <1>8 DEF DropPacket, BeginRelease, service, SlotStates
<1>9. CASE \E s \in Slots : StackPublishFree(s)
    BY <1>1, <1>9 DEF StackPublishFree, PublishFree, service, SlotStates
<1>10. CASE return_credit
    BY <1>1, <1>10 DEF return_credit, service
<1> QED BY <1>2, <1>3, <1>4, <1>5, <1>6, <1>7, <1>8, <1>9, <1>10
        DEF Others, Protocol, StackRelease, ProtocolDropBuffer, StackDropBuffer

\* Every step keeps the types: the scan stays inside the pool and every slot
\* that is staged, owned or handed on comes from it (pool.rs:143).
LEMMA NextTyped == Typed /\ [Next]_vars => Typed'
<1> SUFFICES ASSUME Typed, [Next]_vars PROVE Typed'
    OBVIOUS
<1>1. CASE UNCHANGED vars
    BY <1>1 DEF Typed, vars, service, network
<1> QED BY <1>1, ServiceTyped, OthersTyped DEF Next, Others

-----------------------------------------------------------------------------
(* Slots.                                                                   *)

\* No slot is owned at first.
LEMMA InitSlots == Init => SlotOwnership
BY DEF Init, SlotOwnership, SlotsAreOwned

\* A step that moves no slot keeps their owners, if the service stays where
\* it is or is not about to stage, and the protocol owner keeps `frame` in
\* the same state or is done with it.
LEMMA SlotsUnmoved ==
    ASSUME SlotOwnership, UNCHANGED <<state, staged, frame, adopted, dropping>>,
           UNCHANGED <<spc, hand>> \/ spc' # "send",
           \/ ppc' = ppc
           \/ ppc \in {"own", "admitted"} /\ ppc' \in {"refused", "admitted"}
           \/ ppc' = "idle"
    PROVE  SlotOwnership'
<1>1. spc' = "send" => spc = "send" /\ hand' = hand
    OBVIOUS
<1>2. ppc' \in {"own", "refused", "admitted"} => ppc \in {"own", "refused", "admitted"}
    OBVIOUS
<1>3. ppc' \in {"ready", "adopting", "release", "credit"} => ppc' = ppc
    OBVIOUS
<1>4. SlotsAreOwned'
    BY <1>1, <1>2, <1>3 DEF SlotOwnership, SlotsAreOwned
<1> QED BY <1>1, <1>2, <1>3, <1>4 DEF SlotOwnership, Staged

\* The move of a slot that is not staged leaves the staged ones alone.
LEMMA StagedKept ==
    ASSUME SlotOwnership, NEW s, staged' = staged,
           \A t \in Slots : t # s => state'[t] = state[t],
           \A k \in 1..Len(staged) : staged[k] \in Slots,
           \A k \in 1..Len(staged) : staged[k] # s
    PROVE  /\ \A i, j \in 1..Len(staged') : staged'[i] = staged'[j] => i = j
           /\ \A i \in 1..Len(staged') : state'[staged'[i]] = "RADIO"
<1>1. /\ \A i, j \in 1..Len(staged) : staged[i] = staged[j] => i = j
      /\ \A i \in 1..Len(staged) : state[staged[i]] = "RADIO"
    BY Zenon DEF SlotOwnership, SlotsAreOwned
<1>2. \A i \in 1..Len(staged) : state'[staged[i]] = state[staged[i]]
    OBVIOUS
<1> QED BY <1>1, <1>2

\* A claimed slot was free, so it is nobody else's; a staged one moves from
\* the service's hand to the queue.
LEMMA ServiceSlots ==
    ASSUME Typed, SlotOwnership, Service
    PROVE  SlotOwnership'
<1> USE DEF Typed, SlotOwnership, SlotsAreOwned, Staged
<1>1. CASE \E b \in Buffers : recycle_released(b)
    <2> HIDE DEF Typed, SlotOwnership, SlotsAreOwned, Staged
    <2>1. UNCHANGED <<state, staged, frame, adopted, dropping, ppc, spc, hand>>
        BY <1>1 DEF recycle_released, service, network
    <2> QED BY <2>1, SlotsUnmoved
<1>2. CASE SamplePool \/ SampleQueue \/ Refresh \/ Discard \/ EndService
    <2> HIDE DEF Typed, SlotOwnership, SlotsAreOwned, Staged
    <2>1. /\ UNCHANGED <<state, staged, frame, adopted, dropping, ppc>>
          /\ spc' # "send"
        BY <1>2 DEF SamplePool, SampleQueue, Refresh, Discard, EndService, network
    <2> QED BY <2>1, SlotsUnmoved
<1>3. CASE \E b \in Buffers, class \in Classes : detach_single(b, class)
    <2> HIDE DEF Typed, SlotOwnership, SlotsAreOwned, Staged
    <2>1. /\ spc' = "claim"
          /\ UNCHANGED <<state, staged, ppc, frame, network>>
        BY <1>3 DEF detach_single
    <2> QED BY <2>1, SlotsUnmoved DEF network
<1>4. CASE try_claim_radio
    <2> DEFINE i == (next_claim + distance) % SLOTS
    <2>1. UNCHANGED <<staged, ppc, frame, network>> /\ spc = "claim"
        BY <1>4 DEF try_claim_radio
    <2>2. i \in Slots
        BY SlotZero DEF Slots
    <2>3. CASE state[i] = "FREE"
        <3>1. /\ state' = [state EXCEPT ![i] = "RADIO"]
              /\ hand' = [Empty EXCEPT !.slot = i]
            BY <1>4, <2>3 DEF try_claim_radio
        <3>2. hand'.slot = i
            BY <3>1 DEF Empty
        <3>3. \A s \in Slots : state[s] # "FREE" => s # i /\ state'[s] = state[s]
            BY <2>3, <3>1
        <3> HIDE DEF i
        <3>4. /\ \A k \in 1..Len(staged) : staged[k] \in Slots /\ staged[k] # i
              /\ ppc \in {"own", "refused", "admitted", "ready", "adopting", "release",
                          "credit"} => frame # i
              /\ state'[i] = "RADIO"
            BY <2>2, <2>3, <3>1
        <3> QED BY <2>1, <2>2, <3>2, <3>3, <3>4 DEF network
    <2>4. CASE state[i] # "FREE"
        <3>1. state' = state /\ spc' # "send"
            BY <1>4, <2>4 DEF try_claim_radio
        <3> QED BY <2>1, <3>1 DEF network
    <2> QED BY <2>3, <2>4
<1>5. CASE try_send
    <2>1. hand.slot \in Slots /\ spc = "send" /\ spc' # "send"
        BY <1>5 DEF try_send, Hands
    <2>2. UNCHANGED <<ppc, frame, network>>
        BY <1>5 DEF try_send
    <2>3. CASE Len(staged) < DEPTH
        <3>1. staged' = Append(staged, hand.slot) /\ state' = state
            BY <1>5, <2>3 DEF try_send
        <3>2. /\ Len(staged') = Len(staged) + 1 /\ Len(staged) \in Nat
              /\ \A k \in 1..Len(staged) : staged'[k] = staged[k]
              /\ staged'[Len(staged) + 1] = hand.slot
            BY <2>1, <3>1
        <3>3. \A k \in 1..Len(staged') : k \in 1..Len(staged) \/ k = Len(staged) + 1
            BY <3>2
        <3>4. adopted' = adopted /\ dropping' = dropping
            BY <2>2 DEF network
        <3>5. /\ \A i, j \in 1..Len(staged) : staged[i] = staged[j] => i = j
              /\ \A i \in 1..Len(staged) : state[staged[i]] = "RADIO" /\ staged[i] # hand.slot
              /\ state[hand.slot] = "RADIO"
            BY <2>1
        <3>6. SlotsAreOwned'
            <4>1. \A i, j \in 1..Len(staged') : staged'[i] = staged'[j] => i = j
                <5> HIDE DEF Typed, SlotOwnership, SlotsAreOwned, Staged
                <5> QED BY <3>2, <3>3, <3>5
            <4>2. \A i \in 1..Len(staged') : state'[staged'[i]] = "RADIO"
                <5> HIDE DEF Typed, SlotOwnership, SlotsAreOwned, Staged
                <5> QED BY <3>1, <3>2, <3>3, <3>5
            <4> QED BY <2>1, <2>2, <3>1, <3>4, <4>1, <4>2
        <3>7. ppc \in {"own", "refused", "admitted"} => ~Staged(frame)'
            BY <2>1, <2>2, <3>2, <3>3
        <3> HIDE DEF Typed, SlotsAreOwned, Staged
        <3> QED BY <2>1, <2>2, <3>4, <3>6, <3>7
    <2>4. CASE ~(Len(staged) < DEPTH)
        <3>1. staged' = staged /\ state' = [state EXCEPT ![hand.slot] = "FREE"]
            BY <1>5, <2>4 DEF try_send
        <3>2. \A s \in Slots : s # hand.slot => state'[s] = state[s]
            BY <3>1
        <3>3. \A k \in 1..Len(staged) : staged[k] \in Slots /\ staged[k] # hand.slot
            <4> HIDE DEF SlotOwnership, SlotsAreOwned, Staged
            <4>1. \A k \in 1..Len(staged) : staged[k] \in Slots
                OBVIOUS
            <4>2. ~Staged(hand.slot)
                BY <2>1, Zenon DEF SlotOwnership
            <4> QED BY <4>1, <4>2, Zenon DEF Staged
        <3>4. ppc \in {"own", "refused", "admitted", "ready", "adopting", "release",
                       "credit"} => frame # hand.slot
            BY <2>1
        <3>5. \A s \in adopted \union dropping : s \in Slots /\ s # hand.slot
            BY <2>1
        <3> QED BY <2>1, <2>2, <3>1, <3>2, <3>3, <3>4, <3>5 DEF network
    <2> QED BY <2>3, <2>4
<1> QED BY <1>1, <1>2, <1>3, <1>4, <1>5, Zenon DEF Service

\* The owner of `frame` moves its slot only, and the stack only the slots of
\* its packets.
LEMMA OthersSlots ==
    ASSUME Typed, SlotOwnership, Others
    PROVE  SlotOwnership'
<1> USE DEF Typed, SlotOwnership, SlotsAreOwned, Staged
<1>1. UNCHANGED <<spc, hand>>
    BY Zenon DEF Others, Protocol, Take, try_take_credit, Refuse, DropLease, DropAdmission,
           republish, claim_network, Adopt, Reject, ProtocolDropBuffer, DropBuffer,
           ProtocolPublishFree, PublishFree, ProtocolReturnCredit, DropPacket,
           StackRelease, StackDropBuffer, StackPublishFree, return_credit, service
<1>0. /\ spc = "send" => hand.slot \in Slots
      /\ \A k \in 1..Len(staged) : staged[k] \in Slots
    BY DEF Hands
<1>2. CASE Take
    <2>1. /\ frame' = Head(staged) /\ staged' = Tail(staged) /\ staged # <<>>
          /\ ppc' = "own" /\ UNCHANGED <<state, network>>
        BY <1>2 DEF Take
    <2>2. /\ Len(staged') = Len(staged) - 1 /\ Len(staged) \in Nat /\ Len(staged) >= 1
          /\ \A k \in 1..Len(staged') : staged'[k] = staged[k + 1] /\ k + 1 \in 2..Len(staged)
          /\ frame' = staged[1] /\ 1 \in 1..Len(staged)
        BY <2>1
    <2>a. /\ \A i, j \in 1..Len(staged) : staged[i] = staged[j] => i = j
          /\ \A i \in 1..Len(staged) : state[staged[i]] = "RADIO"
        BY Zenon
    <2>3. /\ \A k \in 1..Len(staged') : staged'[k] # frame' /\ state[staged'[k]] = "RADIO"
          /\ \A i, j \in 1..Len(staged') : staged'[i] = staged'[j] => i = j
          /\ state[frame'] = "RADIO"
        <3> HIDE DEF Typed, SlotOwnership, SlotsAreOwned, Staged
        <3>1. PICK n \in Nat : n = Len(staged) /\ Len(staged') = n - 1
            BY <2>2
        <3>2. \A k \in 1..(n - 1) : k + 1 \in 1..n /\ k + 1 # 1 /\ staged'[k] = staged[k + 1]
            BY <2>2, <3>1
        <3>3. 1 \in 1..n /\ frame' = staged[1]
            BY <2>2, <3>1
        <3>4. \A k \in 1..(n - 1) : staged'[k] # frame' /\ state[staged'[k]] = "RADIO"
            BY <2>a, <3>1, <3>2, <3>3
        <3>5. \A i, j \in 1..(n - 1) : staged'[i] = staged'[j] => i + 1 = j + 1
            BY <2>a, <3>1, <3>2
        <3>6. \A i, j \in 1..(n - 1) : i + 1 = j + 1 => i = j
            BY <3>1
        <3>7. state[frame'] = "RADIO"
            BY <2>a, <3>1, <3>3
        <3>8. Len(staged') = n - 1
            BY <3>1
        <3>9. \A i, j \in 1..(n - 1) : staged'[i] = staged'[j] => i = j
            BY <3>5, <3>6
        <3> QED BY <3>4, <3>7, <3>8, <3>9, Zenon
    <2>4. spc = "send" => hand.slot # frame' /\ \A k \in 1..Len(staged') : staged'[k] # hand.slot
        BY <2>2
    <2> QED BY <1>1, <2>1, <2>3, <2>4, Zenon DEF network
<1>3. CASE try_take_credit \/ Refuse \/ DropAdmission \/ ProtocolReturnCredit
    <2> HIDE DEF Typed, SlotOwnership, SlotsAreOwned, Staged
    <2>1. /\ UNCHANGED <<state, staged, frame, adopted, dropping>>
          /\ \/ ppc \in {"own", "admitted"} /\ ppc' \in {"refused", "admitted"}
             \/ ppc' = "idle"
        BY <1>3 DEF try_take_credit, Refuse, DropAdmission, ProtocolReturnCredit, network
    <2> QED BY <1>1, <2>1, SlotsUnmoved
<1>4. CASE DropLease \/ republish \/ claim_network \/ Reject
    <2>1. /\ UNCHANGED <<staged, frame, network>>
          /\ \E x \in SlotStates : state' = [state EXCEPT ![frame] = x]
        BY <1>4 DEF DropLease, republish, claim_network, Reject, BeginRelease, SlotStates
    <2>2. /\ \A s \in Slots : s # frame => state'[s] = state[s]
          /\ \A k \in 1..Len(staged) : staged[k] # frame
          /\ spc = "send" => hand.slot # frame
          /\ frame \notin adopted /\ frame \notin dropping
        BY <1>0, <1>4, <2>1 DEF DropLease, republish, claim_network, Reject
    <2>3. \/ ppc' = "release" /\ state'[frame] = "RELEASING"
          \/ ppc' = "credit" /\ state'[frame] = "RELEASING"
          \/ ppc' = "ready" /\ state'[frame] = "READY"
          \/ ppc' = "adopting" /\ state'[frame] = "NETWORK"
        BY <1>4 DEF DropLease, republish, claim_network, Reject, BeginRelease
    <2> QED BY <1>0, <1>1, <2>1, <2>2, <2>3 DEF network
<1>5. CASE Adopt
    BY <1>1, <1>5 DEF Adopt
<1>6. CASE \E s \in Slots : DropBuffer(s)
    <2> HIDE DEF Typed, SlotOwnership, SlotsAreOwned, Staged
    <2>1. UNCHANGED <<state, staged, frame, adopted, dropping, ppc>>
        BY <1>6 DEF DropBuffer, network
    <2> QED BY <1>1, <2>1, SlotsUnmoved
<1>7. CASE ProtocolPublishFree
    <2>1. /\ state' = [state EXCEPT ![frame] = "FREE"] /\ state[frame] = "RELEASING"
          /\ UNCHANGED <<staged, network>> /\ ppc' \in {"return", "idle"}
          /\ frame \notin dropping
        BY <1>7, Zenon DEF ProtocolPublishFree, PublishFree, Released
    <2>2. \A s \in Slots : s # frame => state'[s] = state[s]
        BY <2>1, Zenon
    <2>3. /\ \A k \in 1..Len(staged) : staged[k] # frame
          /\ spc = "send" => hand.slot # frame
          /\ \A s \in adopted \union dropping : s # frame
        BY <2>1
    <2>4. adopted' = adopted /\ dropping' = dropping
        BY <2>1 DEF network
    <2>5. /\ \A i, j \in 1..Len(staged') : staged'[i] = staged'[j] => i = j
          /\ \A i \in 1..Len(staged') : state'[staged'[i]] = "RADIO"
        <3> HIDE DEF Typed, SlotOwnership
        <3> QED BY <1>0, <2>1, <2>2, <2>3, StagedKept, Zenon
    <2>6. spc' = "send" => state'[hand'.slot] = "RADIO" /\ ~Staged(hand.slot)'
        BY <1>0, <1>1, <2>1, <2>2, <2>3, Zenon
    <2>7. /\ \A s \in adopted' : state'[s] = "NETWORK"
          /\ \A s \in dropping' : state'[s] = "RELEASING"
        BY <2>2, <2>3, <2>4, Zenon
    <2>8. ppc' \notin {"own", "refused", "admitted", "ready", "adopting", "release", "credit"}
        BY <2>1, Zenon
    <2> QED BY <2>5, <2>6, <2>7, <2>8, Zenon
<1>8. CASE \E s \in Slots : DropPacket(s)
    <2>1. PICK s \in Slots : DropPacket(s)
        BY <1>8, Zenon
    <2>2. /\ s \in adopted /\ adopted' = adopted \ {s} /\ dropping' = dropping \union {s}
          /\ state' = [state EXCEPT ![s] = "RELEASING"] /\ state[s] = "NETWORK"
          /\ UNCHANGED <<staged, ppc, frame>>
        BY <2>1, Zenon DEF DropPacket, BeginRelease
    <2>3. /\ \A t \in Slots : t # s => state'[t] = state[t]
          /\ state'[s] = "RELEASING"
        BY <2>2, Zenon
    <2>4. /\ \A k \in 1..Len(staged) : staged[k] # s
          /\ spc = "send" => hand.slot # s
          /\ ppc \in {"own", "refused", "admitted", "ready", "adopting", "release",
                      "credit"} => frame # s
        BY <2>2, Zenon
    <2>5. /\ \A i, j \in 1..Len(staged') : staged'[i] = staged'[j] => i = j
          /\ \A i \in 1..Len(staged') : state'[staged'[i]] = "RADIO"
        <3> HIDE DEF Typed, SlotOwnership
        <3> QED BY <1>0, <2>2, <2>3, <2>4, StagedKept, Zenon
    <2>6. spc' = "send" => state'[hand'.slot] = "RADIO" /\ ~Staged(hand.slot)'
        BY <1>0, <1>1, <2>2, <2>3, <2>4, Zenon
    <2>7. /\ \A t \in adopted' : state'[t] = "NETWORK"
          /\ \A t \in dropping' : state'[t] = "RELEASING"
        BY <2>2, <2>3, <2>4, Zenon
    <2>8. /\ ppc \in {"own", "refused", "admitted", "ready", "adopting", "release",
                      "credit"} => state'[frame] = state[frame]
          /\ UNCHANGED <<ppc, frame, staged, spc, hand>>
        BY <1>1, <2>2, <2>3, <2>4, Zenon
    <2>9. /\ ppc = "adopting" => frame \notin adopted'
          /\ ppc \in {"release", "credit"} => frame \notin dropping'
        BY <2>2, <2>4, Zenon
    <2> QED BY <2>5, <2>6, <2>7, <2>8, <2>9, Zenon
<1>9. CASE \E s \in Slots : StackPublishFree(s)
    <2>1. PICK s \in Slots : StackPublishFree(s)
        BY <1>9, Zenon
    <2>2. /\ s \in dropping /\ dropping' = dropping \ {s} /\ adopted' = adopted
          /\ state' = [state EXCEPT ![s] = "FREE"] /\ state[s] = "RELEASING"
          /\ UNCHANGED <<staged, ppc, frame>>
        BY <2>1, Zenon DEF StackPublishFree, PublishFree, Released
    <2>3. \A t \in Slots : t # s => state'[t] = state[t]
        BY <2>2, Zenon
    <2>4. /\ \A k \in 1..Len(staged) : staged[k] # s
          /\ spc = "send" => hand.slot # s
          /\ \A t \in adopted : t # s
          /\ ppc \in {"own", "refused", "admitted", "ready", "adopting", "release",
                      "credit"} => frame # s
        BY <2>2, Zenon
    <2>5. /\ \A i, j \in 1..Len(staged') : staged'[i] = staged'[j] => i = j
          /\ \A i \in 1..Len(staged') : state'[staged'[i]] = "RADIO"
        <3> HIDE DEF Typed, SlotOwnership
        <3> QED BY <1>0, <2>2, <2>3, <2>4, StagedKept, Zenon
    <2>6. spc' = "send" => state'[hand'.slot] = "RADIO" /\ ~Staged(hand.slot)'
        BY <1>0, <1>1, <2>2, <2>3, <2>4, Zenon
    <2>7. /\ \A t \in adopted' : state'[t] = "NETWORK"
          /\ \A t \in dropping' : state'[t] = "RELEASING"
        BY <2>2, <2>3, <2>4, Zenon
    <2>8. /\ ppc \in {"own", "refused", "admitted", "ready", "adopting", "release",
                      "credit"} => state'[frame] = state[frame]
          /\ UNCHANGED <<ppc, frame, staged, spc, hand>>
        BY <1>1, <2>2, <2>3, <2>4, Zenon
    <2>9. /\ ppc = "adopting" => frame \notin adopted'
          /\ ppc \in {"release", "credit"} => frame \notin dropping'
        BY <2>2, <2>4, Zenon
    <2> QED BY <2>5, <2>6, <2>7, <2>8, <2>9, Zenon
<1>10. CASE return_credit
    BY <1>1, <1>10, Zenon DEF return_credit
<1> QED BY <1>2, <1>3, <1>4, <1>5, <1>6, <1>7, <1>8, <1>9, <1>10, Zenon
        DEF Others, Protocol, StackRelease, ProtocolDropBuffer, StackDropBuffer

\* Every step keeps the ownership of slots.
LEMMA NextSlots == Typed /\ SlotOwnership /\ [Next]_vars => SlotOwnership'
<1> SUFFICES ASSUME Typed, SlotOwnership, [Next]_vars PROVE SlotOwnership'
    OBVIOUS
<1>1. CASE UNCHANGED vars
    BY <1>1, Zenon DEF SlotOwnership, SlotsAreOwned, Staged, vars, service, network
<1> QED BY <1>1, ServiceSlots, OthersSlots DEF Next, Others

-----------------------------------------------------------------------------
(* Buffers.                                                                 *)

\* No buffer is detached at first.
LEMMA InitBuffers == Init => BufferOwnership
BY CreditsAssumption DEF Init, BufferOwnership, Empty

\* A slot that gives its buffer up leaves the other buffers bound.
LEMMA Unbound ==
    ASSUME BufferOwnership, NEW s \in Slots, binding[s] \in Buffers, binding'[s] = None,
           \A t \in Slots : t # s => binding'[t] = binding[t]
    PROVE  \A b \in Buffers : (\E t \in Slots : binding'[t] = b) <=>
               (b # binding[s] /\ \E t \in Slots : binding[t] = b)
<1> SUFFICES ASSUME NEW b \in Buffers
             PROVE  (\E t \in Slots : binding'[t] = b) <=>
                        (b # binding[s] /\ \E t \in Slots : binding[t] = b)
    OBVIOUS
<1>1. /\ None \notin Buffers
      /\ \A t \in Slots : binding[t] = binding[s] => t = s
    BY CreditsAssumption DEF BufferOwnership
<1>2. ASSUME NEW t \in Slots, binding'[t] = b PROVE b # binding[s] /\ binding[t] = b
    BY <1>1, <1>2
<1>3. ASSUME NEW t \in Slots, b # binding[s], binding[t] = b PROVE binding'[t] = b
    BY <1>3
<1> QED BY <1>2, <1>3

\* A buffer is detached into the service's hand and goes from there into the
\* binding of the slot it claims.
LEMMA ServiceBuffers ==
    ASSUME Typed, SlotOwnership, BufferOwnership, Service
    PROVE  BufferOwnership'
<1> USE DEF Typed, BufferOwnership
<1>0. None \notin Buffers /\ hand.buffer \in Buffers \union {None} /\ hand.slot \in Slots
    BY CreditsAssumption DEF Hands
<1>1. CASE \E b \in Buffers : recycle_released(b)
    <2>1. PICK b \in Buffers : recycle_released(b)
        BY <1>1
    <2>2. /\ buffer[b] = "RELEASED" /\ buffer' = [buffer EXCEPT ![b] = "RING"]
          /\ UNCHANGED <<state, binding, spc, hand>>
        BY <2>1 DEF recycle_released, service
    <2>3. \A c \in Buffers : buffer'[c] = "DETACHED" <=> buffer[c] = "DETACHED"
        BY <2>2
    <2> QED BY <2>2, <2>3
<1>2. CASE SamplePool \/ SampleQueue \/ Refresh \/ Discard \/ EndService
    <2>1. /\ UNCHANGED <<state, binding, buffer, hand>>
          /\ spc # "claim" /\ spc' # "claim"
        BY <1>2 DEF SamplePool, SampleQueue, Refresh, Discard, EndService
    <2> QED BY <2>1
<1>3. CASE \E b \in Buffers, class \in Classes : detach_single(b, class)
    <2>1. PICK b \in Buffers, class \in Classes : detach_single(b, class)
        BY <1>3
    <2>2. /\ spc = "admit" /\ spc' = "claim" /\ buffer[b] = "RING"
          /\ buffer' = [buffer EXCEPT ![b] = "DETACHED"]
          /\ hand' = [hand EXCEPT !.buffer = b, !.class = class]
          /\ UNCHANGED <<state, binding>>
        BY <2>1 DEF detach_single
    <2>3. hand'.buffer = b /\ hand.buffer = None
        BY <2>2 DEF Hands
    <2>4. \A s \in Slots : binding[s] # b
        BY <2>2
    <2>5. \A c \in Buffers : buffer'[c] = IF c = b THEN "DETACHED" ELSE buffer[c]
        BY <2>2
    <2> QED BY <1>0, <2>2, <2>3, <2>4, <2>5
<1>4. CASE try_claim_radio
    <2> DEFINE i == (next_claim + distance) % SLOTS
    <2>1. i \in Slots
        BY SlotZero DEF Slots
    <2>2. hand.buffer \in Buffers /\ spc = "claim" /\ buffer[hand.buffer] = "DETACHED"
        BY <1>0, <1>4 DEF try_claim_radio
    <2>3. CASE state[i] = "FREE"
        <3>1. /\ state' = [state EXCEPT ![i] = "RADIO"]
              /\ binding' = [binding EXCEPT ![i] = hand.buffer]
              /\ hand' = [Empty EXCEPT !.slot = i]
              /\ spc' = "send" /\ buffer' = buffer
            BY <1>4, <2>3 DEF try_claim_radio
        <3>2. hand'.buffer = None
            BY <3>1 DEF Empty
        <3> HIDE DEF i
        <3>3. /\ \A s \in Slots : s # i => state'[s] = state[s] /\ binding'[s] = binding[s]
              /\ state'[i] = "RADIO" /\ binding'[i] = hand.buffer
            BY <2>1, <3>1
        <3>4. binding[i] = None
            BY <2>1, <2>3
        <3>5. \A b \in Buffers : (\E s \in Slots : binding'[s] = b) <=>
                  (hand.buffer = b \/ \E s \in Slots : binding[s] = b)
            BY <1>0, <2>1, <3>3, <3>4
        <3> QED BY <1>0, <2>1, <2>2, <3>1, <3>2, <3>3, <3>4, <3>5
    <2>4. CASE state[i] # "FREE" /\ distance = SLOTS - 1
        <3>1. /\ state' = state /\ binding' = binding /\ hand' = Empty /\ spc' = "failed"
              /\ buffer' = [buffer EXCEPT ![hand.buffer] = "RELEASED"]
            BY <1>4, <2>4 DEF try_claim_radio
        <3>2. hand'.buffer = None
            BY <3>1 DEF Empty
        <3>3. \A c \in Buffers : buffer'[c] = IF c = hand.buffer THEN "RELEASED" ELSE buffer[c]
            BY <3>1, <2>2
        <3> QED BY <1>0, <2>2, <3>1, <3>2, <3>3
    <2>5. CASE state[i] # "FREE" /\ distance # SLOTS - 1
        <3>1. UNCHANGED <<state, binding, hand, spc, buffer>>
            BY <1>4, <2>5 DEF try_claim_radio
        <3> QED BY <3>1
    <2> QED BY <2>3, <2>4, <2>5, Zenon
<1>5. CASE try_send
    <2>1. hand' = Empty /\ spc = "send" /\ spc' # "claim"
        BY <1>5 DEF try_send
    <2>2. hand'.buffer = None /\ hand.buffer = None
        BY <2>1 DEF Empty
    <2>3. CASE Len(staged) < DEPTH
        <3>1. UNCHANGED <<state, binding, buffer>>
            BY <1>5, <2>3 DEF try_send
        <3> QED BY <1>0, <2>1, <2>2, <3>1
    <2>4. CASE ~(Len(staged) < DEPTH)
        <3> DEFINE s == hand.slot
        <3>a. s \in Slots
            BY <1>0
        <3>1. /\ state' = [state EXCEPT ![s] = "FREE"]
              /\ binding' = [binding EXCEPT ![s] = None]
              /\ buffer' = [buffer EXCEPT ![binding[s]] = "RELEASED"]
            BY <1>5, <2>4 DEF try_send
        <3>2. binding[s] \in Buffers
            BY <1>0, <2>1 DEF SlotOwnership, SlotsAreOwned
        <3>3. /\ \A t \in Slots : t # s => state'[t] = state[t] /\ binding'[t] = binding[t]
              /\ state'[s] = "FREE" /\ binding'[s] = None
              /\ \A c \in Buffers : buffer'[c] = IF c = binding[s] THEN "RELEASED" ELSE buffer[c]
            BY <1>0, <3>1, <3>2
        <3>4. \A b \in Buffers : (\E t \in Slots : binding'[t] = b) <=>
                  (b # binding[s] /\ \E t \in Slots : binding[t] = b)
            <4> HIDE DEF Typed, BufferOwnership, s
            <4> QED BY <2>1, <3>2, <3>3, <3>a, Unbound, Zenon
        <3> HIDE DEF s
        <3> QED BY <1>0, <2>1, <2>2, <3>2, <3>3, <3>4
    <2> QED BY <2>3, <2>4, Zenon
<1> QED BY <1>1, <1>2, <1>3, <1>4, <1>5, Zenon DEF Service

\* Any slot's release gives exactly its own buffer back.
LEMMA DropBuffers ==
    ASSUME Typed, BufferOwnership, NEW s \in Slots, DropBuffer(s)
    PROVE  BufferOwnership'
<1> USE DEF Typed, BufferOwnership
<1>1. /\ state[s] = "RELEASING" /\ binding[s] # None
      /\ buffer' = [buffer EXCEPT ![binding[s]] = "RELEASED"]
      /\ binding' = [binding EXCEPT ![s] = None]
      /\ UNCHANGED <<state, hand, spc>>
    BY DEF DropBuffer, Releasing, service
<1>2. binding[s] \in Buffers
    BY <1>1
<1>3. /\ \A t \in Slots : t # s => binding'[t] = binding[t]
      /\ binding'[s] = None
      /\ \A c \in Buffers : buffer'[c] = IF c = binding[s] THEN "RELEASED" ELSE buffer[c]
    BY <1>1, <1>2
<1>4. \A b \in Buffers : (\E t \in Slots : binding'[t] = b) <=>
          (b # binding[s] /\ \E t \in Slots : binding[t] = b)
    <2> HIDE DEF Typed, BufferOwnership
    <2> QED BY <1>2, <1>3, Unbound
<1> QED BY <1>1, <1>2, <1>3, <1>4, CreditsAssumption

\* The protocol owner and the stack keep the ownership of buffers.
LEMMA OthersBuffers ==
    ASSUME Typed, SlotOwnership, BufferOwnership, Others
    PROVE  BufferOwnership'
<1>1. CASE \E s \in Slots : DropBuffer(s)
    BY <1>1, DropBuffers
<1> USE DEF Typed, BufferOwnership
<1>2. CASE Take \/ try_take_credit \/ Refuse \/ DropAdmission \/ ProtocolReturnCredit
             \/ Adopt \/ return_credit
    <2>1. UNCHANGED <<buffer, state, binding, spc, hand>>
        BY <1>2 DEF Take, try_take_credit, Refuse, DropAdmission, ProtocolReturnCredit,
                    Adopt, return_credit, service
    <2> QED BY <2>1
<1>3. CASE DropLease \/ republish \/ claim_network \/ Reject
    <2>1. /\ UNCHANGED <<buffer, binding, spc, hand>>
          /\ \E x \in SlotStates \ {"FREE"} : state' = [state EXCEPT ![frame] = x]
        BY <1>3, Zenon DEF DropLease, republish, claim_network, Reject, BeginRelease, SlotStates,
                    service
    <2>2. state[frame] \in {"RADIO", "READY", "NETWORK"}
        BY <1>3, Zenon DEF DropLease, republish, claim_network, Reject, SlotOwnership, SlotsAreOwned
    <2>3. /\ \A s \in Slots : s # frame => state'[s] = state[s]
          /\ state'[frame] # "FREE" /\ binding[frame] # None
        BY <2>1, <2>2
    <2> QED BY <2>1, <2>3
<1>4. CASE ProtocolPublishFree \/ \E s \in Slots : StackPublishFree(s)
    <2>1. PICK s \in Slots : PublishFree(s)
        BY <1>4 DEF ProtocolPublishFree, StackPublishFree
    <2>2. /\ binding[s] = None /\ state' = [state EXCEPT ![s] = "FREE"]
          /\ UNCHANGED <<buffer, binding, spc, hand>>
        BY <2>1 DEF PublishFree, Released
    <2>3. \A t \in Slots : state'[t] = IF t = s THEN "FREE" ELSE state[t]
        BY <2>2
    <2> QED BY <2>2, <2>3
<1>5. CASE \E s \in Slots : DropPacket(s)
    <2>1. PICK s \in Slots : DropPacket(s)
        BY <1>5
    <2>2. /\ state' = [state EXCEPT ![s] = "RELEASING"]
          /\ UNCHANGED <<buffer, binding, spc, hand>>
        BY <2>1 DEF DropPacket, BeginRelease, service
    <2>3. \A t \in Slots : state'[t] = IF t = s THEN "RELEASING" ELSE state[t]
        BY <2>2
    <2> QED BY <2>2, <2>3
<1> QED BY <1>1, <1>2, <1>3, <1>4, <1>5, Zenon
        DEF Others, Protocol, StackRelease, ProtocolDropBuffer, StackDropBuffer

\* Every step keeps the ownership of buffers.
LEMMA NextBuffers ==
    Typed /\ SlotOwnership /\ BufferOwnership /\ [Next]_vars => BufferOwnership'
<1> SUFFICES ASSUME Typed, SlotOwnership, BufferOwnership, [Next]_vars
             PROVE  BufferOwnership'
    OBVIOUS
<1>1. CASE UNCHANGED vars
    BY <1>1 DEF BufferOwnership, vars, service
<1> QED BY <1>1, ServiceBuffers, OthersBuffers DEF Next, Others

-----------------------------------------------------------------------------
(* The service's cached credits.                                            *)

\* The service holds no credits at first.
LEMMA InitViews == Init => CreditViews
BY DEF Init, CreditViews

\* Nobody but the service takes a free slot or a queue entry.
LEMMA OthersFree ==
    ASSUME Typed, SlotOwnership, Others
    PROVE  /\ UNCHANGED service
           /\ FreeSlots \subseteq FreeSlots'
           /\ Len(staged') <= Len(staged)
<1> USE DEF Typed
<1>1. UNCHANGED service
    BY Zenon DEF Others, Protocol, Take, try_take_credit, Refuse, DropLease, DropAdmission,
           republish, claim_network, Adopt, Reject, ProtocolDropBuffer, DropBuffer,
           ProtocolPublishFree, PublishFree, ProtocolReturnCredit, DropPacket,
           StackRelease, StackDropBuffer, StackPublishFree, return_credit, service
<1>2. Len(staged') <= Len(staged)
    <2>1. staged' = staged \/ (staged # <<>> /\ staged' = Tail(staged))
        BY Zenon DEF Others, Protocol, Take, try_take_credit, Refuse, DropLease, DropAdmission,
               republish, claim_network, Adopt, Reject, ProtocolDropBuffer, DropBuffer,
               ProtocolPublishFree, PublishFree, ProtocolReturnCredit, DropPacket,
               StackRelease, StackDropBuffer, StackPublishFree, return_credit
    <2> QED BY <2>1
<1>3. \A s \in Slots : state[s] = "FREE" => state'[s] = "FREE"
    <2>1. CASE Take \/ try_take_credit \/ Refuse \/ DropAdmission \/ ProtocolReturnCredit
                 \/ Adopt \/ return_credit \/ \E s \in Slots : DropBuffer(s)
        BY <2>1, Zenon DEF Take, try_take_credit, Refuse, DropAdmission, ProtocolReturnCredit,
                    Adopt, return_credit, DropBuffer
    <2>2. CASE DropLease \/ republish \/ claim_network \/ Reject
        <3>1. \E x \in SlotStates : state' = [state EXCEPT ![frame] = x]
            BY <2>2 DEF DropLease, republish, claim_network, Reject, BeginRelease, SlotStates
        <3>2. state[frame] # "FREE"
            BY <2>2, Zenon DEF DropLease, republish, claim_network, Reject, SlotOwnership, SlotsAreOwned
        <3> QED BY <3>1, <3>2
    <2>3. CASE ProtocolPublishFree \/ \E s \in Slots : StackPublishFree(s)
        BY <2>3 DEF ProtocolPublishFree, StackPublishFree, PublishFree
    <2>4. CASE \E s \in Slots : DropPacket(s)
        BY <2>4, Zenon DEF DropPacket, BeginRelease, SlotOwnership, SlotsAreOwned
    <2> QED BY <2>1, <2>2, <2>3, <2>4
            DEF Others, Protocol, StackRelease, ProtocolDropBuffer, StackDropBuffer
<1> QED BY <1>1, <1>2, <1>3 DEF FreeSlots

\* So the free slots only grow between two looks of the service.
LEMMA AvailableGrows ==
    ASSUME FreeSlots \subseteq FreeSlots'
    PROVE  available_slots <= available_slots'
<1>1. /\ available_slots = Cardinality(FreeSlots) /\ available_slots' = Cardinality(FreeSlots')
      /\ FreeSlots' \subseteq Slots
    BY DEF available_slots, FreeSlots
<1>2. IsFiniteSet(FreeSlots')
    BY <1>1, SlotSets
<1> QED BY <1>1, <1>2, FS_Subset

\* Other threads only return slots, so the service's views stay lower bounds.
LEMMA OthersViews ==
    ASSUME Typed, Typed', SlotOwnership, CreditViews, Others
    PROVE  CreditViews'
<1>1. /\ UNCHANGED <<next_claim, spc, distance, poolCredits, queueCredits>>
      /\ FreeSlots \subseteq FreeSlots' /\ Len(staged') <= Len(staged)
    BY OthersFree DEF service
<1>2. /\ available_slots <= available_slots' /\ available_slots \in Nat
      /\ available_slots' \in Nat
    <2>1. available_slots' \in Nat
        <3>1. available_slots' = Cardinality(FreeSlots') /\ FreeSlots' \subseteq Slots
            BY DEF available_slots, FreeSlots
        <3> QED BY <3>1, SlotSets
    <2> QED BY <1>1, <2>1, AvailableGrows, AvailableType
<1>3. free_capacity <= free_capacity' /\ free_capacity \in Nat /\ free_capacity' \in Nat
    BY <1>1, CreditsAssumption DEF free_capacity, Typed
<1>4. FreeAhead => FreeAhead'
    <2>1. \A d \in Slots : (next_claim + d) % SLOTS \in Slots
        <3>1. PICK n \in Nat : n = next_claim
            BY DEF Typed, Slots
        <3>2. PICK m \in Nat \ {0} : m = SLOTS /\ Slots = 0..(m - 1)
            BY SlotZero DEF Slots
        <3>3. \A d \in Nat : (n + d) % m \in 0..(m - 1)
            OBVIOUS
        <3>4. \A d \in 0..(m - 1) : d \in Nat
            OBVIOUS
        <3> QED BY <3>1, <3>2, <3>3, <3>4, Zenon
    <2>2. \A s \in Slots : state[s] = "FREE" => state'[s] = "FREE"
        BY <1>1 DEF FreeSlots
    <2> QED BY <1>1, <2>1, <2>2 DEF FreeAhead
<1> HIDE DEF available_slots, free_capacity
<1>5. /\ poolCredits <= available_slots => poolCredits' <= available_slots'
      /\ poolCredits - 1 <= available_slots => poolCredits' - 1 <= available_slots'
      /\ queueCredits <= free_capacity => queueCredits' <= free_capacity'
    <2>1. /\ poolCredits \in Nat /\ poolCredits' = poolCredits
          /\ queueCredits \in Nat /\ queueCredits' = queueCredits
        BY <1>1 DEF Typed
    <2>2. poolCredits <= available_slots => poolCredits <= available_slots'
        BY <1>2, <2>1
    <2>3. poolCredits - 1 <= available_slots => poolCredits - 1 <= available_slots'
        BY <1>2, <2>1
    <2>4. queueCredits <= free_capacity => queueCredits <= free_capacity'
        BY <1>3, <2>1
    <2> QED BY <2>1, <2>2, <2>3, <2>4
<1> QED BY <1>1, <1>4, <1>5 DEF CreditViews

\* From anywhere in the pool the scan meets every slot.
LEMMA ScanMeets ==
    ASSUME NEW start \in Slots, NEW s \in Slots
    PROVE  \E d \in Slots : (start + d) % SLOTS = s
<1>1. CASE start <= s
    <2>1. s - start \in Slots /\ (start + (s - start)) = s /\ s % SLOTS = s
        BY <1>1, SlotZero DEF Slots
    <2> QED BY <2>1
<1>2. CASE start > s
    <2>1. s + SLOTS - start \in Slots /\ start + (s + SLOTS - start) = s + SLOTS
          /\ (s + SLOTS) % SLOTS = s
        BY <1>2, SlotZero DEF Slots
    <2> QED BY <2>1
<1> QED BY <1>1, <1>2 DEF Slots

\* Every step of the service keeps its views below what is there, and its
\* scan finds a slot (service.rs:159, pool.rs:143).
LEMMA ServiceViews ==
    ASSUME Typed, Typed', CreditViews, Service
    PROVE  CreditViews'
<1> USE DEF Typed
<1>0. /\ available_slots \in Nat /\ free_capacity \in Nat
      /\ available_slots = Cardinality(FreeSlots)
    BY AvailableType, CreditsAssumption DEF free_capacity
<1>1. CASE \E b \in Buffers : recycle_released(b)
    BY <1>1, Zenon DEF recycle_released, service, CreditViews, available_slots, free_capacity, FreeAhead
<1>2. CASE SamplePool \/ SampleQueue \/ Refresh \/ Discard \/ EndService
    <2>1. UNCHANGED <<state, staged, next_claim, distance>>
        BY <1>2 DEF SamplePool, SampleQueue, Refresh, Discard, EndService
    <2>2. available_slots' = available_slots /\ free_capacity' = free_capacity
        BY <2>1, Zenon DEF available_slots, free_capacity
    <2> HIDE DEF available_slots, free_capacity
    <2>3. CASE SamplePool
        BY <1>0, <2>2, <2>3 DEF SamplePool, CreditViews
    <2>4. CASE SampleQueue
        BY <1>0, <2>2, <2>4 DEF SampleQueue, CreditViews
    <2>5. CASE Refresh
        <3>1. CASE AtReserve
            BY <1>0, <2>2, <2>5, <3>1 DEF Refresh, CreditViews
        <3>2. CASE ~AtReserve
            BY <1>0, <2>2, <2>5, <3>2 DEF Refresh, CreditViews
        <3> QED BY <3>1, <3>2
    <2>6. CASE Discard
        BY <1>0, <2>2, <2>6 DEF Discard, CreditViews
    <2>7. CASE EndService
        BY <1>0, <2>2, <2>7 DEF EndService, CreditViews
    <2> QED BY <1>2, <2>3, <2>4, <2>5, <2>6, <2>7
<1>3. CASE \E b \in Buffers, class \in Classes : detach_single(b, class)
    <2>1. PICK b \in Buffers, class \in Classes : detach_single(b, class)
        BY <1>3
    <2>2. /\ spc = "admit" /\ spc' = "claim" /\ distance' = 0 /\ Admissible(class)
          /\ UNCHANGED <<state, next_claim, poolCredits, queueCredits, staged>>
        BY <2>1 DEF detach_single
    <2>3. available_slots' = available_slots /\ free_capacity' = free_capacity
        BY <2>2, Zenon DEF available_slots, free_capacity
    <2>4. poolCredits >= 1 /\ queueCredits >= 1
        BY <2>2, CreditsAssumption DEF Admissible, credits
    <2>5. poolCredits <= available_slots /\ queueCredits <= free_capacity
        BY <2>2 DEF CreditViews
    <2>6. FreeSlots # {}
        <3>1. Cardinality(FreeSlots) # 0
            BY <1>0, <2>4, <2>5
        <3> QED BY <3>1, FS_EmptySet, Zenon
    <2>7. PICK s \in Slots : state[s] = "FREE"
        BY <2>6 DEF FreeSlots
    <2>8. PICK d \in Slots : (next_claim + d) % SLOTS = s
        BY ScanMeets
    <2>9. FreeAhead'
        <3>1. d >= distance'
            BY <2>2 DEF Slots
        <3>2. state'[(next_claim' + d) % SLOTS] = "FREE"
            BY <2>2, <2>7, <2>8
        <3> QED BY <3>1, <3>2 DEF FreeAhead
    <2> HIDE DEF available_slots, free_capacity
    <2> QED BY <2>2, <2>3, <2>4, <2>5, <2>9 DEF CreditViews
<1>4. CASE try_claim_radio
    <2> DEFINE i == (next_claim + distance) % SLOTS
    <2>1. i \in Slots
        BY SlotZero DEF Slots
    <2>2. /\ spc = "claim" /\ UNCHANGED <<poolCredits, queueCredits, staged>>
          /\ poolCredits <= available_slots /\ queueCredits <= free_capacity
          /\ poolCredits >= 1 /\ queueCredits >= 1 /\ FreeAhead
        BY <1>4 DEF try_claim_radio, CreditViews
    <2>3. free_capacity' = free_capacity
        BY <2>2 DEF free_capacity
    <2>4. CASE state[i] = "FREE"
        <3>1. state' = [state EXCEPT ![i] = "RADIO"] /\ spc' = "send"
            BY <1>4, <2>4 DEF try_claim_radio
        <3> HIDE DEF i
        <3>2. FreeSlots' = FreeSlots \ {i} /\ i \in FreeSlots
            BY <2>1, <2>4, <3>1 DEF FreeSlots
        <3>3. IsFiniteSet(FreeSlots)
            BY AvailableType, SlotSets
        <3>4. Cardinality(FreeSlots') = Cardinality(FreeSlots) - 1
            BY <3>2, <3>3, FS_RemoveElement, Zenon
        <3>5. available_slots' = available_slots - 1
            BY <1>0, <3>4 DEF available_slots, FreeSlots
        <3> HIDE DEF available_slots, free_capacity
        <3>6. poolCredits' - 1 <= available_slots' /\ queueCredits' <= free_capacity'
            BY <1>0, <2>2, <2>3, <3>5
        <3> QED BY <2>2, <3>1, <3>6, Zenon DEF CreditViews
    <2>5. CASE state[i] # "FREE"
        <3>1. PICK d \in Slots : d >= distance /\ state[(next_claim + d) % SLOTS] = "FREE"
            BY <2>2 DEF FreeAhead
        <3>2. d # distance
            BY <2>5, <3>1
        <3> HIDE DEF i
        <3>6. distance # SLOTS - 1 /\ d >= distance + 1
            <4>1. d \in 0..(SLOTS - 1) /\ distance \in 0..(SLOTS - 1) /\ SLOTS \in Nat
                BY SlotZero DEF Slots
            <4> HIDE DEF Typed
            <4> QED BY <3>1, <3>2, <4>1
        <3>3. /\ UNCHANGED <<state, next_claim>> /\ spc' = "claim"
              /\ distance' = distance + 1
            BY <1>4, <2>5, <3>6 DEF try_claim_radio, i
        <3>4. FreeAhead'
            <4>1. d >= distance' /\ state'[(next_claim' + d) % SLOTS] = "FREE"
                BY <3>1, <3>3, <3>6
            <4> QED BY <4>1 DEF FreeAhead
        <3>5. available_slots' = available_slots
            BY <3>3 DEF available_slots
        <3> HIDE DEF available_slots, free_capacity
        <3> QED BY <2>2, <2>3, <3>3, <3>4, <3>5 DEF CreditViews
    <2> QED BY <2>4, <2>5
<1>5. CASE try_send
    <2>1. /\ spc = "send" /\ poolCredits - 1 <= available_slots
          /\ queueCredits <= free_capacity /\ poolCredits >= 1 /\ queueCredits >= 1
        BY <1>5 DEF try_send, CreditViews
    <2>2. Len(staged) < DEPTH
        BY <2>1, CreditsAssumption DEF free_capacity
    <2>3. /\ staged' = Append(staged, hand.slot) /\ spc' = "loop" /\ state' = state
          /\ poolCredits' = poolCredits - 1 /\ queueCredits' = queueCredits - 1
        BY <1>5, <2>1, <2>2 DEF try_send
    <2>4. hand.slot \in Slots
        BY DEF Hands
    <2>5. Len(staged') = Len(staged) + 1
        BY <2>3, <2>4
    <2>6. available_slots' = available_slots /\ free_capacity' = free_capacity - 1
        BY <2>3, <2>5, CreditsAssumption DEF available_slots, free_capacity
    <2> HIDE DEF available_slots, free_capacity
    <2> QED BY <1>0, <2>1, <2>3, <2>6 DEF CreditViews
<1> QED BY <1>1, <1>2, <1>3, <1>4, <1>5 DEF Service

\* Every step keeps the service's views lower bounds.
LEMMA NextViews ==
    Typed /\ Typed' /\ SlotOwnership /\ CreditViews /\ [Next]_vars => CreditViews'
<1> SUFFICES ASSUME Typed, Typed', SlotOwnership, CreditViews, [Next]_vars
             PROVE  CreditViews'
    OBVIOUS
<1>1. CASE UNCHANGED vars
    BY <1>1 DEF CreditViews, available_slots, free_capacity, FreeAhead, vars, service
<1> QED BY <1>1, ServiceViews, OthersViews DEF Next, Others

-----------------------------------------------------------------------------
(* The network's credits.                                                   *)

\* The network holds nothing at first.
LEMMA InitAccount == Init => CreditAccount
<1> SUFFICES ASSUME Init PROVE CreditAccount
    OBVIOUS
<1>1. NetworkSlots = {} /\ InHand = 0
    BY DEF Init, NetworkSlots, InHand
<1>2. Cardinality(NetworkSlots) = 0
    BY <1>1, FS_EmptySet
<1> QED BY <1>1, <1>2, CreditsAssumption DEF Init, CreditAccount, cap

\* The network's slots are finitely many.
LEMMA NetworkSlotsType ==
    ASSUME Typed
    PROVE  IsFiniteSet(NetworkSlots) /\ Cardinality(NetworkSlots) \in Nat
<1>1. NetworkSlots \subseteq Slots
    BY DEF Typed, NetworkSlots
<1> QED BY <1>1, SlotSets

\* Steps that neither move a slot into or out of the network nor a credit.
LEMMA SameAccount ==
    ASSUME CreditAccount, NetworkSlots' = NetworkSlots, InHand' = InHand,
           UNCHANGED <<owed, held>>
    PROVE  CreditAccount'
BY DEF CreditAccount, cap

\* The service moves slots between free and radio only.
LEMMA ServiceAccount ==
    ASSUME Typed, SlotOwnership, CreditAccount, Service
    PROVE  CreditAccount'
<1>1. UNCHANGED <<ppc, adopted, dropping, owed, held>>
    BY Zenon DEF Service, recycle_released, SamplePool, SampleQueue, Refresh, Discard,
           EndService, detach_single, try_claim_radio, try_send, network
<1>2. InHand' = InHand
    BY <1>1 DEF InHand
<1>3. \A s \in Slots : state'[s] = "NETWORK" <=> state[s] = "NETWORK"
    <2>1. CASE try_claim_radio
        <3> DEFINE i == (next_claim + distance) % SLOTS
        <3>1. i \in Slots
            BY SlotZero DEF Typed, Slots
        <3>2. state' = state \/ (state[i] = "FREE" /\ state' = [state EXCEPT ![i] = "RADIO"])
            BY <2>1 DEF try_claim_radio
        <3> HIDE DEF i
        <3> QED BY <3>1, <3>2 DEF Typed
    <2>2. CASE try_send
        <3>1. hand.slot \in Slots /\ state[hand.slot] = "RADIO"
            BY <2>2 DEF try_send, Typed, Hands, SlotOwnership, SlotsAreOwned
        <3>2. state' = state \/ state' = [state EXCEPT ![hand.slot] = "FREE"]
            BY <2>2 DEF try_send
        <3> QED BY <3>1, <3>2 DEF Typed
    <2>3. CASE ~try_claim_radio /\ ~try_send
        BY <2>3, Zenon DEF Service, recycle_released, SamplePool, SampleQueue, Refresh, Discard,
                    EndService, detach_single
    <2> QED BY <2>1, <2>2, <2>3
<1>4. NetworkSlots' = NetworkSlots
    BY <1>1, <1>3 DEF NetworkSlots
<1> QED BY <1>1, <1>2, <1>4, SameAccount

\* A credit is taken before its slot enters the network and returned after
\* the slot has left it.
LEMMA OthersAccount ==
    ASSUME Typed, SlotOwnership, CreditAccount, Others
    PROVE  CreditAccount'
<1>0. /\ IsFiniteSet(NetworkSlots) /\ Cardinality(NetworkSlots) \in Nat
      /\ owed \in Nat /\ held \in Int /\ cap \in Nat /\ InHand \in {0, 1}
    BY NetworkSlotsType, CreditsAssumption DEF Typed, cap, InHand
<1>a. held = Cardinality(NetworkSlots) + owed + InHand /\ held <= cap
    BY DEF CreditAccount
<1>1. CASE Take \/ Refuse \/ Adopt
    <2>1. UNCHANGED <<state, dropping, owed, held>> /\ InHand' = InHand
        BY <1>1 DEF Take, Refuse, Adopt, network, InHand
    <2>2. NetworkSlots' = NetworkSlots
        BY <2>1 DEF NetworkSlots
    <2> QED BY <2>1, <2>2, SameAccount
<1>2. CASE try_take_credit
    <2>1. /\ UNCHANGED <<state, dropping, owed>> /\ held' = held + 1 /\ held < cap
          /\ InHand' = 1 /\ InHand = 0
        BY <1>2 DEF try_take_credit, network, InHand
    <2>2. NetworkSlots' = NetworkSlots
        BY <2>1 DEF NetworkSlots
    <2> QED BY <1>0, <1>a, <2>1, <2>2 DEF CreditAccount, cap
<1>3. CASE DropAdmission \/ ProtocolReturnCredit
    <2>1. /\ UNCHANGED <<state, dropping, owed>> /\ held' = held - 1
          /\ InHand' = 0 /\ InHand = 1
        BY <1>3 DEF DropAdmission, ProtocolReturnCredit, network, InHand
    <2>2. NetworkSlots' = NetworkSlots
        BY <2>1 DEF NetworkSlots
    <2> QED BY <1>0, <1>a, <2>1, <2>2 DEF CreditAccount, cap
<1>4. CASE DropLease
    <2>1. /\ state' = [state EXCEPT ![frame] = "RELEASING"] /\ state[frame] = "RADIO"
          /\ UNCHANGED <<dropping, owed, held>> /\ InHand' = InHand
        BY <1>4 DEF DropLease, BeginRelease, network, InHand, SlotOwnership, SlotsAreOwned
    <2>2. NetworkSlots' = NetworkSlots
        BY <2>1 DEF NetworkSlots, Typed
    <2> QED BY <2>1, <2>2, SameAccount
<1>5. CASE republish
    <2>1. /\ state' = [state EXCEPT ![frame] = "READY"] /\ state[frame] = "RADIO"
          /\ UNCHANGED <<dropping, owed, held>> /\ InHand' = InHand
        BY <1>5, Zenon DEF republish, network, InHand, SlotOwnership, SlotsAreOwned
    <2>2. NetworkSlots' = NetworkSlots
        BY <2>1 DEF NetworkSlots, Typed
    <2> QED BY <2>1, <2>2, SameAccount
<1>6. CASE claim_network
    <2>1. /\ state' = [state EXCEPT ![frame] = "NETWORK"] /\ state[frame] = "READY"
          /\ UNCHANGED <<dropping, owed, held>> /\ InHand' = 0 /\ InHand = 1
        BY <1>6 DEF claim_network, network, InHand
    <2>2. NetworkSlots' = NetworkSlots \union {frame} /\ frame \notin NetworkSlots
        BY <2>1, Zenon DEF NetworkSlots, Typed, SlotOwnership, SlotsAreOwned
    <2>3. Cardinality(NetworkSlots') = Cardinality(NetworkSlots) + 1
        BY <1>0, <2>2, FS_AddElement
    <2> QED BY <1>0, <1>a, <2>1, <2>3 DEF CreditAccount, cap
<1>7. CASE Reject
    <2>1. /\ state' = [state EXCEPT ![frame] = "RELEASING"] /\ state[frame] = "NETWORK"
          /\ UNCHANGED <<dropping, owed, held>> /\ InHand' = 1 /\ InHand = 0
        BY <1>7 DEF Reject, BeginRelease, network, InHand, SlotOwnership, SlotsAreOwned
    <2>2. NetworkSlots' = NetworkSlots \ {frame} /\ frame \in NetworkSlots
        BY <2>1, Zenon DEF NetworkSlots, Typed, SlotOwnership, SlotsAreOwned
    <2>3. Cardinality(NetworkSlots') = Cardinality(NetworkSlots) - 1
        BY <1>0, <2>2, FS_RemoveElement
    <2> QED BY <1>0, <1>a, <2>1, <2>3 DEF CreditAccount, cap
<1>8. CASE \E s \in Slots : DropBuffer(s)
    <2>1. UNCHANGED <<state, dropping, owed, held>> /\ InHand' = InHand
        BY <1>8 DEF DropBuffer, network, InHand
    <2>2. NetworkSlots' = NetworkSlots
        BY <2>1 DEF NetworkSlots
    <2> QED BY <2>1, <2>2, SameAccount
<1>9. CASE ProtocolPublishFree
    <2>1. /\ state' = [state EXCEPT ![frame] = "FREE"] /\ state[frame] = "RELEASING"
          /\ UNCHANGED <<dropping, owed, held>>
        BY <1>9 DEF ProtocolPublishFree, PublishFree, Released, network
    <2>2. InHand' = InHand
        <3>1. CASE ppc = "credit"
            BY <1>9, <3>1 DEF ProtocolPublishFree, InHand
        <3>2. CASE ppc = "release"
            BY <1>9, <3>2 DEF ProtocolPublishFree, InHand
        <3> QED BY <1>9, <3>1, <3>2 DEF ProtocolPublishFree
    <2>3. NetworkSlots' = NetworkSlots
        BY <2>1 DEF NetworkSlots, Typed
    <2> QED BY <2>1, <2>2, <2>3, SameAccount
<1>10. CASE \E s \in Slots : DropPacket(s)
    <2>1. PICK s \in Slots : DropPacket(s)
        BY <1>10
    <2>2. /\ state' = [state EXCEPT ![s] = "RELEASING"] /\ state[s] = "NETWORK"
          /\ dropping' = dropping \union {s}
          /\ UNCHANGED <<ppc, owed, held>>
        BY <2>1, Zenon DEF DropPacket, BeginRelease, SlotOwnership, SlotsAreOwned
    <2>3. NetworkSlots' = NetworkSlots
        BY <2>2 DEF NetworkSlots, Typed
    <2>4. InHand' = InHand
        BY <2>2 DEF InHand
    <2> QED BY <2>2, <2>3, <2>4, SameAccount
<1>11. CASE \E s \in Slots : StackPublishFree(s)
    <2>1. PICK s \in Slots : StackPublishFree(s)
        BY <1>11
    <2>2. /\ state' = [state EXCEPT ![s] = "FREE"] /\ state[s] = "RELEASING"
          /\ s \in dropping /\ dropping' = dropping \ {s} /\ owed' = owed + 1
          /\ UNCHANGED <<ppc, held>>
        BY <2>1 DEF StackPublishFree, PublishFree, Released
    <2>3. NetworkSlots' = NetworkSlots \ {s} /\ s \in NetworkSlots
        BY <2>2 DEF NetworkSlots, Typed
    <2>4. Cardinality(NetworkSlots') = Cardinality(NetworkSlots) - 1
        BY <1>0, <2>3, FS_RemoveElement
    <2>5. InHand' = InHand
        BY <2>2 DEF InHand
    <2> QED BY <1>0, <1>a, <2>2, <2>4, <2>5 DEF CreditAccount, cap
<1>12. CASE return_credit
    <2>1. /\ UNCHANGED <<state, dropping, ppc>> /\ owed' = owed - 1 /\ held' = held - 1
        BY <1>12 DEF return_credit
    <2>2. NetworkSlots' = NetworkSlots /\ InHand' = InHand
        BY <2>1 DEF NetworkSlots, InHand
    <2> QED BY <1>0, <1>a, <2>1, <2>2 DEF CreditAccount, cap
<1> QED BY <1>1, <1>2, <1>3, <1>4, <1>5, <1>6, <1>7, <1>8, <1>9, <1>10, <1>11, <1>12
        DEF Typed, Others, Protocol, StackRelease, ProtocolDropBuffer, StackDropBuffer

\* Every step keeps the account of credits.
LEMMA NextAccount ==
    Typed /\ SlotOwnership /\ CreditAccount /\ [Next]_vars => CreditAccount'
<1> SUFFICES ASSUME Typed, SlotOwnership, CreditAccount, [Next]_vars
             PROVE  CreditAccount'
    OBVIOUS
<1>1. CASE UNCHANGED vars
    <2>1. NetworkSlots' = NetworkSlots /\ InHand' = InHand /\ UNCHANGED <<owed, held>>
        BY <1>1 DEF NetworkSlots, InHand, vars, network
    <2> QED BY <2>1, SameAccount
<1> QED BY <1>1, ServiceAccount, OthersAccount DEF Next, Others

-----------------------------------------------------------------------------
(* The theorems.                                                            *)

\* The parts of the invariant are kept together.
LEMMA PathInvariance == Spec => []PathInv
<1>1. Init => PathInv
    BY InitTyped, InitSlots, InitBuffers, InitViews, InitAccount DEF PathInv
<1>2. PathInv /\ [Next]_vars => PathInv'
    BY NextTyped, NextSlots, NextBuffers, NextViews, NextAccount DEF PathInv
<1> QED BY <1>1, <1>2, PTL DEF Spec

\* At most SLOTS buffers are detached: each has a slot of its own, and for the
\* one in the service's hand there is a free one.
LEMMA DetachedFit ==
    ASSUME PathInv
    PROVE  Cardinality({b \in Buffers : buffer[b] = "DETACHED"}) <= SLOTS
<1> DEFINE D == {b \in Buffers : buffer[b] = "DETACHED"}
           Fits(b, s) == binding[s] = b \/ (hand.buffer = b /\ state[s] = "FREE")
           place == [b \in D |-> CHOOSE s \in Slots : Fits(b, s)]
<1>1. spc = "claim" => \E s \in Slots : state[s] = "FREE"
    <2>1. \A d \in Slots : (next_claim + d) % SLOTS \in Slots
        BY SlotZero DEF PathInv, Typed, Slots
    <2> QED BY <2>1 DEF PathInv, CreditViews, FreeAhead
<1>2. \A b \in D : \E s \in Slots : Fits(b, s)
    BY <1>1, CreditsAssumption DEF PathInv, BufferOwnership
<1>3. \A b \in D : place[b] \in Slots /\ Fits(b, place[b])
    BY <1>2
<1> HIDE DEF place
<1>4. \A a, b \in D : place[a] = place[b] => a = b
    <2> SUFFICES ASSUME NEW a \in D, NEW b \in D, place[a] = place[b] PROVE a = b
        OBVIOUS
    <2>1. Fits(a, place[a]) /\ Fits(b, place[a]) /\ place[a] \in Slots
        BY <1>3
    <2>2. a # None /\ b # None
        BY CreditsAssumption
    <2> QED BY <2>1, <2>2 DEF PathInv, BufferOwnership
<1>5. place \in Injection(D, Slots)
    <2>1. place \in [D -> Slots]
        <3>1. place = [b \in D |-> place[b]]
            BY DEF place
        <3> QED BY <1>3, <3>1
    <2> QED BY <1>4, <2>1 DEF Injection, IsInjective
<1>6. IsFiniteSet(Slots) /\ Cardinality(Slots) = SLOTS
    BY FS_Interval, SlotZero DEF Slots
<1>7. Cardinality(D) <= Cardinality(Slots)
    <2> HIDE DEF D
    <2> QED BY <1>5, <1>6, FS_Injection
<1> QED BY <1>6, <1>7

\* One owner for every buffer and every slot, whatever the numbers of buffers
\* and slots and the depth of the queue: each release finds its buffer
\* detached, each asserted exchange its slot (rx_storage.rs:241,
\* rx_external_handoff.rs:215, :224, :288).
THEOREM Ownership == Spec => []OneOwner
<1>1. ASSUME PathInv PROVE OneOwner
    <2>1. SlotsAreOwned
        BY <1>1 DEF PathInv, SlotOwnership
    <2>2. ASSUME NEW b \in Buffers
          PROVE  Cardinality(Holders(b)) + (IF hand.buffer = b THEN 1 ELSE 0)
                   = (IF buffer[b] = "DETACHED" THEN 1 ELSE 0)
        <3> USE <1>1 DEF PathInv
        <3>0. b # None
            BY CreditsAssumption
        <3>1. CASE \E s \in Slots : binding[s] = b
            <4>1. PICK s \in Slots : binding[s] = b
                BY <3>1
            <4>2. Holders(b) = {s}
                BY <3>0, <4>1, Zenon DEF BufferOwnership, Holders
            <4>3. Cardinality(Holders(b)) = 1
                BY <4>2, FS_Singleton
            <4>4. hand.buffer # b /\ buffer[b] = "DETACHED"
                BY <3>0, <4>1 DEF BufferOwnership
            <4> QED BY <4>3, <4>4
        <3>2. CASE ~\E s \in Slots : binding[s] = b
            <4>1. Holders(b) = {}
                BY <3>2 DEF Holders
            <4>2. Cardinality(Holders(b)) = 0
                BY <4>1, FS_EmptySet
            <4>3. hand.buffer = b <=> buffer[b] = "DETACHED"
                BY <3>2 DEF BufferOwnership
            <4> QED BY <4>2, <4>3
        <3> QED BY <3>1, <3>2
    <2>3. BuffersAreOwned
        BY <1>1, <2>2, DetachedFit DEF BuffersAreOwned
    <2> QED BY <2>1, <2>3 DEF OneOwner
<1> QED BY <1>1, PathInvariance, PTL

\* Every credit is accounted for, and the network never holds more slots than
\* its share, whatever its capacity (external_rx.rs:225).
THEOREM ExactCredits == Spec => []CreditsAreExact
<1>1. ASSUME PathInv PROVE CreditsAreExact
    <2>1. /\ held = Cardinality(NetworkSlots) + owed + InHand /\ held <= cap
          /\ owed \in Nat /\ InHand \in Nat /\ Cardinality(NetworkSlots) \in Nat
          /\ cap \in Int
        <3>1. Typed /\ CreditAccount
            BY <1>1 DEF PathInv
        <3>2. owed \in Nat /\ InHand \in Nat
            BY <3>1 DEF Typed, InHand
        <3>3. cap \in Int
            BY CreditsAssumption DEF cap
        <3> QED BY <3>1, <3>2, <3>3, NetworkSlotsType DEF CreditAccount
    <2> HIDE DEF NetworkSlots, InHand, cap
    <2> QED BY <2>1 DEF CreditsAreExact
<1> QED BY <1>1, PathInvariance, PTL

\* The service's cached credits never overestimate: no transaction fails for
\* lack of a slot or of queue space, and no bulk unit takes a reserved one,
\* for every admission policy CreditPolicy::validate accepts (service.rs:159,
\* :187).
THEOREM CachedCredits == Spec => CachedCreditsAreSafe
<1>1. ASSUME PathInv, PathInv', [Next]_vars, ~UNCHANGED vars
      PROVE  /\ spc' # "failed"
             /\ spc = "admit" /\ spc' = "claim" /\ hand'.class = "bulk" =>
                   available_slots > RESERVED /\ free_capacity > RESERVED
    <2>1. spc' # "failed"
        BY <1>1 DEF PathInv, CreditViews
    <2>2. ASSUME spc = "admit", spc' = "claim", hand'.class = "bulk"
          PROVE  available_slots > RESERVED /\ free_capacity > RESERVED
        <3>1. ~Others
            BY <1>1, <2>2, OthersFree DEF PathInv, service
        <3>2. PICK b \in Buffers, class \in Classes : detach_single(b, class)
            BY <1>1, <2>2, <3>1
               DEF Next, Others, Service, recycle_released, SamplePool, SampleQueue, Refresh,
                   Discard, EndService, try_claim_radio, try_send, service
        <3>3. hand' = [hand EXCEPT !.buffer = b, !.class = class] /\ Admissible(class)
            BY <3>2 DEF detach_single
        <3>4. class = "bulk"
            BY <1>1, <2>2, <3>3 DEF PathInv, Typed, Hands
        <3>5. poolCredits > RESERVED /\ queueCredits > RESERVED
            BY <1>1, <3>3, <3>4, CreditsAssumption DEF Admissible, credits, PathInv, Typed
        <3>6. poolCredits <= available_slots /\ queueCredits <= free_capacity
            BY <1>1, <2>2 DEF PathInv, CreditViews
        <3>7. /\ available_slots \in Nat /\ free_capacity \in Nat /\ RESERVED \in Nat
              /\ poolCredits \in Nat /\ queueCredits \in Nat
            BY <1>1, AvailableType, CreditsAssumption DEF PathInv, Typed, free_capacity
        <3> HIDE DEF available_slots, free_capacity
        <3> QED BY <3>5, <3>6, <3>7
    <2> QED BY <2>1, <2>2
<1>2. PathInv /\ PathInv' /\ [Next]_vars =>
        [/\ spc' # "failed"
         /\ spc = "admit" /\ spc' = "claim" /\ hand'.class = "bulk" =>
               available_slots > RESERVED /\ free_capacity > RESERVED]_vars
    BY <1>1
<1> QED BY <1>2, PathInvariance, PTL DEF Spec, CachedCreditsAreSafe
-----------------------------------------------------------------------------
(* The endpoint's steps are steps of ExternalRx.                            *)

\* Every step of the publisher is a step of the protocol owner of ExternalRx,
\* or leaves its variables alone.
LEMMA PublisherIsProtocol == Publisher => Protocol \/ UNCHANGED vars
<1> SUFFICES ASSUME Publisher PROVE Protocol \/ UNCHANGED vars
    OBVIOUS
<1>1. CASE AdmitExternal \/ RefuseExternal
    BY <1>1 DEF AdmitExternal, RefuseExternal, Protocol
<1>2. CASE CopyRefused \/ RejectCopy \/ EnqueueCopy \/ PublishWakes
    BY <1>2 DEF CopyRefused, RejectCopy, EnqueueCopy, PublishWakes
<1>3. CASE SnapshotAdopted \/ \E c \in Copies : SnapshotCopy(c)
    BY <1>3, Zenon DEF SnapshotAdopted, SnapshotCopy, Snapshot
<1>4. CASE RejectAdopted \/ EnqueueAdopted
    BY <1>4 DEF RejectAdopted, EnqueueAdopted, Protocol
<1>5. CASE FinishLease \/ OtherProtocol
    BY <1>5 DEF FinishLease, OtherProtocol, Protocol
<1> QED BY <1>1, <1>2, <1>3, <1>4, <1>5 DEF Publisher

\* A packet the stack drops is a copy, which ExternalRx does not see, or a
\* slot, whose release it begins.
LEMMA DroppedIsDrop ==
    ASSUME NEW p, Dropped(p)
    PROVE  (\E s \in Slots : DropPacket(s)) \/ UNCHANGED vars
BY DEF Dropped

\* The zero-copy path with its endpoint implements the one with an arbitrary
\* endpoint, so every safety property of ExternalRx holds of the composition:
\* buffers, slots and credits are safe whatever the link does.
THEOREM Composition == EndpointSpec => Spec
<1>1. EndpointInit => Init
    BY DEF EndpointInit
<1>2. [EndpointNext]_endpointVars => [Next]_vars
    <2> SUFFICES ASSUME [EndpointNext]_endpointVars PROVE Next \/ UNCHANGED vars
        OBVIOUS
    <2>1. CASE UNCHANGED endpointVars
        BY <2>1 DEF endpointVars
    <2>2. CASE \E up \in BOOLEAN : Set(up)
        BY <2>2 DEF Set
    <2>3. CASE Publisher
        BY <2>3, PublisherIsProtocol DEF Next
    <2>4. CASE Device
        <3>1. CASE register_waker \/ Receive \/ ReceiveNone \/ Keep
            BY <3>1 DEF register_waker, Receive, ReceiveNone, Keep
        <3>2. CASE DropStale
            BY <3>2, DroppedIsDrop DEF DropStale, Next
        <3> QED BY <2>4, <3>1, <3>2 DEF Device
    <2>5. CASE \E p \in Packets : DropReceived(p)
        BY <2>5, DroppedIsDrop DEF DropReceived, Next
    <2>6. CASE (Service \/ StackRelease) /\ UNCHANGED endpointOnly
        BY <2>6 DEF Next
    <2> QED BY <2>1, <2>2, <2>3, <2>4, <2>5, <2>6 DEF EndpointNext
<1> QED BY <1>1, <1>2, PTL DEF EndpointSpec, Spec

\* What is proved of the zero-copy path holds with the endpoint on top of it:
\* a link that goes down, a full RX queue or a stale packet leave no buffer or
\* slot without its one owner and no credit unaccounted (owned.rs:253).
THEOREM EndpointOwnership == EndpointSpec => [](OneOwner /\ CreditsAreExact)
BY Composition, Ownership, ExactCredits, PTL

-----------------------------------------------------------------------------
(* Epochs name lifetimes.                                                   *)

Tagged == {entry \in Queued : entry.epoch = entry.lifetime}

\* The inductive invariant: the epoch counts the lifetimes, and so does the
\* one every packet on its way to the stack was published under.
LifetimeInv ==
    /\ link \in [up : BOOLEAN, epoch : 0..MaxLifetimes]
    /\ lifetime \in 0..MaxLifetimes /\ link.epoch = lifetime
    /\ packet \in Tagged /\ popped \in Tagged
    /\ rx \in Seq(Tagged)

\* An empty hand is tagged.
LEMMA NothingIsTagged == Nothing \in Tagged
BY EndpointAssumption DEF Nothing, Tagged, Queued

\* A packet is tagged with the epoch its publisher loaded.
LEMMA SnapshotIsTagged ==
    ASSUME LifetimeInv, NEW p \in Packets, Snapshot(p)
    PROVE  packet' \in Tagged
BY DEF LifetimeInv, Snapshot, Tagged, Queued

\* The publisher's steps keep the tags.
LEMMA PublisherLifetimeInv ==
    ASSUME LifetimeInv, Typed, Publisher PROVE LifetimeInv'
<1>1. UNCHANGED <<link, lifetime, popped>>
    BY Zenon DEF Publisher, AdmitExternal, RefuseExternal, CopyRefused, SnapshotCopy, Snapshot,
        SnapshotAdopted, RejectCopy, RejectAdopted, EnqueueCopy, EnqueueAdopted, Enqueue,
        PublishWakes, WakeNetwork, FinishLease, OtherProtocol, published, linkVars, stack
<1>2. CASE EnqueueCopy \/ EnqueueAdopted
    <2>1. packet' = Nothing /\ rx' = Append(rx, packet)
        BY <1>2 DEF EnqueueCopy, EnqueueAdopted, Enqueue
    <2>2. rx' \in Seq(Tagged)
        BY <2>1 DEF LifetimeInv
    <2> QED BY <1>1, <2>1, <2>2, NothingIsTagged DEF LifetimeInv
<1>3. CASE SnapshotAdopted \/ \E c \in Copies : SnapshotCopy(c)
    <2>1. packet' \in Tagged
        BY <1>3, SnapshotIsTagged DEF SnapshotAdopted, SnapshotCopy, Packets, Typed
    <2>2. rx' = rx
        BY <1>3, Zenon DEF SnapshotAdopted, SnapshotCopy, Snapshot, published
    <2> QED BY <1>1, <2>1, <2>2 DEF LifetimeInv
<1>4. CASE ~(EnqueueCopy \/ EnqueueAdopted \/ SnapshotAdopted
                \/ \E c \in Copies : SnapshotCopy(c))
    <2>1. rx' = rx /\ packet' \in {packet, Nothing}
        BY <1>4, Zenon DEF Publisher, AdmitExternal, RefuseExternal, CopyRefused, RejectCopy,
            RejectAdopted, PublishWakes, FinishLease, OtherProtocol, published
    <2> QED BY <1>1, <2>1, NothingIsTagged DEF LifetimeInv
<1> QED BY <1>2, <1>3, <1>4

\* Every step keeps the tags.
LEMMA NextLifetimeInv ==
    LifetimeInv /\ Typed /\ [EndpointNext]_endpointVars => LifetimeInv'
<1> SUFFICES ASSUME LifetimeInv, Typed, [EndpointNext]_endpointVars PROVE LifetimeInv'
    OBVIOUS
<1>1. CASE UNCHANGED endpointVars
    BY <1>1 DEF LifetimeInv, endpointVars, linkVars, stack
<1>2. ASSUME NEW up \in BOOLEAN, Set(up) PROVE LifetimeInv'
    <2>1. /\ link' = [up |-> up, epoch |-> NextEpoch(up)] /\ (up => lifetime < MaxLifetimes)
          /\ lifetime' = IF up THEN lifetime + 1 ELSE lifetime
          /\ UNCHANGED <<packet, popped, rx>>
        BY <1>2 DEF Set, WakeNetwork
    <2>2. lifetime' \in 0..MaxLifetimes /\ NextEpoch(up) = lifetime'
        BY <2>1, EndpointAssumption DEF LifetimeInv, NextEpoch
    <2> QED BY <1>2, <2>1, <2>2 DEF LifetimeInv
<1>3. CASE Publisher
    BY <1>3, PublisherLifetimeInv
<1>4. CASE Device
    <2>1. CASE Receive
        <3>1. Head(rx) \in Tagged /\ Tail(rx) \in Seq(Tagged)
            BY <2>1 DEF LifetimeInv, Receive
        <3> QED BY <2>1, <3>1 DEF LifetimeInv, Receive, stackOnly, linkVars
    <2>2. CASE register_waker \/ ReceiveNone \/ Keep \/ DropStale
        BY <2>2, NothingIsTagged, Zenon DEF LifetimeInv, register_waker, ReceiveNone, Keep,
            DropStale, stackOnly, linkVars
    <2> QED BY <1>4, <2>1, <2>2 DEF Device
<1>5. CASE \E p \in Packets : DropReceived(p)
    BY <1>5 DEF LifetimeInv, DropReceived, stackOnly, linkVars
<1>6. CASE (Service \/ StackRelease) /\ UNCHANGED endpointOnly
    BY <1>6 DEF LifetimeInv, endpointOnly, linkVars, stack
<1> QED BY <1>1, <1>2, <1>3, <1>4, <1>5, <1>6 DEF EndpointNext

\* The zero-copy path keeps its types.
LEMMA PathTyped == Spec => []Typed
<1>1. PathInv => Typed
    BY DEF PathInv
<1> QED BY <1>1, PathInvariance, PTL

\* Tags count lifetimes in every reachable state.
LEMMA EpochsAreLifetimes == EndpointSpec => []LifetimeInv
<1>1. EndpointInit => LifetimeInv
    BY NothingIsTagged, EndpointAssumption DEF EndpointInit, LifetimeInv
<1> QED BY <1>1, NextLifetimeInv, PathTyped, Composition, PTL DEF EndpointSpec

\* A packet published before or across a Down edge never reaches the stack of
\* the next lifetime, and one of the current lifetime is never thrown away,
\* for any pool, queue depth and number of lifetimes (OwnedNetworkDevice::
\* receive, owned.rs:253).
THEOREM LifetimesApart == EndpointSpec => LifetimesDoNotMix
<1> DEFINE Kept ==
        stask = "popped" /\ stask' = "poll" =>
            retained' = IF link.up /\ popped.lifetime = lifetime
                        THEN retained \union {popped.packet} ELSE retained
<1>1. LifetimeInv /\ [EndpointNext]_endpointVars => [Kept]_endpointVars
    <2> SUFFICES ASSUME LifetimeInv, EndpointNext, stask = "popped", stask' = "poll"
                 PROVE  retained' = IF link.up /\ popped.lifetime = lifetime
                                    THEN retained \union {popped.packet} ELSE retained
        OBVIOUS
    <2>1. Keep \/ DropStale
        BY Zenon DEF EndpointNext, Set, WakeNetwork, Publisher, AdmitExternal, RefuseExternal,
            CopyRefused, SnapshotCopy, Snapshot, SnapshotAdopted, RejectCopy, RejectAdopted,
            EnqueueCopy, EnqueueAdopted, Enqueue, PublishWakes, FinishLease, OtherProtocol,
            published, stack, Device, register_waker, Receive, ReceiveNone, DropReceived,
            endpointOnly
    <2>2. IsCurrent(popped) <=> link.up /\ popped.lifetime = lifetime
        BY DEF LifetimeInv, IsCurrent, Tagged
    <2>3. CASE Keep
        BY <2>2, <2>3 DEF Keep
    <2>4. CASE DropStale
        BY <2>2, <2>4 DEF DropStale
    <2> QED BY <2>1, <2>3, <2>4
<1> QED BY <1>1, EpochsAreLifetimes, PTL DEF EndpointSpec, LifetimesDoNotMix
=============================================================================
