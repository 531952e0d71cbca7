---------------------------- MODULE OwnedEndpoint ----------------------------
(***************************************************************************)
(* The receive side of the owned network endpoint (crates/adapters/        *)
(* embassy-net/owned/src/owned.rs) on top of the zero-copy path: the       *)
(* protocol owner publishes packets, adopted slots or copies, into the     *)
(* bounded RX queue under the epoch of the link; the stack takes them and  *)
(* drops those of another link lifetime; role code moves the link.         *)
(*                                                                         *)
(* The load of the link state, the queue operation and the wake of a       *)
(* publication are steps of their own, and so are the stack's removal of   *)
(* an entry and its load of the link state.  Channel and waker are         *)
(* external: mutexes make each of their operations atomic.  The epoch has  *)
(* 31 bits in the code; it does not wrap within MaxLifetimes.              *)
(***************************************************************************)
EXTENDS ExternalRx

CONSTANTS
    Copies,         \* packets of the RX pool frames are copied into
    RX_QUEUE_DEPTH,
    MaxLifetimes    \* bound: Down -> Up edges of the link

ASSUME EndpointAssumption ==
    /\ RX_QUEUE_DEPTH \in Nat \ {0}     \* OwnedEndpointResources::split
    /\ MaxLifetimes \in Nat
    /\ Copies \intersect (Slots \union {None}) = {}

VARIABLES
    link,       \* the level and the epoch of OwnedLinkState
    lifetime,   \* history: lifetimes of the link so far
    pool,       \* copies nobody owns
    upc,        \* the publisher's place in try_admit_external and try_publish
    packet,     \* the packet it publishes, under the epoch it loaded
    rx,         \* the RX queue
    stask,      \* the stack: "parked", "poll" or "popped"
    scheduled,  \* its task was woken
    waker,      \* network_waker holds its waker
    popped,     \* the queue entry it is looking at
    retained    \* packets it has received and not dropped

linkVars == <<link, lifetime>>
stack == <<stask, scheduled, waker, popped, retained>>
endpointVars == <<vars, linkVars, pool, upc, packet, rx, stack>>

Packets == Slots \union Copies

\* The packet's lifetime is history: the link's lifetime at the snapshot.
Queued == [packet : Packets \union {None}, epoch : 0..MaxLifetimes,
           lifetime : 0..MaxLifetimes]

Nothing == [packet |-> None, epoch |-> 0, lifetime |-> 0]

EndpointTypeOK ==
    /\ TypeOK
    /\ link \in [up : BOOLEAN, epoch : 0..MaxLifetimes]
    /\ lifetime \in 0..MaxLifetimes
    /\ pool \subseteq Copies
    /\ upc \in {"none", "snapshot", "adopted", "copied", "done"}
    /\ packet \in Queued /\ popped \in Queued
    /\ rx \in Seq(Queued) /\ Len(rx) <= RX_QUEUE_DEPTH
    /\ stask \in {"parked", "poll", "popped"}
    /\ scheduled \in BOOLEAN /\ waker \in BOOLEAN
    /\ retained \subseteq Packets

EndpointInit ==
    /\ Init
    /\ link = [up |-> FALSE, epoch |-> 0] /\ lifetime = 0
    /\ pool = Copies
    /\ upc = "none" /\ packet = Nothing /\ rx = <<>>
    /\ stask = "parked" /\ scheduled = TRUE /\ waker = FALSE
    /\ popped = Nothing /\ retained = {}

-----------------------------------------------------------------------------
(* OwnedLinkState.                                                          *)

\* network_waker.wake().
WakeNetwork ==
    /\ scheduled' = (scheduled \/ waker)
    /\ waker' = FALSE
    /\ UNCHANGED <<stask, popped, retained>>

\* An Up edge starts a new epoch.
NextEpoch(up) == IF up THEN link.epoch + 1 ELSE link.epoch

\* OwnedLinkState::set.  Its wake follows the exchange; the stack, which loads
\* the link only for an entry it took, cannot tell.
Set(up) ==
    /\ link.up # up
    /\ up => lifetime < MaxLifetimes
    /\ link' = [up |-> up, epoch |-> NextEpoch(up)]
    /\ lifetime' = IF up THEN lifetime + 1 ELSE lifetime
    /\ WakeNetwork
    /\ UNCHANGED <<vars, pool, upc, packet, rx>>

-----------------------------------------------------------------------------
(* OwnedRxPublisher, in the protocol owner of ExternalRx.                   *)

published == <<linkVars, rx, stack>>

Full == Len(rx) = RX_QUEUE_DEPTH

\* try_admit_external: the link is up, the queue has room, then the credit.
AdmitExternal ==
    /\ link.up /\ ~Full
    /\ try_take_credit
    /\ UNCHANGED <<upc, pool, packet, published>>

\* Link down, queue full or no credit: the frame is left to be copied.
RefuseExternal ==
    /\ ~link.up \/ Full \/ held >= cap
    /\ Refuse
    /\ UNCHANGED <<upc, pool, packet, published>>

\* try_publish, the load of the link state.
Snapshot(p) ==
    /\ link.up
    /\ packet' = [packet |-> p, epoch |-> link.epoch, lifetime |-> lifetime]
    /\ UNCHANGED <<vars, published>>

\* A refused frame, or one whose storage does not fit a packet, is copied into
\* a packet of the RX pool (try_send, try_send_parts).
Copying == ppc \in {"refused", "adopting"} /\ upc = "none"

SnapshotCopy(c) ==
    /\ Copying /\ c \in pool
    /\ Snapshot(c)
    /\ pool' = pool \ {c}
    /\ upc' = "snapshot"

SnapshotAdopted ==
    /\ ppc = "adopting" /\ upc = "none"
    /\ Snapshot(frame)
    /\ upc' = "snapshot"
    /\ UNCHANGED pool

\* The pool is exhausted, the length refused or the link down: no packet.
CopyRefused ==
    /\ Copying
    /\ upc' = "done"
    /\ UNCHANGED <<vars, pool, packet, published>>

\* The queue is full: the packet is dropped.
RejectCopy ==
    /\ upc = "snapshot" /\ packet.packet \in Copies /\ Full
    /\ pool' = pool \union {packet.packet}
    /\ upc' = "done" /\ packet' = Nothing
    /\ UNCHANGED <<vars, published>>

\* An adopted packet is dropped for a full queue, or a link that is down.
RejectAdopted ==
    /\ \/ upc = "none" /\ ~link.up
       \/ upc = "snapshot" /\ packet.packet \in Slots /\ Full
    /\ Reject
    /\ upc' = "none" /\ packet' = Nothing
    /\ UNCHANGED <<pool, published>>

Enqueue ==
    /\ upc = "snapshot" /\ ~Full
    /\ rx' = Append(rx, packet)
    /\ packet' = Nothing
    /\ UNCHANGED <<linkVars, pool, stack>>

EnqueueCopy ==
    /\ packet.packet \in Copies /\ Enqueue
    /\ upc' = "copied"
    /\ UNCHANGED vars

EnqueueAdopted ==
    /\ packet.packet \in Slots /\ Enqueue
    /\ Adopt
    /\ upc' = "adopted"

\* Mutant of PublishWakes: the stack is not told.
PublishSilently ==
    /\ upc \in {"adopted", "copied"}
    /\ upc' = IF upc = "copied" THEN "done" ELSE "none"
    /\ UNCHANGED <<vars, linkVars, pool, packet, rx, stack>>

PublishWakes ==
    /\ upc \in {"adopted", "copied"}
    /\ upc' = IF upc = "copied" THEN "done" ELSE "none"
    /\ WakeNetwork
    /\ UNCHANGED <<vars, linkVars, pool, packet, rx>>

\* The lease is dropped once the frame is consumed or its copy attempted; a
\* slot that was copied because it did not fit is released with its credit.
FinishLease ==
    /\ \/ upc = "none" /\ ppc = "own" /\ DropLease
       \/ upc = "done" /\ (DropLease \/ Reject)
    /\ upc' = "none"
    /\ UNCHANGED <<pool, packet, published>>

\* The steps of the protocol owner that do not meet the endpoint.
OtherProtocol ==
    /\ upc = "none"
    /\ \/ Take \/ DropAdmission \/ republish \/ claim_network
       \/ ProtocolDropBuffer \/ ProtocolPublishFree \/ ProtocolReturnCredit
    /\ UNCHANGED <<upc, pool, packet, published>>

Publisher ==
    \/ AdmitExternal \/ RefuseExternal \/ CopyRefused
    \/ \E c \in Copies : SnapshotCopy(c)
    \/ SnapshotAdopted \/ RejectCopy \/ RejectAdopted
    \/ EnqueueCopy \/ EnqueueAdopted \/ PublishWakes \/ FinishLease
    \/ OtherProtocol

-----------------------------------------------------------------------------
(* The stack, OwnedNetworkDevice.                                           *)

stackOnly == <<linkVars, upc, packet>>

\* A woken task registers its waker before it polls the device.
register_waker ==
    /\ stask = "parked" /\ scheduled
    /\ stask' = "poll" /\ scheduled' = FALSE /\ waker' = TRUE
    /\ UNCHANGED <<vars, stackOnly, pool, rx, popped, retained>>

\* receive takes the next entry ...
Receive ==
    /\ stask = "poll" /\ rx # <<>>
    /\ popped' = Head(rx) /\ rx' = Tail(rx)
    /\ stask' = "popped"
    /\ UNCHANGED <<vars, stackOnly, pool, scheduled, waker, retained>>

ReceiveNone ==
    /\ stask = "poll" /\ rx = <<>>
    /\ stask' = "parked"
    /\ UNCHANGED <<vars, stackOnly, pool, rx, scheduled, waker, popped, retained>>

\* Mutant of IsCurrent: only the level is compared.
IsUp(entry) == link.up

IsCurrent(entry) == link.up /\ link.epoch = entry.epoch

\* ... and returns it if it belongs to the link's current lifetime,
Keep ==
    /\ stask = "popped" /\ IsCurrent(popped)
    /\ retained' = retained \union {popped.packet}
    /\ stask' = "poll" /\ popped' = Nothing
    /\ UNCHANGED <<vars, stackOnly, pool, rx, scheduled, waker>>

\* Dropping a packet returns a copy to its pool and starts the release of a
\* slot, which goes on beside this task.
Dropped(p) ==
    \/ p \in Copies /\ pool' = pool \union {p} /\ UNCHANGED vars
    \/ p \in Slots /\ DropPacket(p) /\ UNCHANGED pool

\* ... or drops it and goes on.
DropStale ==
    /\ stask = "popped" /\ ~IsCurrent(popped)
    /\ Dropped(popped.packet)
    /\ stask' = "poll" /\ popped' = Nothing
    /\ UNCHANGED <<stackOnly, rx, scheduled, waker, retained>>

DropReceived(p) ==
    /\ p \in retained
    /\ Dropped(p)
    /\ retained' = retained \ {p}
    /\ UNCHANGED <<stackOnly, rx, stask, scheduled, waker, popped>>

Device == register_waker \/ Receive \/ ReceiveNone \/ Keep \/ DropStale

-----------------------------------------------------------------------------
endpointOnly == <<linkVars, pool, upc, packet, rx, stack>>

EndpointNext ==
    \/ \E up \in BOOLEAN : Set(up)
    \/ Publisher
    \/ Device
    \/ \E p \in Packets : DropReceived(p)
    \/ (Service \/ StackRelease) /\ UNCHANGED endpointOnly

EndpointSpec == EndpointInit /\ [][EndpointNext]_endpointVars

\* No step of the service or of the protocol owner blocks, a release or a
\* wake once begun is finished, and the stack polls when it was woken.
\* Nothing obliges it to drop a packet, or role code to move the link.
EndpointFairness ==
    /\ WF_endpointVars((try_claim_radio \/ try_send) /\ UNCHANGED endpointOnly)
    /\ WF_endpointVars(Publisher)
    /\ WF_endpointVars(Device)
    /\ WF_endpointVars(StackRelease /\ UNCHANGED endpointOnly)

FairEndpointSpec == EndpointSpec /\ EndpointFairness

-----------------------------------------------------------------------------
(* Properties.                                                              *)

\* The stack receives exactly the packets of the lifetime it runs in: one
\* published before, or across, a Down edge is never retargeted to the next
\* lifetime (owned.rs:42), and none of the current lifetime is thrown away.
LifetimesDoNotMix ==
    [][stask = "popped" /\ stask' = "poll" =>
          retained' = IF link.up /\ popped.lifetime = lifetime
                      THEN retained \union {popped.packet} ELSE retained
      ]_endpointVars

\* Every buffer the service detached comes back to the ring or reaches the
\* stack: no frame is stranded in a slot, in the RX queue behind a wake the
\* stack never got, or in a packet of an earlier lifetime.
PacketsArrive ==
    \A b \in Buffers :
        buffer[b] = "DETACHED" ~>
            (buffer[b] = "RELEASED" \/ \E s \in retained \intersect Slots : binding[s] = b)
=============================================================================
