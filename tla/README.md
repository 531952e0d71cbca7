# TLA+ models of open-esp-radio-rs

Specifications of the concurrent core of the radio stack and of four of its
protocol machines, checked with TLC on small instances and, for nine of its
eleven components, proved with TLAPS for every value of their constants. Paths
below are relative to `src/`.

## The system

The stack is a set of `no_std` crates for ESP32-class radios (`crates/README.md`).
Data moves between cores, tasks and a DMA engine through bounded, affine,
allocation-free structures; on top of them run protocol machines that face loss,
repetition and deadlines. The models concentrate on what depends on an order of
events that unit tests hardly reach.

| Part | State | Operations | What is hard |
|---|---|---|---|
| `memory/affine_spsc` | two cursors, cells | reserve, send, receive, split, drop | two cores, stale loads, cursor wrap |
| `station_service/msdu_queue` | the ring, two wakers | try_send, ready, try_receive | lost wake-ups, cancelled waits |
| `radio/permit-pool` | free permits, line, next ticket | take, cancel, release | ticket wrap, cancelled or leaked leaders |
| `radio/port/lifecycle` | installation, latch, guards, bound | run_port, owner transitions, cancel | cancellation at any await, timeout races |
| RX descriptor ring (`dma/rx_ring`, `dma/rx_storage`) | descriptors, links, cursors | frontier, take, recycle, append, repair, stop | a DMA walker that moves between two register reads |
| zero-copy receive (`rx_external_handoff`, `rx_storage`, `rx/transaction`, `external_rx`) | buffer states, slots, staged queue, credits | detach, claim, stage, admit, publish, release | three concurrent owners, cached credits |
| owned endpoint (`embassy-net/owned`) | link epoch, RX queue, waker | set_link_up, try_publish, receive | the link moves between load and queue |
| Block Ack reordering (`mac/block_ack/reorder`) | circular table, window | receive, BlockAckReq, gap timeout | modular windows, repeats, stale numbers |
| RSN handshake (`security/rsn`, `services/ieee80211/rsn`, `ap/service`) | two state machines, retry schedule | messages 1 to 4, install, retry, close | loss, repetition, re-association |
| LE acknowledgement (`ll/connection/acknowledgement`) | one-bit counters, PDU in flight | receive, transmit, more_data | loss and CRC errors in both directions |
| LE connection (`ll/connection`) | event counter, hopping, instants | prepare, commit, complete, skip, pause | instants across skipped events and the wrap |
| arbiter, MAC, station, 802.15.4, coexistence, clock | per-protocol machines | frames, grants, edges | open work |
| PAC/HAL/PHY, codecs, adapters, HIL, stand, tools | registers, bytes, host state | - | not a matter of interleaving |

They interact as follows. The DMA walker fills descriptors of the ring
(`RxRing`); the receive service detaches their buffers, and `ExternalRx` follows a
buffer through the protocol owner to the network and back. `OwnedEndpoint`
composes that path with the endpoint that queues its packets for the stack. MPDUs
of a Block Ack agreement pass `RxReorder` on their way. MSDUs and commands cross
between the application and the station service in `MsduQueue`, which is
`AffineSpsc` plus wakers. An installed port runs under `run_port`, and operations
on it are admitted by `FifoPermitPool`. `PROJECT.json` lists every component with
the reason where it is not modelled, and the hazards at their lines.

## Modules

| Module | Models | Checked by |
|---|---|---|
| `FifoQueue` | abstract bounded FIFO | through `ImplementsFifo`, twice |
| `AffineSpsc` | `crates/memory/src/affine_spsc.rs` | `MCAffineSpsc`, `AffineSpscProofs` |
| `MsduQueue` (extends `AffineSpsc`) | `crates/runtime/ieee80211/src/station_service/msdu_queue.rs` | `MCMsduQueue`, `AffineSpscProofs` |
| `PermitPool` | `crates/runtime/radio/permit-pool/src/lib.rs` | `MCPermitPool`, `PermitPoolProofs` |
| `PortLifecycle` | `crates/radio/port/src/lifecycle.rs` | `MCPortLifecycle` |
| `RxRing` | `rx_ring.rs` and its storage, service pass and scan | `MCRxRing` (two configurations) |
| `ExternalRx` | the zero-copy receive path (six files) | `MCOwnedEndpoint`, `ExternalRxProofs` |
| `OwnedEndpoint` (extends `ExternalRx`) | `embassy-net/owned/src/owned.rs`, `owned/external_rx.rs` | `MCOwnedEndpoint`, `ExternalRxProofs` |
| `RxReorder` | `protocols/ieee80211/mac/src/block_ack/reorder.rs` | `MCRxReorder`, `RxReorderTableProofs`, `RxReorderProofs` |
| `RsnHandshake` | `security/rsn`, the RSN runners, one `ApPeer` | `MCRsnHandshake`, `RsnHandshakeProofs` |
| `LeAcknowledgement` | `le/ll/src/connection/acknowledgement.rs` | `MCLeAcknowledgement`, `LeAcknowledgementProofs` |
| `LeConnection` | `le/ll/src/connection.rs`, `maintenance.rs` | `MCLeConnection` (two configurations), `LeConnectionProofs` |

Each module also holds operators marked "Mutant of ...": a plausible bug in one
definition, kept to show that a property fails when the code is wrong. No action
uses them.

### AffineSpsc

`producer` and `consumer` are the two atomics, `values` the cells. `send` is two
steps, the cell write (`Write`) and the cursor store (`Publish`); `try_receive`
is three (`Claim`, `Read`, `Return`). A load of the other side's cursor returns
any value from the last one this side saw to the current one (`Views`): this is
coherence of a single atomic location, and it is all the code may rely on.
Release/Acquire makes the cell visible with the cursor, so cells are plain
memory. That is also the limit of the model: a weakening of an `Ordering` is not
expressible in it. `split` and `drop` need `&mut self` and so find both endpoints
outside a call. `outside`, `received` and `dropped` say who owns each value.

### MsduQueue

Adds `stask`/`rtask` (where each side is in its poll), the two wakers and whether
a task is scheduled. A waker is a read-modify-write location, so a registration
after a wake also sees the cursor published before that wake (`sreleased`,
`rreleased`, `Later`). A poll is two steps, register and load, and the wake is a
step after the publish. `AtomicWaker` is external. A cancelled wait leaves its
waker registered, as the code does.

### PermitPool

The pool is not `Sync`: a poll, a drop and a release are each one step. `line` is
the place of each seat, `ticket` what the seat's future holds; they differ only
for a leaked take. `arrivals` is a history variable: the order in which places
were issued. Tickets wrap at `TICKETS` (2^32 in the code). `WithinHorizon` is the
one assumption: no place stays in line while `TICKETS` others are issued.

### PortLifecycle

`turn` walks through one poll in the order of the code: body, latch, driver,
bound. `pc` is the stage: `race` and `drain` while the body owns the backend,
`join`, `joinBody` and `joinRetire` after a fail-stop, `abandoning`,
`failStopping` and `uninstalling` once the body is gone. `Cancel` may strike
whenever the future is not being polled. `calls` records the calls that end the
backend. Body, driver and timer are arbitrary within their types. The module has
no constants and its state space is finite, so the check is exhaustive.

### RxRing

`word`, `link` and `owner` are the descriptors and buffers both sides see; `NEXT`
and `LAST` the walker's registers; `observed`, `recycle_start`, `accepted_tail`,
`pending_tail` and `republished` the fields of `RxRingLive`. `pc` walks through
one pass of the service, and every register read of the task is a step, between
any two of which the walker may move. The pass takes completed units in order,
recycles a released prefix or rearms behind a frozen LAST, appends behind the
accepted tail, rings the reload doorbell, repairs BASE when the list ran out, and
probes a published head. A scanning role's pass ends with its append pending and
the next pass settles it (`BeginScan`); a staged pass settles its own. The wait for
the doorbell is bounded, and a pass that gives up ends in `Err(Busy)`
(`ReloadBusy`). Role hand-off (`take_live`), stop and restart are actions too, any
number of them.

No role runner is in the tree, so what follows is assumed of it. A pass is called
when an edge, a returned buffer or the last progress asks for it. A scanning role
has settled its append before the staged one takes the ring, as the comment on
`reload_pending` (`lifecycle.rs:325`) requires: a staged pass bounds its frontier by
the old accepted tail and would not see what lies beyond. A staged role that got
`Busy` stops the ring; a scanning one, which reports it before touching anything,
polls again. A ring goes back to a scanning role only with its buffers home.

The walker is hardware, so external: it is what the comments of `rx_ring.rs`
(lines 2004 to 2014) say of it, in two variants. The "early" walker reads a link
with its descriptor; the "late" one after LAST has advanced, which is the ordering
those comments and `mac/tests/cases/rx_ring.rs:605` say HIL reproduced. Assumed of
both: the RX-success edge is raised when NEXT is final, a BASE store has reached
the walker when the fence returns, and no unit of two descriptors arrives in a
scanning role.

`LinkFetched` is one more assumption, and the comments contradict it: when a unit
that ends at a frozen LAST is rearmed, the walker has read its link. The rearm
follows the vendor's worker (`rx_ring.rs:2063` to 2069), but the late walker need
not have read the link by then. `rx_ring` makes the assumption, under which the
rest of the ring is correct with both walkers; `rx_ring_link` drops it and shows
the rewrite (second finding below). The releases that rest on samples of LAST and
NEXT do not need it: `SampledReleaseIsSafe` holds with the late walker because they
wait for LAST to move on.

### ExternalRx

Three threads: the service (`spc`), the protocol owner (`ppc`) and the stack.
Each atomic exchange is a step; a release is three (take the slot, drop the
buffer, publish the slot). The service samples the credits of the pool and of the
queue separately and keeps them while others return slots. Counting the free
slots is one step: only the service claims slots, so the count cannot fall during
the scan, and a scan returns a count that is at most the one at its end; the
properties need only that lower bound. The ring is abstracted to its buffers'
states and the endpoint to accepting or refusing a packet at will.

### OwnedEndpoint

Adds the link (`link`, level and epoch), the RX queue, the network waker and the
stack's receive loop. Its actions conjoin those of `ExternalRx`: admission now
looks at the link and the queue, a publication loads the link, queues the packet
and wakes the stack in three steps, and the stack removes an entry and loads the
link in two. A frame that is refused, or whose storage does not fit a packet, is
copied into a packet of the RX pool. What the caller does with a refused frame
comes from the comments and tests of the crate: nothing else in the tree calls
it yet. `lifetime` is a history variable that numbers the Down -> Up edges; an
entry remembers the one it was published in. The epoch has 31 bits, and a packet
would have to stay queued for 2^31 lifetimes to be confused; the model does not
wrap it.

### RxReorder

The buffer is a record with the fields of `RxReorderBuffer`; each operation is a
function from a buffer and an input to a buffer, the released frames and the
missing count, and an action applies it. MPDUs carry their number without the
wrap as well, which the code never sees and the properties are about. The
originator follows the standard: it sends within its window, resends, abandons,
and sends BlockAckReqs. The caller's slots and gap timer are actions.

### RsnHandshake

This project's station against this project's access point. `net` is every frame
ever sent, so the air may lose, repeat, delay and reorder, also into a later
association. Nonces are numbers of associations, a PTK the pair of nonces, a MIC
the PTK it was computed with. `ap` is one `ApPeer` with its retry window; `airing`
holds transmissions whose completion is outstanding. Deadlines may strike at any
time. Security elements are not in the model: a Message 2 with a valid MIC matches
its association or does not, and in the second case the authenticator fails, keeps
its Message 1 window and alarm, and asks for the peer to be deauthenticated. The
owner then calls `begin_wpa2_failure_close` (`FailureClose`). Not modelled: an RSNE
mismatch in Message 3, group rekey, a Message 3 with a larger counter than the one
answered, an exhausted replay counter, and the tickets of derivations in progress.

Two observations that no property contradicts: a peer in `Closing` can still
become authorized by a late Message 4 (`security.rs:531`), and
`begin_due_peer_close` and `begin_stop_peer` leave the retry window and its alarm
in place, so a retry may still be sent to a peer that is being closed.

### LeAcknowledgement

`ack` is the `Acknowledgement` of each side; `Received` and `Transmitted` are the
two calls as functions of it. The caller's payloads are modelled to say what the
bits are for: it queues them, holds the one in flight, and has a bounded receive
room. `air` carries at most one PDU, which may be lost or arrive with a broken
CRC; `event` says whose turn it is.

### LeConnection

`connection` is the value every phase of the affine chain carries and `phase`
which link of the chain holds it. The reference `central` holds every event, hops
one event at a time and starts updates; `behind` is how far it is from the event
the peripheral serves next. `Prn` stands for the pseudo-random function of
Algorithm Two, whose bits are not modelled. Parsing, window widening and anchor
times are left out.

## Runs

| Run | Bounds | Distinct states | Shows |
|---|---|---|---|
| `affine_spsc` | DEPTH 2, 3 values | 11430 | no data race, one owner per value, conservative lengths, refinement of `FifoQueue` |
| `msdu_queue` | DEPTH 2, 3 values | 158462 | waiting is sound, every value arrives, senders resume |
| `permit_pool` | 2 permits, 3 seats, 4 tickets | 7136 | arrival order across the wrap, no lost wake, takers served |
| `port_lifecycle` | none | 203 | one fate, safe detach, true result, bounded end |
| `owned_endpoint` | 2 buffers, 2 slots, queue of 1, 1 copy, 2 lifetimes | 499156 | one owner per buffer and slot, exact credits, safe cached credits, lifetimes do not mix, packets arrive, slots keep coming |
| `rx_ring` | 4 descriptors, budget 2, both walkers, `LinkFetched` | 5780306 | no overwrite, no failed check, sampled releases safe, units in order, nothing forgotten |
| `rx_ring_link` | as above, late walker, without `LinkFetched` | violation | a rearm behind a frozen LAST can overwrite an unread link |
| `rx_reorder` | modulus 16, window 3, 3 slots, 9 MPDUs from 13 | 80668 | exact table, release in order, the fast path agrees |
| `rsn_handshake` | 2 associations, 1 retry, initial counters 0 and 1 | 189597 | authorization means installation, no key installed twice, keys agree, retries own their window, handshakes settle |
| `le_acknowledgement` | 2 values a side, queue 2, room 1 | 156315 | acknowledged PDUs were in flight, MD agrees, both directions refine `FifoQueue`, payloads arrive |
| `le_connection` | modulus 14, 7 channels, hop 3, 2 maps, 2 timings | 4631092 | same channel and timing as the Central, exact intervals, safe pauses |
| `le_connection_report` | as above | violation | an applied update is not always reported |

Why the bounds are enough. A ring of two cells has empty, partial and full
states, and its cursors wrap after four operations, at every relative position of
the stale views. Three values outnumber the cells, so a full queue refuses. Three
seats give a leader, a follower and one more to replace or cancel; four tickets
wrap within a few polls. In `owned_endpoint` two slots, of which the network may
hold one, are the smallest pool in which both path and copy are taken; a queue of
one is empty or full, and two lifetimes are what it takes to confuse one with the
next. Larger pools, where the slots reserved for critical units and those withheld
from the network differ, are covered by the proofs, which fix no size. Four descriptors
give a ring a head, a tail and two in between, so a unit of two, a partial
release and a wrap coincide. A window of three in sixteen numbers starting at 13
wraps and leaves numbers both behind and ahead of it. Two associations let every
frame of the first reach the second. `LastInitial` is 1 where the code has 5, and
`Modulus` 14 where it has 2^16: instants up to 5 ahead and steps up to 3 cross the
wrap and the half-space in every position.

Symmetry is used for reorder slots and connection timings in runs
without liveness. Deadlock is checked everywhere but in `port_lifecycle`, where an
ended or cancelled installation stops, and `rsn_handshake`, where the last
association may rest.

### Findings

1. `prepare_event` and `commit` apply a due update to the connection and note it in
the prepared event; `cancel` (`connection.rs:1037`) drops the note and keeps the
update. The event prepared again and completed then reports no update, although
`connection.rs:1170` describes the report as "Whether the Channel Map Update
instant was applied by this event." `le_connection_report` shows the behaviour
(`AppliedIsReported`); the connection itself stays correct (`ListensWithCentral`).

2. `frozen_cursor_releases_unit` (`rx_ring.rs:2088`) accepts a unit that ends at the
frozen LAST, and `service` rearms it, which overwrites its link. The comment at
`rx_ring.rs:2007` says that "`RX_DONE`, LAST and even NEXT naming the old successor
can all become visible before the walker has fetched the completed descriptor's
link", and that a "nonterminal link is released only when LAST advances through a
later terminal-complete descriptor". `rx_ring_link` reaches the rewrite with that
walker, after a discarded unit (`LinkIsLatched`). `rx_ring.rs:2063` gives the reason
for the other rule: the vendor's worker returns the descriptor equal to its saved
LAST. The two comments cannot both describe the silicon; the model does not say
which does.

## Fairness

- `MsduQueue`: a call once begun finishes, the executor polls a woken task, and
  the service takes what `ready` reported and waits again. Nothing obliges the
  application to send.
- `PermitPool`: a woken take is polled, and a held permit is released.
- `PortLifecycle`: a poll finishes, the task is polled, and the timer behind the
  bound expires. Neither the body's return nor the driver's exit is assumed.
- `OwnedEndpoint`: a service that detached a buffer goes on, the protocol owner
  does not stop, the stack polls when it was woken, and a release once begun
  finishes. Nothing obliges the stack to drop a packet, the service to start or
  the link to move.
- `RsnHandshake`: the access point starts the handshake, completions are observed,
  due retries taken, authorization carried out and a failed peer deauthenticated.
  The last is the caller's answer to `DeauthenticatePeer`; nothing in the tree but
  tests calls `begin_wpa2_failure_close` yet. Nothing of the air, of the
  station or of the inactivity timer is assumed.
- `LeAcknowledgement`: events go on, a lost PDU is noticed, hosts take what
  arrived, and the air does not break every PDU for ever (strong fairness of
  `Receive`).

## Proofs

Every proof has the same shape: an inductive invariant, one lemma per action that
it is kept, and the properties the runs check as its consequences. Where a step of
the argument is about an operator of the model, it is a lemma of its own.

`AffineSpscProofs` assumes `DEPTH \in Nat \ {0}` and that `NoValue` is no value.
The properties are not inductive: that a permit's cell is free depends on how
stale the producer's view was. `CursorInv` says that the distance from the
producer's view to the consumer plus that from the consumer to the producer is at
most `DEPTH`, and strictly less while a permit is held; that the consumer's view
lies between the cursors; and that a permit names the current cursor. It rests on
lemmas on `cursor_distance` and `advance` (`Chain`, `ViewSplits`, `AdvanceFar`,
`AdvanceNear`). `ValueInv` adds that the contents and the owners partition the
values. From them follow `TypeCorrect`, `RaceFree`, `SingleOwner`,
`ConservativeLengths` and `Refinement`, in which `Publish` is the abstract send,
`Return` the abstract receive, and every other step but those of the owner a
stutter.

The same module proves `MsduQueue`. `MsduImplementsRing` shows that every step of
the queue is one of the ring or changes nothing of it, so `MsduSafe` carries race
freedom and single ownership over. `NoLostWakeup` (`WaitingIsSound`) needs
`WakeInv` on top of `CursorInv`: a side that is not between its cursor store and
its wake has released its current cursor to the other side's waker; a side that
polls or is parked is registered or scheduled; and if nobody is about to wake it,
its view is the current cursor, so it parked for a good reason. It is the read of
a released cursor that makes the last part hold with stale loads
(`LaterIsCurrent`).

`PermitPoolProofs` assumes a nonempty set of permits unless there are no seats,
and `TICKETS` positive. Its inductive invariant is the conjunction of `TypeOK`,
`PlacesAreOwned` and `NoLostWake`. The argument is that issuing a ticket brings
every other one step closer (`IssueShifts`) and so keeps their order
(`IssueKeepsLeader`), and that a place given up by someone who did not lead
changes no leader (`VacateKeepsLeader`). `ArrivalOrder` (`LeaderIsOldest`) adds
`Queued`: the seats in `arrivals` are those with a place, each once, and their
tickets grow in that order when counted from the next ticket. Taking a seat out
of the list keeps the order of the rest (`IsWithout`, `Leaves`).

`LeAcknowledgementProofs` assumes that `QueueDepth` and `Room` are positive and
that the markers `None` and "Empty" are no payloads. The inductive invariant
`AckInv` says that a PDU on the air carries its sender's current sequence number,
acknowledgement, MD bit and payload; that what the peer has taken (`TakenByPeer`)
is still in flight at its sender; and that a side that heard the other knows its
MD bit. `Invariance` gives `AcknowledgedInFlight` and `AgreeOnMoreData`. For the
refinement, every step is shown to be, in each direction, one of a few
shapes: nothing, a put, a get, or a supply of new payloads (`TransmitDirections`,
`ReceiveDirections`, `SubmitDirections`, `TakeDirections`), where what a direction
still owes is the queue with the PDU in flight unless the peer took it already
(`OwedForm`), and every payload is in one place (`DirectionOwned`).

`ExternalRxProofs` assumes what `CreditPolicy::validate` and
`ExternalRxOrigin::new` enforce of the sizes. `PathInv` has four parts besides the
types. `SlotOwnership`: the slots in the service's hand, in the queue, with the
protocol owner and with the stack are disjoint and in their owner's state.
`BufferOwnership`: the bindings are injective and, with the service's hand, hold
exactly the detached buffers. `CreditViews`: the credits the service cached are
lower bounds wherever it uses them, and its scan has a free slot ahead, because
only the service takes slots from the pool. `CreditAccount`: what the network
holds is its slots, the credits owed and the one in hand, and at most the cap.
They give `Ownership`, `ExactCredits` and `CachedCredits`. Each of the other
threads' steps is shown once to leave the service's part alone.

The same module proves the endpoint on top, assuming further that the RX queue has
a depth and that copies are not slots. `Composition` shows that every step with
the real endpoint is a step of `ExternalRx` or changes nothing of it, and
`EndpointOwnership` carries `OneOwner` and `CreditsAreExact` over.
`LifetimesApart` rests on `LifetimeInv`: the epoch counts the lifetimes, and so
does the tag of every packet in the publisher's hand, in the queue and in the
stack's. That adopted packets are slots of the pool is `PathTyped`, from `PathInv`
through `Composition`.

`RsnHandshakeProofs` assumes that there is at least one attempt and that replay
counters are naturals. Since `net` keeps every frame for ever, the invariant says
what each frame tells of its sender whenever it arrives (`Said`): Message 2
carries the nonce of its MIC's key; Message 3 was sent for a key whose station
nonce is not newer than the access point's nonce, and the current association has
at most one such key; Message 4 was sent for a key already installed.
`StationInv`, `InstallInv` and `PeerInv` say the same of the two owners: a key the
station holds was confirmed by a Message 3, no key with its current nonce is
installed before its turn, and an armed alarm belongs to the window the peer is
in, or to the Message 1 window in which it failed. `AuthorizedInstalled`,
`InstalledOnce`, `KeyAgreement` and `RetryWindow` follow. The MIC is taken to
identify its key, which is what the model abstracts of the cryptography.

`RxReorderTableProofs` and `RxReorderProofs` assume an even sequence-number space
and a capacity below half of it. The first is about the
table alone: arithmetic of `ForwardDistance` and of relative positions across both
wraps; that retained MPDUs have distinct offsets and distinct positions
(`TableInv`); what `finish` and each way into it leave, release and count as
missing; that the fast path agrees with `ingest`; and that the released sequence
is the released set sorted by offset, each MPDU at its rank. The second relates
sequence numbers to the unwrapped numbers of the originator (`NumberInv`): the
window waits for number `nextN`, a retained MPDU is its offset ahead of it, nothing
lies a window past the originator's base, and everything released came before.
That a repeat cannot be taken for a new number rests on the window being below
half the space (at most 64 of 4096 in the code), and on the originator being less
than half the space ahead of the recipient, which `Sendable` and `BlockAckReq`
assume of the other station. `ReorderInv` joins these with the caller's slots, and
gives `TableExact`, `FastPathExact` and `ReleaseOrder`.

`LeConnectionProofs` assumes that the hop is not zero, that every channel map has
two channels, that one step skips less than a turn of the counter, and that an
indication reaches the peripheral less than half a turn from its instant
(`MaxInstant + MaxLate < Modulus \div 2`), which is how the code tells an instant
ahead from one that has passed. The properties speak of the moment at which the
peripheral listens, while the Central walks there one event at a time. The
invariant therefore relates the two sides at every distance `behind`: the counter
and the hop differ by exactly that many events (`HopInv`, from `HopSkipped`: many
hops at once are one hop of their sum); a pending update is the Central's procedure
with its instant counted from the Central's counter, and the value in force is the
old or the new one by whether the instant is still to come (`MapInv`, `TimingInv`,
stated as `FollowsOne` for one procedure); the intervals of the step are those the
Central has walked and those it still will (`IntervalInv`, `SplitOne`); a pause
keeps the instant out of its reach (`ClearInv`). Each of these has a lemma for every
kind of step (`CommitOne`, `PrepareOne`, `TickOne`, `AcceptOne`, ...), and the
action lemmas put them together. The wrap of the counter is dealt with once, in
`WrapAdd`, `WrapNear` and `WrapDistance`. What Algorithm Two returns is left open
(`Prn`): both sides compute it from the same counter.

Only model-checked:

- all liveness properties: fairness and ENABLED are outside the prover's reach;
- `PortLifecycle`: it has no constants and 203 states, so TLC's check is already
  a proof;
- `RxRing`, whose inductive invariant is not worked out yet;
- `AppliedIsReported` of `LeConnection`, which the code does not satisfy.

## Not modelled

Register access, calibration, codecs and cryptography, executor and SoC adapters,
and the host tooling: their behaviour is I/O, bytes or external code.

Within modelled parts: the half-ring recycle, the raw and diagnostic paths and
the arena's reset of the RX ring; the transmit queue, its budget and the radio's
`poll_ready` of the owned endpoint; several peers, group rekey, power save and
management replay of the access point.

Open work:

1. `RxRing` composed with `ExternalRx`, which today sees only the states of the
   buffers.
2. The transmit half of the owned endpoint with its budget of admitted owners.
3. Station join and SA Query; access-point power save and group rekey.
4. Channel arbiter and coordinator; coexistence; radio clock; 802.15.4 engine.
5. Indexed SPSC, station-service admissions, trace store, interrupt table.

Proofs to follow: `TakenInOrder` and `NeverOverwrites` of `RxRing`.
