------------------------------ MODULE MsduQueue ------------------------------
(***************************************************************************)
(* MsduQueue (crates/runtime/ieee80211/src/station_service/msdu_queue.rs): *)
(* the affine SPSC queue with an AtomicWaker per side, so that a full      *)
(* queue parks its sender and an empty one its receiver.                   *)
(*                                                                         *)
(* AtomicWaker is external: register stores the task's waker, wake takes   *)
(* it and schedules the task.  Both are read-modify-writes of one location,*)
(* so a register that follows a wake also sees what was published before   *)
(* that wake: each waker carries the cursor its last wake released.        *)
(***************************************************************************)
EXTENDS AffineSpsc

VARIABLES
    stask,          \* sender: "run", "polling", "parked", "waking"
    sscheduled,     \* the sender's task was woken
    swaker,         \* producer: AtomicWaker holds the sender's waker
    sreleased,      \* consumer cursor released by the last wake of it
    rtask,          \* receiver: "run", "polling", "parked", "ready", "waking"
    rscheduled,
    rwaker,         \* consumer: AtomicWaker holds the receiver's waker
    rreleased       \* producer cursor released by the last wake of it

senderTask == <<stask, sscheduled, swaker, sreleased>>
receiverTask == <<rtask, rscheduled, rwaker, rreleased>>
msduVars == <<vars, senderTask, receiverTask>>

MsduTypeOK ==
    /\ TypeOK
    /\ stask \in {"run", "polling", "parked", "waking"}
    /\ rtask \in {"run", "polling", "parked", "ready", "waking"}
    /\ {sscheduled, swaker, rscheduled, rwaker} \subseteq BOOLEAN
    /\ {sreleased, rreleased} \subseteq Cursors

MsduInit ==
    /\ Init
    /\ stask = "run" /\ sscheduled = FALSE /\ swaker = FALSE /\ sreleased = 0
    /\ rtask = "run" /\ rscheduled = FALSE /\ rwaker = FALSE /\ rreleased = 0

\* The later of two cursors this side may have seen of `current`.
Later(seen, released, current) ==
    IF released \in Views(seen, current) THEN released ELSE seen

-----------------------------------------------------------------------------
(* MsduSender.                                                              *)

\* Mutant of RegisterSender: the poll never registers its waker.
PollUnregistered ==
    /\ stask \in {"run", "parked"} /\ ppc = "idle"
    /\ stask' = "polling"
    /\ sscheduled' = FALSE
    /\ seenConsumer' = Later(seenConsumer, sreleased, consumer)
    /\ UNCHANGED <<alive, values, producer, ppc, permit, consumerVars, outside,
                   received, dropped, swaker, sreleased, receiverTask>>

\* Poll of SendReady, first half: register the sender's waker.
RegisterSender ==
    /\ stask \in {"run", "parked"} /\ ppc = "idle"
    /\ stask' = "polling"
    /\ swaker' = TRUE
    /\ sscheduled' = FALSE
    /\ seenConsumer' = Later(seenConsumer, sreleased, consumer)
    /\ UNCHANGED <<alive, values, producer, ppc, permit, consumerVars, outside,
                   received, dropped, sreleased, receiverTask>>

\* try_reserve finds a vacant cell, in a poll of SendReady or in try_send.
SenderReserve ==
    /\ stask \in {"run", "polling"}
    /\ Reserve
    /\ stask' = "run"
    /\ UNCHANGED <<sscheduled, swaker, sreleased, receiverTask>>

\* try_reserve finds the queue full: SendReady parks, try_send gives up.
SenderRefuse ==
    /\ stask \in {"run", "polling"}
    /\ Refuse
    /\ stask' = IF stask = "polling" THEN "parked" ELSE "run"
    /\ UNCHANGED <<sscheduled, swaker, sreleased, receiverTask>>

\* A SendReady future dropped between two polls.
CancelSend ==
    /\ stask = "parked"
    /\ stask' = "run"
    /\ UNCHANGED <<vars, sscheduled, swaker, sreleased, receiverTask>>

SenderDropPermit ==
    /\ DropPermit
    /\ UNCHANGED <<senderTask, receiverTask>>

SenderWrite ==
    /\ \E v \in Values : Write(v)
    /\ UNCHANGED <<senderTask, receiverTask>>

\* Mutant of SenderPublish: the receiver is not woken.
PublishSilently ==
    /\ Publish
    /\ UNCHANGED <<senderTask, receiverTask>>

SenderPublish ==
    /\ Publish
    /\ stask' = "waking"
    /\ UNCHANGED <<sscheduled, swaker, sreleased, receiverTask>>

\* consumer.wake() ends try_send and SendPermit::send.
WakeReceiver ==
    /\ stask = "waking"
    /\ stask' = "run"
    /\ rreleased' = producer
    /\ rscheduled' = (rscheduled \/ rwaker)
    /\ rwaker' = FALSE
    /\ UNCHANGED <<vars, sscheduled, swaker, sreleased, rtask>>

-----------------------------------------------------------------------------
(* MsduReceiver.                                                            *)

\* Poll of ready, first half: register the receiver's waker.
RegisterReceiver ==
    /\ rtask \in {"run", "parked"} /\ cpc = "idle"
    /\ rtask' = "polling"
    /\ rwaker' = TRUE
    /\ rscheduled' = FALSE
    /\ seenProducer' = Later(seenProducer, rreleased, producer)
    /\ UNCHANGED <<alive, values, producerVars, consumer, cpc, taken, outside,
                   received, dropped, rreleased, senderTask>>

\* Poll of ready, second half: is_empty decides between Pending and Ready.
ReceiverCheck ==
    /\ rtask = "polling"
    /\ ReceiverLen
    /\ rtask' = IF seenProducer' = consumer THEN "parked" ELSE "ready"
    /\ UNCHANGED <<rscheduled, rwaker, rreleased, senderTask>>

\* A ready future dropped between two polls.
CancelReady ==
    /\ rtask = "parked"
    /\ rtask' = "run"
    /\ UNCHANGED <<vars, rscheduled, rwaker, rreleased, senderTask>>

\* try_receive, with or without waiting for ready first.
ReceiverClaim ==
    /\ rtask \in {"run", "ready"}
    /\ Claim
    /\ rtask' = "run"
    /\ UNCHANGED <<rscheduled, rwaker, rreleased, senderTask>>

ReceiverEmpty ==
    /\ rtask \in {"run", "ready"}
    /\ ReceiverLen /\ seenProducer' = consumer
    /\ rtask' = "run"
    /\ UNCHANGED <<rscheduled, rwaker, rreleased, senderTask>>

ReceiverRead ==
    /\ Read
    /\ UNCHANGED <<senderTask, receiverTask>>

\* Mutant of ReceiverReturn: the sender is not woken.
ReturnSilently ==
    /\ Return
    /\ UNCHANGED <<senderTask, receiverTask>>

ReceiverReturn ==
    /\ Return
    /\ rtask' = "waking"
    /\ UNCHANGED <<rscheduled, rwaker, rreleased, senderTask>>

\* producer.wake() ends a successful try_receive.
WakeSender ==
    /\ rtask = "waking"
    /\ rtask' = "run"
    /\ sreleased' = consumer
    /\ sscheduled' = (sscheduled \/ swaker)
    /\ swaker' = FALSE
    /\ UNCHANGED <<vars, rscheduled, rwaker, rreleased, stask>>

-----------------------------------------------------------------------------
\* The storage's owner splits it again; the wakers stay as they are.
MsduSplit ==
    /\ stask = "run" /\ rtask = "run"
    /\ Split
    /\ UNCHANGED <<senderTask, receiverTask>>

MsduSupply ==
    /\ \E v \in Values : Supply(v)
    /\ UNCHANGED <<senderTask, receiverTask>>

Sender ==
    \/ RegisterSender \/ SenderReserve \/ SenderRefuse \/ CancelSend
    \/ SenderDropPermit \/ SenderWrite \/ SenderPublish \/ WakeReceiver

Receiver ==
    \/ RegisterReceiver \/ ReceiverCheck \/ CancelReady \/ ReceiverClaim
    \/ ReceiverEmpty \/ ReceiverRead \/ ReceiverReturn \/ WakeSender

MsduNext == Sender \/ Receiver \/ MsduSplit \/ MsduSupply

\* A step once begun is finished (no step of these blocks), an executor polls
\* the tasks it was told to, and the service takes what ready reported and
\* then waits again.  Nothing obliges the application to send.
MsduFairness ==
    /\ WF_msduVars(SenderPublish) /\ WF_msduVars(WakeReceiver)
    /\ WF_msduVars(stask = "polling" /\ (SenderReserve \/ SenderRefuse))
    /\ WF_msduVars(sscheduled /\ stask = "parked" /\ RegisterSender)
    /\ WF_msduVars(rtask = "run" /\ RegisterReceiver)
    /\ WF_msduVars(rscheduled /\ rtask = "parked" /\ RegisterReceiver)
    /\ WF_msduVars(ReceiverCheck)
    /\ WF_msduVars(rtask = "ready" /\ ReceiverClaim)
    /\ WF_msduVars(ReceiverRead) /\ WF_msduVars(ReceiverReturn) /\ WF_msduVars(WakeSender)

MsduSpec == MsduInit /\ [][MsduNext]_msduVars /\ MsduFairness

-----------------------------------------------------------------------------
(* Properties.                                                              *)

\* Waiting is sound on both sides.  No wake-up is lost: a receiver parked over a
\* published value has been scheduled or is about to be by the sender that
\* published it, and a sender parked beside a vacant cell likewise, for every
\* interleaving of register, load, publish and wake and every stale load
\* (msdu_queue.rs:146 and :200).  And once ready resolved, the next try_receive
\* cannot answer Empty: the value stays in the queue until this receiver takes
\* it (msdu_queue.rs:176).
WaitingIsSound ==
    /\ rtask = "parked" /\ Length > 0 => rscheduled \/ stask = "waking"
    /\ stask = "parked" /\ Length < DEPTH => sscheduled \/ rtask = "waking"
    /\ rtask = "ready" => consumer \notin Views(seenProducer, producer)

\* Every value inside the queue is received: no interleaving strands one.
EveryValueArrives ==
    \A v \in Values : v \in Inside ~> v \in received

\* A sender that waits for capacity gets it.
SenderResumes == stask = "parked" ~> stask # "parked"
=============================================================================
