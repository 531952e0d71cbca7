---------------------------- MODULE PortLifecycle ----------------------------
(***************************************************************************)
(* run_port (crates/radio/port/src/lifecycle.rs): one installation of a    *)
(* radio port from its start to its return or its cancellation.            *)
(*                                                                         *)
(* One poll of the future polls the body, then the abandon latch, then the *)
(* driver, then the retirement bound; `turn` walks through that order.     *)
(* Several operations of the body may fall into one poll.  The future may  *)
(* be dropped between two polls.  The body, the driver and the backend are *)
(* external: the body uses its owner as the types allow, the driver exits  *)
(* with one of its two proofs, the backend accepts, refuses or is poisoned.*)
(***************************************************************************)
EXTENDS Naturals, Sequences

VARIABLES
    pc,         \* where the core is
    turn,       \* which part of a poll runs: "idle" between polls
    owner,      \* the body's authority over the backend
    body,       \* the body's future exists
    driver,     \* "running", "retired", "faulted" or "timedOut"
    cause,      \* AbandonLatch: "live", "dropped", "failStopped"
    retiring,   \* the retirement request
    armed,      \* the guard that abandons on cancellation is armed
    bound,      \* the retirement bound: "unpolled", "running", "expired"
    calls,      \* history: the calls on the backend that end it
    result      \* what run_port returned

vars == <<pc, turn, owner, body, driver, cause, retiring, armed, bound, calls, result>>

Owning == {"disabled", "enabling", "enabled", "disabling", "poisoned"}
BodyStages == {"race", "drain", "join", "joinBody"}
RetireStages == {"joinRetire", "abandoning", "failStopping", "uninstalling"}

TypeOK ==
    /\ pc \in {"unpolled", "ended", "cancelled"} \union BodyStages \union RetireStages
    /\ turn \in {"idle", "body", "latch", "driver", "bound"}
    /\ owner \in Owning \union {"proof", "lost", "ended"}
    /\ driver \in {"running", "retired", "faulted", "timedOut"}
    /\ cause \in {"live", "dropped", "failStopped"}
    /\ {body, retiring, armed} \subseteq BOOLEAN
    /\ bound \in {"unpolled", "running", "expired"}
    /\ calls \in Seq({"abandon", "detach", "uninstall"})
    /\ result \in {"none", "Uninstalled", "FailStopped", "Abandoned"}

Init ==
    /\ pc = "unpolled" /\ turn = "idle"
    /\ owner = "disabled" /\ body = TRUE
    /\ driver = "running"
    /\ cause = "live" /\ retiring = FALSE /\ armed = FALSE
    /\ bound = "unpolled"
    /\ calls = <<>> /\ result = "none"

latched(c) == IF cause = "live" THEN c ELSE cause

-----------------------------------------------------------------------------
(* Polling and cancelling the future.                                       *)

\* The first poll takes the installation out of run_port's guard.
FirstPoll ==
    /\ pc = "unpolled"
    /\ pc' = "race" /\ turn' = "body"
    /\ armed' = TRUE
    /\ UNCHANGED <<owner, body, driver, cause, retiring, bound, calls, result>>

Poll ==
    /\ turn = "idle"
    /\ pc \in BodyStages \union RetireStages
    /\ turn' = IF pc \in BodyStages THEN "body" ELSE "driver"
    /\ UNCHANGED <<pc, owner, body, driver, cause, retiring, armed, bound, calls, result>>

\* Dropped before the first poll: run_port's guard abandons.
CancelUnpolled ==
    /\ pc = "unpolled"
    /\ pc' = "cancelled"
    /\ calls' = Append(calls, "abandon")
    /\ body' = FALSE
    /\ UNCHANGED <<turn, owner, driver, cause, retiring, armed, bound, result>>

\* Mutant of Cancel: the guard does not ask whether the owner fail-stopped.
CancelAlways ==
    /\ turn = "idle"
    /\ pc \in BodyStages \union RetireStages
    /\ pc' = "cancelled"
    /\ body' = FALSE
    /\ cause' = IF armed \/ (body /\ owner \in Owning) THEN latched("dropped") ELSE cause
    /\ calls' = IF armed THEN Append(calls, "abandon") ELSE calls
    /\ armed' = FALSE
    /\ UNCHANGED <<turn, owner, driver, retiring, bound, result>>

\* Dropped between polls: the body drops first, with an owner's sentry if it
\* still has one, then the armed guard runs abandon_on_cancel.
Cancel ==
    /\ turn = "idle"
    /\ pc \in BodyStages \union RetireStages
    /\ pc' = "cancelled"
    /\ body' = FALSE
    /\ LET dropped == IF body /\ owner \in Owning THEN latched("dropped") ELSE cause
           abandons == armed /\ dropped # "failStopped"
       IN  /\ cause' = IF abandons /\ dropped = "live" THEN "dropped" ELSE dropped
           /\ calls' = IF abandons THEN Append(calls, "abandon") ELSE calls
    /\ armed' = FALSE
    /\ UNCHANGED <<turn, owner, driver, retiring, bound, result>>

-----------------------------------------------------------------------------
(* The body's poll.                                                         *)

BodyRuns == turn = "body" /\ body

\* Owner::enable and disable: the call, and its answer in this or a later poll.
Transition ==
    /\ BodyRuns
    /\ \/ owner = "disabled" /\ owner' = "enabling"
       \/ owner = "enabling" /\ owner' \in {"enabled", "disabled", "poisoned"}
       \/ owner = "enabled" /\ owner' = "disabling"
       \/ owner = "disabling" /\ owner' \in {"disabled", "poisoned"}
    /\ UNCHANGED <<pc, turn, body, driver, cause, retiring, armed, bound, calls, result>>

\* Owner::fail_stop, PoisonedOwner::fail_stop and Failed::fail_stop.
FailStop ==
    /\ BodyRuns
    /\ owner \in {"disabled", "enabled", "poisoned"}
    /\ calls' = Append(calls, "abandon")
    /\ cause' = latched("failStopped")
    /\ retiring' = TRUE
    /\ owner' = "proof"
    /\ UNCHANGED <<pc, turn, body, driver, armed, bound, result>>

\* The owner drops: its sentry latches the abandonment.
DropOwner ==
    /\ BodyRuns
    /\ owner \in Owning
    /\ cause' = latched("dropped")
    /\ owner' = "lost"
    /\ UNCHANGED <<pc, turn, body, driver, retiring, armed, bound, calls, result>>

\* The owner leaks without its drop, or the fail-stop proof is lost.
Lose ==
    /\ BodyRuns
    /\ owner \in Owning \union {"proof"}
    /\ owner' = "lost"
    /\ UNCHANGED <<pc, turn, body, driver, cause, retiring, armed, bound, calls, result>>

\* The body is pending; what the stage polls next.
BodyPending ==
    /\ BodyRuns
    /\ turn' = CASE pc \in {"race", "drain"} -> "latch"
                 [] pc = "join" -> "driver"
                 [] pc = "joinBody" -> "idle"
    /\ UNCHANGED <<pc, owner, body, driver, cause, retiring, armed, bound, calls, result>>

\* Mutant of Quarantined: entries are detached from under a driver that missed
\* its bound.
DetachedAnyway(r, before) ==
    /\ calls' = Append(before, "detach")
    /\ result' = r
    /\ pc' = "ended" /\ turn' = "idle"

\* install's end for a fail-stopped or abandoned installation: detach unless
\* the driver missed its bound.
Quarantined(r, before) ==
    /\ calls' = IF driver' = "timedOut" THEN before ELSE Append(before, "detach")
    /\ result' = r
    /\ pc' = "ended" /\ turn' = "idle"

\* Ended::uninstall.
ReturnUninstall ==
    /\ BodyRuns
    /\ owner \in {"disabled", "poisoned"}
    /\ owner' = "ended" /\ body' = FALSE
    /\ retiring' = TRUE
    /\ pc' = "uninstalling" /\ turn' = "driver"
    /\ UNCHANGED <<driver, cause, armed, bound, calls, result>>

\* Ended::fail_stopped.  A joined retirement that is over ends the run, one
\* that is not goes on without the body.
ReturnFailStopped ==
    /\ BodyRuns
    /\ owner = "proof"
    /\ owner' = "ended" /\ body' = FALSE
    /\ retiring' = TRUE
    /\ UNCHANGED <<driver, cause, bound>>
    /\ CASE pc = "joinBody" -> armed' = FALSE /\ Quarantined("FailStopped", calls)
         [] pc = "join" -> /\ pc' = "joinRetire" /\ turn' = "driver"
                           /\ UNCHANGED <<armed, calls, result>>
         [] OTHER -> /\ pc' = "failStopping" /\ turn' = "driver"
                     /\ armed' = FALSE
                     /\ UNCHANGED <<calls, result>>

-----------------------------------------------------------------------------
(* The core's part of a poll.                                               *)

LatchQuiet ==
    /\ turn = "latch" /\ cause = "live"
    /\ turn' = IF pc = "race" THEN "driver" ELSE "idle"
    /\ UNCHANGED <<pc, owner, body, driver, cause, retiring, armed, bound, calls, result>>

\* Mutant of LatchFailStopped: a fail-stop is handled like a dropped owner.
LatchFailStoppedAsDropped ==
    /\ turn = "latch" /\ cause = "failStopped"
    /\ body' = FALSE /\ armed' = FALSE /\ retiring' = TRUE
    /\ pc' = "abandoning" /\ turn' = "driver"
    /\ UNCHANGED <<owner, driver, cause, bound, calls, result>>

\* An explicit fail-stop: retire the driver while the body goes on.
LatchFailStopped ==
    /\ turn = "latch" /\ cause = "failStopped"
    /\ retiring' = TRUE
    /\ pc' = "join" /\ turn' = "body"
    /\ UNCHANGED <<owner, body, driver, cause, armed, bound, calls, result>>

\* A dropped owner: drop the body, abandon, retire the driver.
LatchAbandoned ==
    /\ turn = "latch" /\ cause = "dropped"
    /\ body' = FALSE
    /\ armed' = FALSE
    /\ calls' = Append(calls, "abandon")
    /\ retiring' = TRUE
    /\ pc' = "abandoning" /\ turn' = "driver"
    /\ UNCHANGED <<owner, driver, cause, bound, result>>

\* retire is over, with the driver ended or its bound missed.
Retired ==
    CASE pc = "join" ->
           /\ pc' = "joinBody" /\ turn' = "body"
           /\ UNCHANGED <<armed, calls, result>>
      [] pc \in {"joinRetire", "failStopping"} ->
           armed' = FALSE /\ Quarantined("FailStopped", calls)
      [] pc = "abandoning" ->
           UNCHANGED armed /\ Quarantined("Abandoned", calls)
      [] pc = "uninstalling" /\ driver' = "timedOut" ->
           armed' = FALSE /\ Quarantined("FailStopped", Append(calls, "abandon"))
      [] pc = "uninstalling" /\ driver' # "timedOut" ->
           /\ armed' = FALSE
           /\ calls' = calls \o <<"detach", "uninstall">>
           /\ result' = "Uninstalled"
           /\ pc' = "ended" /\ turn' = "idle"

\* The driver ended in an earlier poll: retire answers at once.
DriverGone ==
    /\ turn = "driver" /\ driver # "running"
    /\ UNCHANGED <<owner, body, driver, cause, retiring, bound>>
    /\ Retired

\* The driver exits, with the core's request or with its published poison.
DriverExit ==
    /\ turn = "driver" /\ driver = "running"
    /\ \/ retiring /\ driver' = "retired"
       \/ driver' = "faulted"
    /\ UNCHANGED <<owner, body, cause, retiring, bound>>
    /\ IF pc = "race"
       THEN pc' = "drain" /\ turn' = "body" /\ UNCHANGED <<armed, calls, result>>
       ELSE Retired

DriverPending ==
    /\ turn = "driver" /\ driver = "running"
    /\ turn' = IF pc = "race" THEN "idle" ELSE "bound"
    /\ UNCHANGED <<pc, owner, body, driver, cause, retiring, armed, bound, calls, result>>

\* Mutant of BoundPending: every poll starts the bound anew.
BoundRestarted ==
    /\ turn = "bound" /\ bound # "expired"
    /\ turn' = "idle"
    /\ bound' = "unpolled"
    /\ UNCHANGED <<pc, owner, body, driver, cause, retiring, armed, calls, result>>

BoundPending ==
    /\ turn = "bound" /\ bound # "expired"
    /\ turn' = "idle"
    /\ bound' = "running"
    /\ UNCHANGED <<pc, owner, body, driver, cause, retiring, armed, calls, result>>

BoundExpired ==
    /\ turn = "bound" /\ bound = "expired"
    /\ driver' = "timedOut"
    /\ UNCHANGED <<owner, body, cause, retiring, bound>>
    /\ Retired

\* The backend's timer behind retire_bound.
Expire ==
    /\ bound = "running"
    /\ bound' = "expired"
    /\ UNCHANGED <<pc, turn, owner, body, driver, cause, retiring, armed, calls, result>>

Body == Transition \/ FailStop \/ DropOwner \/ Lose \/ BodyPending
          \/ ReturnUninstall \/ ReturnFailStopped
Core == LatchQuiet \/ LatchFailStopped \/ LatchAbandoned \/ DriverGone \/ DriverExit
          \/ DriverPending \/ BoundPending \/ BoundExpired

Next == FirstPoll \/ Poll \/ CancelUnpolled \/ Cancel \/ Body \/ Core \/ Expire

Spec == Init /\ [][Next]_vars

\* A poll once begun is finished, the task is polled while it has work, and
\* the bound's timer expires.  Neither the body's return nor the driver's
\* exit is assumed.
Fairness ==
    /\ WF_vars(FirstPoll) /\ WF_vars(Poll) /\ WF_vars(Expire)
    /\ WF_vars(BodyPending) /\ WF_vars(Core)

FairSpec == Spec /\ Fairness

-----------------------------------------------------------------------------
(* Properties.                                                              *)

Over == pc \in {"ended", "cancelled"}

Count(op) == Len(SelectSeq(calls, LAMBDA c : c = op))

\* An installation has exactly one fate: its backend is abandoned once, or it
\* is uninstalled once, never both and, once run_port is over, never neither,
\* wherever the future was dropped and whatever the body did with its owner
\* (lifecycle.rs:669, :750, :787, :872).
OneFate ==
    /\ Count("abandon") + Count("uninstall") <= 1
    /\ Over => Count("abandon") + Count("uninstall") = 1

\* The backend's entries are detached at most once, only after the driver
\* ended within its bound and the body's loan is over, and an uninstall only
\* consumes a detached installation; a driver that missed its bound is never
\* detached from under (lifecycle.rs:931, :950, :967).
DetachIsSafe ==
    /\ calls \in {<<>>, <<"abandon">>, <<"abandon", "detach">>, <<"detach", "uninstall">>}
    /\ Count("detach") = 1 => driver \in {"retired", "faulted"} /\ ~body

\* What run_port returns is what happened: Uninstalled for a body that asked
\* for it, Abandoned for a dropped owner, FailStopped for an explicit
\* fail-stop or a missed bound (lifecycle.rs:1009).
ResultIsTrue ==
    pc = "ended" =>
        /\ result = "Uninstalled" <=> Count("uninstall") = 1
        /\ result = "Abandoned" <=> cause = "dropped"
        /\ result = "FailStopped" <=>
             cause = "failStopped" \/ (cause = "live" /\ driver = "timedOut")

\* The installation ends: a dropped owner ends it whatever the driver does, a
\* fail-stop retires the driver within its bound even if the body never
\* returns, and once the body is gone the run ends (lifecycle.rs:658).
EndIsBounded ==
    /\ cause = "dropped" ~> Over
    /\ cause = "failStopped" ~> driver # "running" \/ pc = "cancelled"
    /\ ~body ~> Over
=============================================================================
