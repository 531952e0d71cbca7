---------------------------- MODULE RsnHandshake ----------------------------
(***************************************************************************)
(* The RSN four-way handshake of this project's station with this          *)
(* project's access point.  Station: RsnHandshakeRunner, RsnKeyInstall-    *)
(* Runner and RsnConnectedSupplicant around RsnStaState.  Access point:    *)
(* one peer of AccessPointService around RsnApState, with the RsnRetry     *)
(* schedule its EAPOL transmissions arm.  The air loses, repeats, delays   *)
(* and reorders frames, also into a later association.                     *)
(*                                                                         *)
(* A nonce is the number of the association it was drawn for, 0 the zero   *)
(* nonce; a PTK is the pair of nonces it is derived from, and a frame's    *)
(* MIC is the PTK it was computed with.  Both owners resolve the           *)
(* derivations and checks of one frame before they take the next, so the   *)
(* phases and tickets in between are not states here.  A deadline is a     *)
(* step that may be taken at any time.                                     *)
(***************************************************************************)
EXTENDS Naturals, Sequences

CONSTANTS
    MaxJoins,       \* associations of the station
    Attempts,       \* AP_WPA2_RETRY_ATTEMPTS
    InitialReplays  \* initial replay counters the access point draws

ASSUME RsnAssumption ==
    /\ MaxJoins \in Nat
    /\ Attempts \in Nat \ {0}
    /\ InitialReplays \subseteq Nat

VARIABLES
    sta,      \* the station: session phase and RsnStaSupplicant
    ap,       \* the access point's ApPeer
    net,      \* every frame sent so far
    airing,   \* the access point's transmissions without a completion
    installs, \* pairwise keys the station published, in order
    joins     \* associations so far

vars == <<sta, ap, net, airing, installs, joins>>

Ptk(anonce, snonce) == <<anonce, snonce>>
NoPtk == <<0, 0>>

Message1(replay, anonce) ==
    [kind |-> "M1", replay |-> replay, nonce |-> anonce, mic |-> NoPtk]
Message2(replay, snonce, ptk) ==
    [kind |-> "M2", replay |-> replay, nonce |-> snonce, mic |-> ptk]
Message3(replay, anonce, ptk) ==
    [kind |-> "M3", replay |-> replay, nonce |-> anonce, mic |-> ptk]
Message4(replay, ptk) ==
    [kind |-> "M4", replay |-> replay, nonce |-> 0, mic |-> ptk]

VerifyMic(m, ptk) == m.mic = ptk

-----------------------------------------------------------------------------
(* The station.                                                            *)

NoSession ==
    [phase |-> "idle", snonce |-> 0, anonce |-> 0, m1 |-> 0, m3 |-> 0,
     ptk |-> NoPtk, keys |-> NoPtk]

NewSupplicant(snonce) ==
    [NoSession EXCEPT !.phase = "AwaitingMessage1", !.snonce = snonce]

\* start_ptk, then complete_ptk: the PTK is derived and Message 2 follows.
StartPtk(s, m) ==
    [s EXCEPT !.phase = "AwaitingMessage3", !.m1 = m.replay, !.m3 = 0,
              !.anonce = m.nonce, !.ptk = Ptk(m.nonce, s.snonce)]

\* on_message1 while the runner waits: a repeat is answered again, an older
\* counter is stale, anything else restarts the derivation.
AnswersMessage1(s, m) ==
    \/ s.phase = "AwaitingMessage1"
    \/ /\ s.phase = "AwaitingMessage3"
       /\ m.replay >= s.m1

IsRepeatedMessage1(s, m) ==
    s.phase = "AwaitingMessage3" /\ m.replay = s.m1 /\ m.nonce = s.anonce

\* RsnHandshakeRunner.run: a Message 1 yields Message 2, or the transmission
\* fails and the session ends.
StationMessage1(m) ==
    LET next == IF IsRepeatedMessage1(sta, m) THEN sta ELSE StartPtk(sta, m)
    IN  /\ m.kind = "M1"
        /\ AnswersMessage1(sta, m)
        /\ \/ /\ sta' = next
              /\ net' = net \union {Message2(next.m1, next.snonce, next.ptk)}
           \/ /\ sta' = [next EXCEPT !.phase = "Failed"]
              /\ UNCHANGED net
        /\ UNCHANGED <<ap, airing, installs, joins>>

\* Mutant of AcceptsMessage3: any newer Message 3 is taken for the real one.
AcceptsMessage3Unchecked(s, m) == m.replay > s.m1

\* validate_message3_fields, the replay check and the MIC.
AcceptsMessage3(s, m) ==
    m.nonce = s.anonce /\ m.replay > s.m1 /\ VerifyMic(m, s.ptk)

\* An authenticated Message 3: its key data is unwrapped, which may fail, and
\* the runner returns the key installation with receive stopped.
StationMessage3(m) ==
    /\ m.kind = "M3"
    /\ sta.phase = "AwaitingMessage3"
    /\ AcceptsMessage3(sta, m)
    /\ \/ sta' = [sta EXCEPT !.phase = "InstallingKeys", !.m3 = m.replay]
       \/ sta' = [sta EXCEPT !.phase = "Failed", !.m3 = m.replay]
    /\ UNCHANGED <<ap, net, airing, installs, joins>>

\* The response deadline expires, or the backend reports an error.
StationGivesUp ==
    /\ sta.phase \in {"AwaitingMessage1", "AwaitingMessage3"}
    /\ sta' = [sta EXCEPT !.phase = "Failed"]
    /\ UNCHANGED <<ap, net, airing, installs, joins>>

\* RsnKeyInstallRunner.run up to its await: a refused installation publishes
\* nothing; a successful one completes the state and transmits Message 4.
InstallKeys ==
    /\ sta.phase = "InstallingKeys"
    /\ \/ /\ sta' = [sta EXCEPT !.phase = "SendingMessage4", !.keys = sta.ptk]
          /\ installs' = Append(installs, sta.ptk)
          /\ net' = net \union {Message4(sta.m3, sta.ptk)}
       \/ /\ sta' = [sta EXCEPT !.phase = "Failed"]
          /\ UNCHANGED <<installs, net>>
    /\ UNCHANGED <<ap, airing, joins>>

\* The transmission returns: established, or rolled back; the roll-back
\* itself may fail and leave the keys.
Message4Result ==
    /\ sta.phase = "SendingMessage4"
    /\ \/ sta' = [sta EXCEPT !.phase = "Connected"]
       \/ sta' = [sta EXCEPT !.phase = "Failed", !.keys = NoPtk]
       \/ sta' = [sta EXCEPT !.phase = "Failed"]
    /\ UNCHANGED <<ap, net, airing, installs, joins>>

\* Mutant of ConnectedMessage3: the repeated Message 3 installs its key again.
ConnectedMessage3Installs(m) ==
    /\ m.kind = "M3"
    /\ sta.phase = "Connected"
    /\ m.nonce = sta.anonce /\ VerifyMic(m, sta.ptk) /\ m.replay = sta.m3
    /\ net' = net \union {Message4(m.replay, sta.ptk)}
    /\ installs' = Append(installs, sta.ptk)
    /\ UNCHANGED <<sta, ap, airing, joins>>

\* RsnConnectedSupplicant.on_message3: the exact repeat gets Message 4 again.
ConnectedMessage3(m) ==
    /\ m.kind = "M3"
    /\ sta.phase = "Connected"
    /\ m.nonce = sta.anonce /\ VerifyMic(m, sta.ptk) /\ m.replay = sta.m3
    /\ net' = net \union {Message4(m.replay, sta.ptk)}
    /\ UNCHANGED <<sta, ap, airing, installs, joins>>

-----------------------------------------------------------------------------
(* The access point's peer.  state is RsnApState's phase; pending and left *)
(* belong to RsnRetry, alarm is 0 or the generation of its alarm.          *)

NoFrame == [message |-> "none", replay |-> 0]

NewPeer(epoch, replay) ==
    [phase |-> "Securing", state |-> "AwaitingMessage2", epoch |-> epoch,
     anonce |-> epoch, m1 |-> replay, m3 |-> 0, ptk |-> NoPtk,
     generation |-> 0, pending |-> NoFrame, left |-> 0, alarm |-> 0,
     begun |-> FALSE, granted |-> FALSE, closing |-> FALSE]

NoPeer == [NewPeer(0, 0) EXCEPT !.phase = "none"]

\* RsnRetry.cancel, together with the peer's alarm.
Cancelled(p) ==
    [p EXCEPT !.generation = @ + 1, !.pending = NoFrame, !.left = 0, !.alarm = 0]

\* RsnRetry.arm.
Armed(p, frame) ==
    [p EXCEPT !.generation = @ + 1, !.pending = frame, !.left = Attempts,
              !.alarm = p.generation + 1]

InitialFrame(p) == [message |-> "M1", replay |-> p.m1]

\* retry_transmit: the frame that owns the current response window; there is
\* none once the authenticator is authorized or has failed (WrongPhase).
RetryTransmit(p) ==
    CASE p.state = "AwaitingMessage2" -> InitialFrame(p)
      [] p.state = "AwaitingMessage4" -> [message |-> "M3", replay |-> p.m3]
      [] OTHER -> NoFrame

Built(p, frame) ==
    IF frame.message = "M1" THEN Message1(frame.replay, p.anonce)
    ELSE Message3(frame.replay, p.anonce, p.ptk)

Publish(p, frame, retransmission) ==
    /\ net' = net \union {Built(p, frame)}
    /\ airing' = airing \union
          {[epoch |-> p.epoch, frame |-> frame, retransmission |-> retransmission]}

\* begin_wpa2_frame, after the Association Response's completion.
BeginWpa2 ==
    /\ ap.phase = "Securing" /\ ~ap.begun
    /\ ap.state = "AwaitingMessage2"
    /\ ap' = [ap EXCEPT !.begun = TRUE]
    /\ Publish(ap, RetryTransmit(ap), FALSE)
    /\ UNCHANGED <<sta, installs, joins>>

\* Mutant of Superseded: only another association supersedes a completion.
SupersededByAssociation(p, c) == p.phase = "none" \/ p.epoch # c.epoch

\* observe_wpa2_transmit: completions that no longer own the window.
Superseded(p, c) ==
    \/ p.phase = "none" \/ p.epoch # c.epoch
    \/ p.phase # "Securing"
    \/ p.state \in {"Authorized", "Failed"}
    \/ RetryTransmit(p) # c.frame

ObserveTransmit(c) ==
    /\ airing' = airing \ {c}
    /\ ap' = IF Superseded(ap, c) THEN ap
             ELSE IF ap.pending.message # c.frame.message \/ ~c.retransmission
                  THEN Armed(Cancelled(ap), c.frame)
                  ELSE ap
    /\ UNCHANGED <<sta, net, installs, joins>>

\* Mutant of AfterAlarm: the last retransmission leaves no alarm behind.
AfterAlarmLastIsSilent(p) ==
    [p EXCEPT !.left = @ - 1, !.alarm = IF p.left = 1 THEN 0 ELSE p.generation]

\* on_alarm with attempts left: every retransmission keeps a response window.
AfterAlarm(p) == [p EXCEPT !.left = @ - 1, !.alarm = p.generation]

\* take_due_wpa2_retry: nothing for a stale alarm, the pending message again,
\* or the close of a peer whose attempts are used up.
TakeDueRetry ==
    LET stale == ap.alarm # ap.generation \/ ap.pending = NoFrame
        exhausted == ap.left = 0
    IN  /\ ap.phase # "none" /\ ap.alarm # 0
        /\ ap' = IF stale THEN [ap EXCEPT !.alarm = 0]
                 ELSE IF exhausted
                 THEN [Cancelled(ap) EXCEPT !.phase = "Closing", !.closing = TRUE]
                 ELSE AfterAlarm(ap)
        /\ IF stale \/ exhausted THEN UNCHANGED <<net, airing>>
           ELSE Publish(ap, ap.pending, TRUE)
        /\ UNCHANGED <<sta, installs, joins>>

\* complete_message2: the valid Message 2 closes the Message 1 window.
Secured(p, ptk) ==
    [Cancelled(p) EXCEPT !.state = "AwaitingMessage4", !.m3 = p.m1 + 1, !.ptk = ptk]

\* complete_message2 when the security elements are not the ones of the
\* association: the authenticator has failed, the Message 1 window stays, and
\* the caller is asked to deauthenticate the peer.
Mismatched(p) == [p EXCEPT !.state = "Failed"]

\* on_eapol, Message 2: an invalid MIC leaves the Message 1 transaction.  The
\* elements are not in the model: a valid Message 2 echoes them or does not.
AccessPointMessage2(m) ==
    LET ptk == Ptk(ap.anonce, m.nonce)
        frame == [message |-> "M3", replay |-> ap.m1 + 1]
    IN  /\ m.kind = "M2"
        /\ ap.phase # "none" /\ ap.state = "AwaitingMessage2"
        /\ m.replay = ap.m1
        /\ VerifyMic(m, ptk)
        /\ \/ ap' = Secured(ap, ptk) /\ Publish(Secured(ap, ptk), frame, FALSE)
           \/ ap' = Mismatched(ap) /\ UNCHANGED <<net, airing>>
        /\ UNCHANGED <<sta, installs, joins>>

\* begin_wpa2_failure_close, the caller's answer to DeauthenticatePeer.
FailureClose ==
    /\ ap.phase = "Securing" /\ ap.state = "Failed"
    /\ ap' = [Cancelled(ap) EXCEPT !.phase = "Closing", !.closing = TRUE]
    /\ UNCHANGED <<sta, net, airing, installs, joins>>

\* Mutant of AcceptsMessage4: the replay counter alone is trusted.
AcceptsMessage4Replay(p, m) == m.replay = p.m3

AcceptsMessage4(p, m) == m.replay = p.m3 /\ VerifyMic(m, p.ptk)

\* on_eapol, Message 4: the state is authorized and the retry ends.
AccessPointMessage4(m) ==
    /\ m.kind = "M4"
    /\ ap.phase # "none" /\ ap.state = "AwaitingMessage4"
    /\ AcceptsMessage4(ap, m)
    /\ ap' = [Cancelled(ap) EXCEPT !.state = "Authorized", !.granted = TRUE]
    /\ UNCHANGED <<sta, net, airing, installs, joins>>

\* authorize, after the hardware keys of the peer were installed.
Authorize ==
    /\ ap.phase # "none" /\ ap.granted /\ ap.state = "Authorized"
    /\ ap' = [Cancelled(ap) EXCEPT !.phase = "Authorized", !.granted = FALSE]
    /\ UNCHANGED <<sta, net, airing, installs, joins>>

\* begin_due_peer_close, begin_stop_peer.
BeginClose ==
    /\ ap.phase \notin {"none", "Closing"}
    /\ ap' = [ap EXCEPT !.phase = "Closing", !.closing = TRUE]
    /\ UNCHANGED <<sta, net, airing, installs, joins>>

\* remove_peer, by the owner of the close.
RemovePeer ==
    /\ ap.phase # "none" /\ ap.closing
    /\ ap' = NoPeer
    /\ UNCHANGED <<sta, net, airing, installs, joins>>

-----------------------------------------------------------------------------
\* The station authenticates and associates: authenticate and associate_rsn
\* give the peer a fresh entry, and the station's runner starts.
Join(replay) ==
    /\ sta.phase \in {"idle", "Failed", "Connected"}
    /\ joins < MaxJoins
    /\ joins' = joins + 1
    /\ sta' = NewSupplicant(joins + 1)
    /\ ap' = NewPeer(joins + 1, replay)
    /\ UNCHANGED <<net, airing, installs>>

Init ==
    /\ sta = NoSession
    /\ ap = NoPeer
    /\ net = {}
    /\ airing = {}
    /\ installs = <<>>
    /\ joins = 0

Next ==
    \/ \E replay \in InitialReplays : Join(replay)
    \/ \E m \in net :
          \/ StationMessage1(m) \/ StationMessage3(m) \/ ConnectedMessage3(m)
          \/ AccessPointMessage2(m) \/ AccessPointMessage4(m)
    \/ StationGivesUp \/ InstallKeys \/ Message4Result
    \/ BeginWpa2 \/ TakeDueRetry \/ Authorize \/ FailureClose \/ BeginClose \/ RemovePeer
    \/ \E c \in airing : ObserveTransmit(c)

Spec == Init /\ [][Next]_vars

\* Transmissions complete, alarms fire, and the owner of the peer does what the
\* service asks of it: the keys of a granted peer are installed, a failed peer
\* is deauthenticated.  Nothing is assumed of the air, the station or the
\* inactivity deadline.
Fairness ==
    /\ WF_vars(BeginWpa2)
    /\ WF_vars(\E c \in airing : ObserveTransmit(c))
    /\ WF_vars(TakeDueRetry)
    /\ WF_vars(Authorize)
    /\ WF_vars(FailureClose)

FairSpec == Spec /\ Fairness

-----------------------------------------------------------------------------
\* The access point authorizes a station only for a key that station has
\* published: no frame of an earlier association completes this one.
AuthorizedMeansInstalled ==
    ap.state = "Authorized" => \E i \in 1..Len(installs) : installs[i] = ap.ptk

\* No pairwise key is published twice, however often Message 3 is repeated:
\* its packet numbers never restart.
InstallOnce ==
    \A i, j \in 1..Len(installs) : installs[i] = installs[j] => i = j

\* The station publishes keys only when the access point of the same
\* association has derived the same ones.
KeysAgree ==
    (sta.keys # NoPtk /\ ap.phase # "none" /\ ap.epoch = sta.snonce)
        => ap.ptk = sta.keys

WindowFrame(p) == IF p.state = "Failed" THEN InitialFrame(p) ELSE RetryTransmit(p)

\* An armed retry schedule holds the message of the current response window,
\* whatever completion or frame arrived last.  A failed authenticator has no
\* window any more: what is still armed then is the Message 1 it failed on,
\* and no late completion arms anything else.
RetryOwnsWindow ==
    (ap.phase = "Securing" /\ ap.alarm # 0)
        => /\ ap.alarm = ap.generation
           /\ ap.state # "Authorized"
           /\ ap.pending = WindowFrame(ap)

\* A handshake does not stay open: without any help of the inactivity
\* deadline the peer is authorized, closed, or starts another association.
HandshakeSettles ==
    \A epoch \in 1..MaxJoins :
        (ap.phase = "Securing" /\ ap.epoch = epoch)
            ~> (ap.phase # "Securing" \/ ap.epoch # epoch)
=============================================================================
