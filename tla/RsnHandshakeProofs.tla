-------------------------- MODULE RsnHandshakeProofs -------------------------
(***************************************************************************)
(* Safety of the four-way handshake for every number of associations,      *)
(* every retry budget and every initial replay counter, over an air that   *)
(* loses, repeats, delays and reorders frames.                             *)
(***************************************************************************)
EXTENDS RsnHandshake, TLAPS

Ptks == Nat \X Nat

Messages ==
    [kind : {"M1", "M2", "M3", "M4"}, replay : Nat, nonce : Nat, mic : Ptks]

Stations ==
    [phase : {"idle", "AwaitingMessage1", "AwaitingMessage3", "InstallingKeys",
              "SendingMessage4", "Connected", "Failed"},
     snonce : Nat, anonce : Nat, m1 : Nat, m3 : Nat, ptk : Ptks, keys : Ptks]

Frames == [message : {"none", "M1", "M3"}, replay : Nat]

Peers ==
    [phase : {"none", "Securing", "Authorized", "Closing"},
     state : {"AwaitingMessage2", "AwaitingMessage4", "Authorized", "Failed"},
     epoch : Nat, anonce : Nat, m1 : Nat, m3 : Nat, ptk : Ptks,
     generation : Nat, pending : Frames, left : Nat, alarm : Nat,
     begun : BOOLEAN, granted : BOOLEAN, closing : BOOLEAN]

Completions == [epoch : Nat, frame : Frames, retransmission : BOOLEAN]

RsnTyped ==
    /\ sta \in Stations /\ ap \in Peers
    /\ net \subseteq Messages /\ airing \subseteq Completions
    /\ installs \in Seq(Ptks) /\ joins \in Nat

Installed(ptk) == \E i \in 1..Len(installs) : installs[i] = ptk

Message3Of(ptk) == \E m \in net : m.kind = "M3" /\ m.mic = ptk

(***************************************************************************)
(* What every frame on the air says of its sender, also when it arrives in *)
(* a later association: Message 2 carries the nonce its MIC's key was      *)
(* derived from; Message 3 was sent for a key whose station nonce is not   *)
(* newer than the access point's, and the current association has one such *)
(* key; Message 4 was sent for a key already installed.                    *)
(***************************************************************************)
Said(m) ==
    /\ m.kind = "M2" => m.mic[2] = m.nonce /\ m.nonce <= joins
    /\ m.kind = "M3" =>
         /\ m.mic[1] = m.nonce /\ m.mic[2] <= m.nonce /\ m.nonce <= joins
         /\ ap.phase # "none" /\ m.nonce = ap.epoch =>
              ap.state # "AwaitingMessage2" /\ m.mic = ap.ptk
    /\ m.kind = "M4" => Installed(m.mic)

AirInv == \A m \in net : Said(m)

\* The station's nonce is its association's; a key it holds was confirmed by a
\* Message 3, and none of this association is installed before its turn.
StationInv ==
    /\ sta.snonce = joins
    /\ sta.phase \in {"AwaitingMessage3", "InstallingKeys", "SendingMessage4", "Connected"}
         => sta.ptk = Ptk(sta.anonce, sta.snonce)
    /\ sta.phase \in {"InstallingKeys", "SendingMessage4", "Connected"} => Message3Of(sta.ptk)
    /\ sta.phase \in {"idle", "AwaitingMessage1", "AwaitingMessage3", "InstallingKeys"} =>
         sta.keys = NoPtk
    /\ sta.keys # NoPtk =>
         sta.keys[2] = sta.snonce /\ Message3Of(sta.keys)
    /\ sta.phase \in {"SendingMessage4", "Connected"} => Installed(sta.ptk)

InstallInv ==
    /\ InstallOnce
    /\ \A i \in 1..Len(installs) : installs[i][2] <= joins
    /\ sta.phase \in {"AwaitingMessage1", "AwaitingMessage3", "InstallingKeys"} =>
         \A i \in 1..Len(installs) : installs[i][2] # sta.snonce

\* The peer belongs to the latest association, its key to its own nonce, and
\* its retry schedule to the response window it is in.
PeerInv ==
    /\ ap.phase # "none" => ap.epoch = joins /\ ap.anonce = joins
    /\ ap.state \in {"AwaitingMessage4", "Authorized"} =>
         ap.ptk[1] = ap.anonce /\ ap.ptk[2] <= ap.anonce
    /\ ap.state = "Authorized" => Installed(ap.ptk)
    /\ ap.pending.message = "M1" => ap.state \in {"AwaitingMessage2", "Failed"}
    /\ ap.pending.message = "M3" => ap.state = "AwaitingMessage4"
    /\ ap.alarm # 0 =>
         /\ ap.alarm = ap.generation
         /\ ap.state # "Authorized"
         /\ ap.pending = WindowFrame(ap)

HandshakeInv == RsnTyped /\ AirInv /\ StationInv /\ InstallInv /\ PeerInv

-----------------------------------------------------------------------------
(* The operators of the two owners, field by field.                         *)

\* A key is its pair of nonces.
LEMMA PtkType ==
    /\ NoPtk \in Ptks
    /\ \A a, b \in Nat : Ptk(a, b) \in Ptks /\ Ptk(a, b)[1] = a /\ Ptk(a, b)[2] = b
BY DEF Ptks, Ptk, NoPtk

\* A key is determined by its two nonces.
LEMMA PtkParts ==
    ASSUME NEW k \in Ptks
    PROVE  k[1] \in Nat /\ k[2] \in Nat /\ k = Ptk(k[1], k[2])
BY DEF Ptks, Ptk

\* What each of the four messages carries.
LEMMA MessageTypes ==
    ASSUME NEW r \in Nat, NEW n \in Nat, NEW k \in Ptks
    PROVE  /\ Message1(r, n) \in Messages /\ Message1(r, n).kind = "M1"
           /\ Message2(r, n, k) \in Messages /\ Message2(r, n, k).kind = "M2"
           /\ Message2(r, n, k).nonce = n /\ Message2(r, n, k).mic = k
           /\ Message3(r, n, k) \in Messages /\ Message3(r, n, k).kind = "M3"
           /\ Message3(r, n, k).nonce = n /\ Message3(r, n, k).mic = k
           /\ Message4(r, k) \in Messages /\ Message4(r, k).kind = "M4"
           /\ Message4(r, k).mic = k
BY PtkType DEF Messages, Message1, Message2, Message3, Message4

\* A new association's supplicant and peer.
LEMMA NewTypes ==
    ASSUME NEW e \in Nat, NEW r \in Nat
    PROVE  /\ NewSupplicant(e) \in Stations
           /\ NewSupplicant(e).phase = "AwaitingMessage1" /\ NewSupplicant(e).snonce = e
           /\ NewSupplicant(e).keys = NoPtk
           /\ NewPeer(e, r) \in Peers
           /\ NewPeer(e, r).epoch = e /\ NewPeer(e, r).anonce = e
           /\ NewPeer(e, r).state = "AwaitingMessage2" /\ NewPeer(e, r).alarm = 0
           /\ NewPeer(e, r).pending.message = "none"
BY PtkType, Zenon DEF NewSupplicant, NoSession, NewPeer, NoFrame, Stations, Peers, Frames

\* No session and no peer hold neither keys nor alarms.
LEMMA NoTypes ==
    /\ NoSession \in Stations /\ NoSession.phase = "idle" /\ NoSession.snonce = 0
    /\ NoSession.keys = NoPtk
    /\ NoPeer \in Peers /\ NoPeer.phase = "none" /\ NoPeer.state = "AwaitingMessage2"
    /\ NoPeer.alarm = 0 /\ NoPeer.pending.message = "none"
<1>1. NoSession \in Stations /\ NoSession.phase = "idle" /\ NoSession.snonce = 0
      /\ NoSession.keys = NoPtk
    BY PtkType DEF NoSession, Stations
<1>2. NewPeer(0, 0) \in Peers /\ NewPeer(0, 0).state = "AwaitingMessage2"
      /\ NewPeer(0, 0).alarm = 0 /\ NewPeer(0, 0).pending.message = "none"
    BY NewTypes
<1>3. NoPeer = [NewPeer(0, 0) EXCEPT !.phase = "none"]
    BY DEF NoPeer
<1> HIDE DEF NewPeer
<1> QED BY <1>1, <1>2, <1>3 DEF Peers

\* What no operation on the retry schedule touches.
SameWindow(p, q) ==
    /\ q.phase = p.phase /\ q.state = p.state
    /\ q.epoch = p.epoch /\ q.anonce = p.anonce
    /\ q.m1 = p.m1 /\ q.m3 = p.m3 /\ q.ptk = p.ptk

\* RsnRetry::cancel.
LEMMA CancelledFields ==
    ASSUME NEW p \in Peers
    PROVE  /\ Cancelled(p) \in Peers /\ SameWindow(p, Cancelled(p))
           /\ Cancelled(p).alarm = 0 /\ Cancelled(p).pending.message = "none"
<1>1. p.generation + 1 \in Nat /\ 0 \in Nat
    BY DEF Peers
<1>2. NoFrame \in Frames /\ NoFrame.message = "none"
    BY DEF NoFrame, Frames
<1>3. Cancelled(p) \in Peers
    BY <1>1, <1>2, ZenonT(20) DEF Cancelled, Peers
<1>4. SameWindow(p, Cancelled(p))
    BY ZenonT(20) DEF Cancelled, Peers, SameWindow
<1>5. Cancelled(p).alarm = 0 /\ Cancelled(p).pending = NoFrame
    BY ZenonT(20) DEF Cancelled, Peers
<1> QED BY <1>2, <1>3, <1>4, <1>5

\* RsnRetry::arm.
LEMMA ArmedFields ==
    ASSUME NEW p \in Peers, NEW f \in Frames
    PROVE  /\ Armed(p, f) \in Peers /\ SameWindow(p, Armed(p, f))
           /\ Armed(p, f).alarm = Armed(p, f).generation
           /\ Armed(p, f).pending = f
<1>1. p.generation + 1 \in Nat /\ Attempts \in Nat
    BY RsnAssumption DEF Peers
<1>2. Armed(p, f) \in Peers
    BY <1>1, ZenonT(20) DEF Armed, Peers
<1>3. SameWindow(p, Armed(p, f))
    BY ZenonT(20) DEF Armed, Peers, SameWindow
<1>4. Armed(p, f).alarm = Armed(p, f).generation /\ Armed(p, f).pending = f
    BY ZenonT(20) DEF Armed, Peers
<1> QED BY <1>2, <1>3, <1>4

\* A taken retry stays in its response window and arms the next alarm.
LEMMA AfterAlarmFields ==
    ASSUME NEW p \in Peers, p.left # 0
    PROVE  /\ AfterAlarm(p) \in Peers /\ SameWindow(p, AfterAlarm(p))
           /\ AfterAlarm(p).alarm = AfterAlarm(p).generation
           /\ AfterAlarm(p).pending = p.pending
<1>1. p.left - 1 \in Nat /\ p.generation \in Nat
    BY DEF Peers
<1>2. AfterAlarm(p) \in Peers
    BY <1>1, ZenonT(20) DEF AfterAlarm, Peers
<1>3. SameWindow(p, AfterAlarm(p))
    BY ZenonT(20) DEF AfterAlarm, Peers, SameWindow
<1>4. AfterAlarm(p).alarm = AfterAlarm(p).generation /\ AfterAlarm(p).pending = p.pending
    BY ZenonT(20) DEF AfterAlarm, Peers
<1> QED BY <1>2, <1>3, <1>4

\* The frame of the response window depends on nothing else.
LEMMA RetryTransmitFields ==
    ASSUME NEW p \in Peers
    PROVE  /\ RetryTransmit(p) \in Frames
           /\ p.state = "AwaitingMessage2" => RetryTransmit(p).message = "M1"
           /\ p.state = "AwaitingMessage4" => RetryTransmit(p).message = "M3"
           /\ \A q : SameWindow(p, q) => RetryTransmit(q) = RetryTransmit(p)
BY DEF RetryTransmit, InitialFrame, NoFrame, Peers, Frames, SameWindow

\* The frame an armed schedule holds is one of the two that are retried.
LEMMA WindowFrameFields ==
    ASSUME NEW p \in Peers
    PROVE  /\ p.state \in {"AwaitingMessage2", "Failed"} => WindowFrame(p).message = "M1"
           /\ p.state = "AwaitingMessage4" => WindowFrame(p).message = "M3"
           /\ p.state # "Failed" => WindowFrame(p) = RetryTransmit(p)
           /\ \A q : SameWindow(p, q) => WindowFrame(q) = WindowFrame(p)
<1>1. InitialFrame(p).message = "M1"
    BY DEF InitialFrame
<1>2. \A q : SameWindow(p, q) => InitialFrame(q) = InitialFrame(p) /\ q.state = p.state
    BY DEF InitialFrame, SameWindow
<1> QED BY <1>1, <1>2, RetryTransmitFields DEF WindowFrame

\* A frame is built from the peer's nonce and key.
LEMMA BuiltType ==
    ASSUME NEW p \in Peers, NEW f \in Frames
    PROVE  /\ Built(p, f) \in Messages
           /\ f.message = "M1" => Built(p, f).kind = "M1"
           /\ f.message # "M1" => /\ Built(p, f).kind = "M3" /\ Built(p, f).nonce = p.anonce
                                  /\ Built(p, f).mic = p.ptk
BY MessageTypes DEF Built, Peers, Frames

-----------------------------------------------------------------------------
(* What a step of one owner leaves of the invariant.                        *)

\* A step that keeps the installed keys keeps what the old frames say, as
\* long as every Message 3 of the peer's association carries the peer's key.
LEMMA SaidStays ==
    ASSUME HandshakeInv,
           joins' \in Nat, joins <= joins',
           \A k \in Ptks : Installed(k) => Installed(k)',
           \A m \in net : (m.kind = "M3" /\ ap'.phase # "none" /\ m.nonce = ap'.epoch) =>
               ap'.state # "AwaitingMessage2" /\ m.mic = ap'.ptk
    PROVE  \A m \in net : Said(m)'
<1> SUFFICES ASSUME NEW m \in net PROVE Said(m)'
    OBVIOUS
<1>1. Said(m) /\ m \in Messages /\ joins \in Nat
    BY DEF HandshakeInv, AirInv, RsnTyped
<1>2. m.nonce \in Nat /\ m.mic \in Ptks
    BY <1>1 DEF Messages
<1>3. m.nonce <= joins => m.nonce <= joins'
    BY <1>1, <1>2
<1> QED BY <1>1, <1>2, <1>3 DEF Said

\* Peer-only steps keep the station's side.
LEMMA StationStays ==
    ASSUME HandshakeInv, UNCHANGED <<sta, installs, joins>>, net \subseteq net'
    PROVE  StationInv' /\ InstallInv'
<1>1. \A k : Message3Of(k) => Message3Of(k)'
    BY DEF Message3Of
<1>2. \A k : Installed(k) => Installed(k)'
    BY DEF Installed
<1>3. StationInv'
    BY <1>1, <1>2 DEF HandshakeInv, StationInv
<1>4. InstallInv'
    BY DEF HandshakeInv, InstallInv, InstallOnce
<1> QED BY <1>3, <1>4

\* A step of the access point, up to its own obligations.
LEMMA PeerStep ==
    ASSUME HandshakeInv, UNCHANGED <<sta, installs, joins>>,
           ap' \in Peers, airing' \subseteq Completions,
           net \subseteq net', net' \subseteq Messages,
           PeerInv',
           \A m \in net' : m \notin net => Said(m)',
           \A m \in net : (m.kind = "M3" /\ ap'.phase # "none" /\ m.nonce = ap'.epoch) =>
               ap'.state # "AwaitingMessage2" /\ m.mic = ap'.ptk
    PROVE  HandshakeInv'
<1>1. StationInv' /\ InstallInv'
    BY StationStays
<1>2. joins \in Nat /\ joins' = joins
    BY DEF HandshakeInv, RsnTyped
<1>3. \A k \in Ptks : Installed(k) => Installed(k)'
    BY DEF Installed
<1>4. \A m \in net : Said(m)'
    BY <1>2, <1>3, SaidStays
<1>5. AirInv'
    BY <1>4 DEF AirInv
<1>6. RsnTyped'
    BY DEF HandshakeInv, RsnTyped
<1> QED BY <1>1, <1>5, <1>6 DEF HandshakeInv

\* The same for a step that stays in the association with the same key and
\* does not go back to waiting for Message 2.
LEMMA WindowStep ==
    ASSUME HandshakeInv, UNCHANGED <<sta, installs, joins>>,
           ap' \in Peers, airing' \subseteq Completions,
           net \subseteq net', net' \subseteq Messages,
           PeerInv',
           \A m \in net' : m \notin net => Said(m)',
           ap.phase # "none" \/ ap'.phase = "none",
           ap'.epoch = ap.epoch, ap'.ptk = ap.ptk,
           ap.state = "AwaitingMessage2" \/ ap'.state # "AwaitingMessage2"
    PROVE  HandshakeInv'
<1>1. ASSUME NEW m \in net, m.kind = "M3", ap'.phase # "none", m.nonce = ap'.epoch
      PROVE  ap'.state # "AwaitingMessage2" /\ m.mic = ap'.ptk
    BY <1>1 DEF HandshakeInv, AirInv, Said
<1> QED BY <1>1, PeerStep

\* A station step sends what it may, and the peer does not move.
LEMMA StationStep ==
    ASSUME HandshakeInv, UNCHANGED <<ap, airing, joins>>,
           sta' \in Stations, installs' \in Seq(Ptks),
           \A k \in Ptks : Installed(k) => Installed(k)',
           net \subseteq net', net' \subseteq Messages,
           \A m \in net' : m \notin net => Said(m)',
           StationInv', InstallInv'
    PROVE  HandshakeInv'
<1>1. joins \in Nat /\ joins' = joins /\ ap \in Peers
    BY DEF HandshakeInv, RsnTyped
<1>2. \A m \in net : (m.kind = "M3" /\ ap'.phase # "none" /\ m.nonce = ap'.epoch) =>
          ap'.state # "AwaitingMessage2" /\ m.mic = ap'.ptk
    BY DEF HandshakeInv, AirInv, Said
<1>3. \A m \in net : Said(m)'
    BY <1>1, <1>2, SaidStays
<1>4. AirInv'
    BY <1>3 DEF AirInv
<1>5. RsnTyped'
    BY DEF HandshakeInv, RsnTyped
<1>6. ap.ptk \in Ptks
    BY <1>1 DEF Peers
<1>7. PeerInv'
    BY <1>1, <1>6 DEF HandshakeInv, PeerInv, WindowFrame, RetryTransmit, InitialFrame
<1> QED BY <1>4, <1>5, <1>7 DEF HandshakeInv

-----------------------------------------------------------------------------
(* The access point's steps.                                                *)

\* Starting the handshake with Message 1 keeps the invariant.
LEMMA BeginWpa2Inv ==
    ASSUME HandshakeInv, BeginWpa2
    PROVE  HandshakeInv'
<1> DEFINE f == RetryTransmit(ap)
           c == [epoch |-> ap.epoch, frame |-> f, retransmission |-> FALSE]
<1>1. ap \in Peers /\ net \subseteq Messages /\ airing \subseteq Completions /\ PeerInv
    BY DEF HandshakeInv, RsnTyped
<1>2. f \in Frames /\ f.message = "M1"
    BY <1>1, RetryTransmitFields DEF BeginWpa2
<1>3. Built(ap, f) \in Messages /\ Built(ap, f).kind = "M1"
    BY <1>1, <1>2, BuiltType
<1>4. c \in Completions
    BY <1>1, <1>2 DEF Completions, Peers
<1>5. net' = net \union {Built(ap, f)} /\ airing' = airing \union {c}
    BY DEF BeginWpa2, Publish
<1>6. UNCHANGED <<sta, installs, joins>> /\ ap.phase # "none" /\ ap' = [ap EXCEPT !.begun = TRUE]
    BY DEF BeginWpa2
<1>7. ap' \in Peers
    BY <1>1, <1>6, ZenonT(20) DEF Peers
<1>8. /\ SameWindow(ap, ap') /\ ap'.alarm = ap.alarm /\ ap'.generation = ap.generation
      /\ ap'.pending = ap.pending
    BY <1>1, <1>6, ZenonT(20) DEF Peers, SameWindow
<1>9. PeerInv'
    <2>1. WindowFrame(ap') = WindowFrame(ap)
        BY <1>1, <1>8, WindowFrameFields
    <2>2. Installed(ap.ptk) => Installed(ap.ptk)'
        BY <1>6, <1>8 DEF Installed, SameWindow
    <2> QED BY <1>1, <1>6, <1>8, <2>1, <2>2 DEF PeerInv, SameWindow
<1>10. \A m \in net' : m \notin net => Said(m)'
    BY <1>3, <1>5 DEF Said
<1> HIDE DEF f, c
<1>11. /\ airing' \subseteq Completions /\ net \subseteq net' /\ net' \subseteq Messages
       /\ ap'.epoch = ap.epoch /\ ap'.ptk = ap.ptk /\ ap'.state = ap.state
    BY <1>1, <1>3, <1>4, <1>5, <1>8 DEF SameWindow
<1> QED BY <1>6, <1>7, <1>9, <1>10, <1>11, WindowStep

\* The retry schedule sends the peer's own Message 3 or an M1 again.
LEMMA PendingIsSaid ==
    ASSUME HandshakeInv, UNCHANGED <<installs, joins>>,
           ap.phase # "none", ap.alarm # 0, SameWindow(ap, ap'),
           NEW m, m = Built(ap, ap.pending)
    PROVE  Said(m)'
<1>1. ap \in Peers /\ ap.ptk \in Ptks /\ ap.pending \in Frames /\ joins \in Nat /\ PeerInv
    BY DEF HandshakeInv, RsnTyped, Peers
<1>2. CASE ap.pending.message = "M1"
    BY <1>1, <1>2, BuiltType DEF Said
<1>3. CASE ap.pending.message # "M1"
    <2>1. ap.state = "AwaitingMessage4"
        BY <1>1, <1>3, WindowFrameFields DEF PeerInv, Peers
    <2>2. m.kind = "M3" /\ m.nonce = ap.anonce /\ m.mic = ap.ptk
        BY <1>1, <1>3, BuiltType
    <2>3. ap.ptk[1] = ap.anonce /\ ap.ptk[2] <= ap.anonce /\ ap.anonce = joins
        BY <1>1, <2>1 DEF PeerInv
    <2>4. joins <= joins' /\ joins' = joins
        BY <1>1
    <2> QED BY <1>1, <2>1, <2>2, <2>3, <2>4 DEF Said, SameWindow
<1> QED BY <1>2, <1>3

\* A due retry keeps the invariant.
LEMMA TakeDueRetryInv ==
    ASSUME HandshakeInv, TakeDueRetry
    PROVE  HandshakeInv'
<1>1. /\ ap \in Peers /\ net \subseteq Messages /\ airing \subseteq Completions /\ PeerInv
      /\ ap.pending \in Frames
    BY DEF HandshakeInv, RsnTyped, Peers
<1>2. UNCHANGED <<sta, installs, joins>> /\ ap.phase # "none" /\ ap.alarm # 0
    BY DEF TakeDueRetry
<1>3. ap.alarm = ap.generation /\ ap.pending = WindowFrame(ap) /\ ap.pending # NoFrame
    <2>1. ap.alarm = ap.generation /\ ap.pending = WindowFrame(ap) /\ ap.state # "Authorized"
        BY <1>1, <1>2 DEF PeerInv
    <2>2. NoFrame.message = "none"
        BY DEF NoFrame
    <2>3. ap.pending.message \in {"M1", "M3"}
        BY <1>1, <2>1, WindowFrameFields DEF Peers
    <2> QED BY <2>1, <2>2, <2>3
<1>4. CASE ap.left = 0
    <2>1. /\ ap' = [Cancelled(ap) EXCEPT !.phase = "Closing", !.closing = TRUE]
          /\ UNCHANGED <<net, airing>>
        BY <1>3, <1>4 DEF TakeDueRetry
    <2> DEFINE q == Cancelled(ap)
    <2>2. q \in Peers /\ SameWindow(ap, q) /\ q.alarm = 0 /\ q.pending.message = "none"
        BY <1>1, CancelledFields
    <2>3. ap' = [q EXCEPT !.phase = "Closing", !.closing = TRUE]
        BY <2>1
    <2> HIDE DEF q
    <2>4. ap' \in Peers
        BY <2>2, <2>3, ZenonT(20) DEF Peers
    <2>5. /\ ap'.phase = "Closing" /\ ap'.state = q.state /\ ap'.epoch = q.epoch
          /\ ap'.anonce = q.anonce /\ ap'.ptk = q.ptk /\ ap'.alarm = q.alarm
          /\ ap'.pending = q.pending
        BY <2>2, <2>3, ZenonT(20) DEF Peers
    <2>6. /\ ap'.state = ap.state /\ ap'.epoch = ap.epoch /\ ap'.anonce = ap.anonce
          /\ ap'.ptk = ap.ptk /\ ap'.alarm = 0 /\ ap'.pending.message = "none"
        BY <2>2, <2>5 DEF SameWindow
    <2>7. Installed(ap.ptk) => Installed(ap.ptk)'
        BY <1>2, <2>6 DEF Installed
    <2>8. PeerInv'
        BY <1>1, <1>2, <2>6, <2>7 DEF PeerInv
    <2> QED BY <1>1, <1>2, <2>1, <2>4, <2>6, <2>8, WindowStep
<1>5. CASE ap.left # 0
    <2> DEFINE c == [epoch |-> ap.epoch, frame |-> ap.pending, retransmission |-> TRUE]
               b == Built(ap, ap.pending)
    <2>1. ap' = AfterAlarm(ap) /\ net' = net \union {b} /\ airing' = airing \union {c}
        BY <1>3, <1>5 DEF TakeDueRetry, Publish
    <2>2. /\ ap' \in Peers /\ SameWindow(ap, ap') /\ ap'.alarm = ap'.generation
          /\ ap'.pending = ap.pending
        BY <1>1, <1>5, <2>1, AfterAlarmFields
    <2>3. c \in Completions
        BY <1>1 DEF Completions, Peers
    <2>4. b \in Messages /\ \A m : m = b => Said(m)'
        BY <1>1, <1>2, <2>2, BuiltType, PendingIsSaid
    <2> HIDE DEF b, c
    <2>5. WindowFrame(ap') = WindowFrame(ap)
        BY <1>1, <2>2, WindowFrameFields
    <2>6. Installed(ap.ptk) => Installed(ap.ptk)'
        BY <1>2, <2>2 DEF Installed, SameWindow
    <2>7. PeerInv'
        BY <1>1, <1>2, <1>3, <2>2, <2>5, <2>6 DEF PeerInv, SameWindow
    <2>8. \A m \in net' : m \notin net => Said(m)'
        BY <2>1, <2>4
    <2>9. /\ airing' \subseteq Completions /\ net \subseteq net' /\ net' \subseteq Messages
          /\ ap'.epoch = ap.epoch /\ ap'.ptk = ap.ptk /\ ap'.state = ap.state
        BY <1>1, <2>1, <2>2, <2>3, <2>4 DEF SameWindow
    <2> QED BY <1>2, <2>2, <2>7, <2>8, <2>9, WindowStep
<1> QED BY <1>4, <1>5

\* A transmit completion, however late, keeps the invariant.
LEMMA ObserveTransmitInv ==
    ASSUME HandshakeInv, NEW c \in airing, ObserveTransmit(c)
    PROVE  HandshakeInv'
<1>1. /\ ap \in Peers /\ net \subseteq Messages /\ airing \subseteq Completions /\ PeerInv
      /\ c.frame \in Frames
    BY DEF HandshakeInv, RsnTyped, Completions
<1>2. UNCHANGED <<sta, net, installs, joins>> /\ airing' \subseteq Completions
    BY <1>1 DEF ObserveTransmit
<1>4. CASE ap' = ap
    <2>1. PeerInv'
        BY <1>1, <1>2, <1>4 DEF PeerInv, Installed, WindowFrame, RetryTransmit, InitialFrame
    <2> QED BY <1>1, <1>2, <1>4, <2>1, WindowStep
<1>5. CASE ap' # ap
    <2>1. ~Superseded(ap, c) /\ ap' = Armed(Cancelled(ap), c.frame)
        BY <1>5 DEF ObserveTransmit
    <2>2. /\ ap.phase # "none" /\ ap.state \notin {"Authorized", "Failed"}
          /\ RetryTransmit(ap) = c.frame
        BY <2>1 DEF Superseded
    <2>3. Cancelled(ap) \in Peers /\ SameWindow(ap, Cancelled(ap))
        BY <1>1, CancelledFields
    <2>4. /\ ap' \in Peers /\ SameWindow(Cancelled(ap), ap') /\ ap'.alarm = ap'.generation
          /\ ap'.pending = c.frame
        BY <1>1, <2>1, <2>3, ArmedFields
    <2>5. SameWindow(ap, ap')
        BY <2>3, <2>4 DEF SameWindow
    <2>6. WindowFrame(ap') = c.frame
        BY <1>1, <2>2, <2>5, WindowFrameFields
    <2>7. /\ ap.state = "AwaitingMessage2" => c.frame.message = "M1"
          /\ ap.state = "AwaitingMessage4" => c.frame.message = "M3"
          /\ ap.state \in {"AwaitingMessage2", "AwaitingMessage4"}
        BY <1>1, <2>2, RetryTransmitFields DEF Peers
    <2>8. PeerInv'
        BY <1>1, <1>2, <2>2, <2>4, <2>5, <2>6, <2>7 DEF PeerInv, SameWindow
    <2>9. ap'.epoch = ap.epoch /\ ap'.ptk = ap.ptk /\ ap'.state = ap.state
        BY <2>5 DEF SameWindow
    <2> QED BY <1>1, <1>2, <2>2, <2>4, <2>8, <2>9, WindowStep
<1> QED BY <1>4, <1>5

\* Failing on a Message 2 keeps the invariant: no Message 3 was sent, and the
\* Message 1 that is still armed is the window's.
LEMMA MismatchedInv ==
    ASSUME HandshakeInv, ap.phase # "none", ap.state = "AwaitingMessage2",
           ap' = Mismatched(ap), UNCHANGED <<sta, net, airing, installs, joins>>
    PROVE  HandshakeInv'
<1>1. ap \in Peers /\ net \subseteq Messages /\ airing \subseteq Completions /\ PeerInv
    BY DEF HandshakeInv, RsnTyped
<1>2. ap' \in Peers
    BY <1>1, ZenonT(20) DEF Mismatched, Peers
<1>3. /\ ap'.phase = ap.phase /\ ap'.state = "Failed" /\ ap'.epoch = ap.epoch
      /\ ap'.anonce = ap.anonce /\ ap'.ptk = ap.ptk /\ ap'.alarm = ap.alarm
      /\ ap'.generation = ap.generation /\ ap'.pending = ap.pending /\ ap'.m1 = ap.m1
    BY <1>1, ZenonT(20) DEF Mismatched, Peers
<1>4. WindowFrame(ap') = WindowFrame(ap)
    BY <1>3 DEF WindowFrame, RetryTransmit, InitialFrame
<1>5. ap.pending.message # "M3"
    BY <1>1 DEF PeerInv
<1>6. PeerInv'
    BY <1>1, <1>3, <1>4, <1>5 DEF PeerInv
<1> QED BY <1>1, <1>2, <1>3, <1>6, WindowStep

\* Answering Message 2 with Message 3 keeps the invariant.
LEMMA SecuredInv ==
    ASSUME HandshakeInv, NEW m \in net, m.kind = "M2",
           ap.phase # "none", ap.state = "AwaitingMessage2",
           ap' = Secured(ap, Ptk(ap.anonce, m.nonce)),
           Publish(ap', [message |-> "M3", replay |-> ap.m1 + 1], FALSE),
           UNCHANGED <<sta, installs, joins>>
    PROVE  HandshakeInv'
<1> DEFINE ptk == Ptk(ap.anonce, m.nonce)
           frame == [message |-> "M3", replay |-> ap.m1 + 1]
           c == [epoch |-> ap'.epoch, frame |-> frame, retransmission |-> FALSE]
           q == Cancelled(ap)
<1>1. /\ ap \in Peers /\ net \subseteq Messages /\ airing \subseteq Completions /\ PeerInv
      /\ Said(m) /\ m \in Messages /\ joins \in Nat
    BY DEF HandshakeInv, RsnTyped, AirInv
<1>2. /\ m.kind = "M2" /\ ap.phase # "none" /\ ap.state = "AwaitingMessage2"
      /\ UNCHANGED <<sta, installs, joins>>
    OBVIOUS
<1>3. ap.anonce = joins /\ ap.epoch = joins /\ m.nonce \in Nat /\ m.nonce <= joins
    BY <1>1, <1>2 DEF PeerInv, Said, Messages
<1>4. ptk \in Ptks /\ ptk[1] = joins /\ ptk[2] = m.nonce /\ ptk[2] <= joins
    BY <1>1, <1>3, PtkType
<1>5. ap.m1 + 1 \in Nat /\ frame \in Frames /\ frame.message = "M3"
    BY <1>1 DEF Peers, Frames
<1>6. q \in Peers /\ SameWindow(ap, q) /\ q.alarm = 0 /\ q.pending.message = "none"
    BY <1>1, CancelledFields
<1>7. ap' = [q EXCEPT !.state = "AwaitingMessage4", !.m3 = ap.m1 + 1, !.ptk = ptk]
    BY DEF Secured
<1>8. net' = net \union {Built(ap', frame)} /\ airing' = airing \union {c}
    BY DEF Publish
<1> HIDE DEF ptk, frame, q
<1>9. ap' \in Peers
    BY <1>4, <1>5, <1>6, <1>7, ZenonT(20) DEF Peers
<1>10. /\ ap'.phase = q.phase /\ ap'.state = "AwaitingMessage4" /\ ap'.epoch = q.epoch
       /\ ap'.anonce = q.anonce /\ ap'.ptk = ptk /\ ap'.alarm = q.alarm
       /\ ap'.pending = q.pending
    BY <1>6, <1>7, ZenonT(20) DEF Peers
<1>11. /\ ap'.phase = ap.phase /\ ap'.epoch = joins /\ ap'.anonce = joins
       /\ ap'.alarm = 0 /\ ap'.pending.message = "none"
    BY <1>3, <1>6, <1>10 DEF SameWindow
<1>12. PeerInv'
    BY <1>1, <1>2, <1>4, <1>10, <1>11 DEF PeerInv
<1>13. c \in Completions
    BY <1>1, <1>5, <1>11 DEF Completions
<1>14. ASSUME NEW b, b = Built(ap', frame)
       PROVE  b \in Messages /\ Said(b)'
    <2>1. b \in Messages /\ b.kind = "M3" /\ b.nonce = ap'.anonce /\ b.mic = ap'.ptk
        BY <1>5, <1>9, <1>14, BuiltType
    <2>2. joins <= joins' /\ joins' = joins
        BY <1>1, <1>2
    <2> QED BY <1>4, <1>10, <1>11, <2>1, <2>2 DEF Said
<1> HIDE DEF c
<1>15. ASSUME NEW n \in net, n.kind = "M3", ap'.phase # "none", n.nonce = ap'.epoch
       PROVE  ap'.state # "AwaitingMessage2" /\ n.mic = ap'.ptk
    <2>1. Said(n)
        BY DEF HandshakeInv, AirInv
    <2> QED BY <1>2, <1>3, <1>11, <1>15, <2>1 DEF Said
<1>16. /\ airing' \subseteq Completions /\ net \subseteq net' /\ net' \subseteq Messages
       /\ \A n \in net' : n \notin net => Said(n)'
    BY <1>1, <1>8, <1>13, <1>14
<1> QED BY <1>2, <1>9, <1>12, <1>15, <1>16, PeerStep

\* Message 2 keeps the invariant, answered or failed on.
LEMMA AccessPointMessage2Inv ==
    ASSUME HandshakeInv, NEW m \in net, AccessPointMessage2(m)
    PROVE  HandshakeInv'
<1>1. /\ m.kind = "M2" /\ ap.phase # "none" /\ ap.state = "AwaitingMessage2"
      /\ UNCHANGED <<sta, installs, joins>>
    BY DEF AccessPointMessage2
<1>2. CASE ap' = Mismatched(ap) /\ UNCHANGED <<net, airing>>
    BY <1>1, <1>2, MismatchedInv
<1>3. CASE /\ ap' = Secured(ap, Ptk(ap.anonce, m.nonce))
           /\ Publish(ap', [message |-> "M3", replay |-> ap.m1 + 1], FALSE)
    BY <1>1, <1>3, SecuredInv, Zenon
<1> QED BY <1>2, <1>3, Zenon DEF AccessPointMessage2

\* Accepting Message 4 keeps the invariant.
LEMMA AccessPointMessage4Inv ==
    ASSUME HandshakeInv, NEW m \in net, AccessPointMessage4(m)
    PROVE  HandshakeInv'
<1> DEFINE q == Cancelled(ap)
<1>1. /\ ap \in Peers /\ net \subseteq Messages /\ airing \subseteq Completions /\ PeerInv
      /\ Said(m)
    BY DEF HandshakeInv, RsnTyped, AirInv
<1>2. /\ m.kind = "M4" /\ ap.phase # "none" /\ ap.state = "AwaitingMessage4"
      /\ m.mic = ap.ptk /\ UNCHANGED <<sta, net, airing, installs, joins>>
      /\ ap' = [q EXCEPT !.state = "Authorized", !.granted = TRUE]
    BY DEF AccessPointMessage4, AcceptsMessage4, VerifyMic
<1>3. q \in Peers /\ SameWindow(ap, q) /\ q.alarm = 0 /\ q.pending.message = "none"
    BY <1>1, CancelledFields
<1> HIDE DEF q
<1>4. ap' \in Peers
    BY <1>2, <1>3, ZenonT(20) DEF Peers
<1>5. /\ ap'.phase = q.phase /\ ap'.state = "Authorized" /\ ap'.epoch = q.epoch
      /\ ap'.anonce = q.anonce /\ ap'.ptk = q.ptk /\ ap'.alarm = q.alarm
      /\ ap'.pending = q.pending
    BY <1>2, <1>3, ZenonT(20) DEF Peers
<1>6. /\ ap'.phase = ap.phase /\ ap'.epoch = ap.epoch /\ ap'.anonce = ap.anonce
      /\ ap'.ptk = ap.ptk /\ ap'.alarm = 0 /\ ap'.pending.message = "none"
    BY <1>3, <1>5 DEF SameWindow
<1>7. Installed(ap.ptk)'
    BY <1>1, <1>2, <1>6 DEF Said, Installed
<1>8. PeerInv'
    BY <1>1, <1>2, <1>5, <1>6, <1>7 DEF PeerInv
<1> QED BY <1>1, <1>2, <1>4, <1>5, <1>6, <1>8, WindowStep

\* Authorizing the peer keeps the invariant.
LEMMA AuthorizeInv ==
    ASSUME HandshakeInv, Authorize
    PROVE  HandshakeInv'
<1> DEFINE q == Cancelled(ap)
<1>1. ap \in Peers /\ net \subseteq Messages /\ airing \subseteq Completions /\ PeerInv
    BY DEF HandshakeInv, RsnTyped
<1>2. /\ ap.phase # "none" /\ UNCHANGED <<sta, net, airing, installs, joins>>
      /\ ap' = [q EXCEPT !.phase = "Authorized", !.granted = FALSE]
    BY DEF Authorize
<1>3. q \in Peers /\ SameWindow(ap, q) /\ q.alarm = 0 /\ q.pending.message = "none"
    BY <1>1, CancelledFields
<1> HIDE DEF q
<1>4. ap' \in Peers
    BY <1>2, <1>3, ZenonT(20) DEF Peers
<1>5. /\ ap'.phase = "Authorized" /\ ap'.state = q.state /\ ap'.epoch = q.epoch
      /\ ap'.anonce = q.anonce /\ ap'.ptk = q.ptk /\ ap'.alarm = q.alarm
      /\ ap'.pending = q.pending
    BY <1>2, <1>3, ZenonT(20) DEF Peers
<1>6. /\ ap'.state = ap.state /\ ap'.epoch = ap.epoch /\ ap'.anonce = ap.anonce
      /\ ap'.ptk = ap.ptk /\ ap'.alarm = 0 /\ ap'.pending.message = "none"
    BY <1>3, <1>5 DEF SameWindow
<1>7. Installed(ap.ptk) => Installed(ap.ptk)'
    BY <1>2, <1>6 DEF Installed
<1>8. PeerInv'
    BY <1>1, <1>2, <1>6, <1>7 DEF PeerInv
<1> QED BY <1>1, <1>2, <1>4, <1>6, <1>8, WindowStep

\* Closing a failed peer disarms its window.
LEMMA FailureCloseInv ==
    ASSUME HandshakeInv, FailureClose
    PROVE  HandshakeInv'
<1> DEFINE q == Cancelled(ap)
<1>1. ap \in Peers /\ net \subseteq Messages /\ airing \subseteq Completions /\ PeerInv
    BY DEF HandshakeInv, RsnTyped
<1>2. /\ ap.phase # "none" /\ UNCHANGED <<sta, net, airing, installs, joins>>
      /\ ap' = [q EXCEPT !.phase = "Closing", !.closing = TRUE]
    BY DEF FailureClose
<1>3. q \in Peers /\ SameWindow(ap, q) /\ q.alarm = 0 /\ q.pending.message = "none"
    BY <1>1, CancelledFields
<1> HIDE DEF q
<1>4. ap' \in Peers
    BY <1>2, <1>3, ZenonT(20) DEF Peers
<1>5. /\ ap'.phase = "Closing" /\ ap'.state = q.state /\ ap'.epoch = q.epoch
      /\ ap'.anonce = q.anonce /\ ap'.ptk = q.ptk /\ ap'.alarm = q.alarm
      /\ ap'.pending = q.pending
    BY <1>2, <1>3, ZenonT(20) DEF Peers
<1>6. /\ ap'.state = ap.state /\ ap'.epoch = ap.epoch /\ ap'.anonce = ap.anonce
      /\ ap'.ptk = ap.ptk /\ ap'.alarm = 0 /\ ap'.pending.message = "none"
    BY <1>3, <1>5 DEF SameWindow
<1>7. Installed(ap.ptk) => Installed(ap.ptk)'
    BY <1>2, <1>6 DEF Installed
<1>8. PeerInv'
    BY <1>1, <1>2, <1>6, <1>7 DEF PeerInv
<1> QED BY <1>1, <1>2, <1>4, <1>6, <1>8, WindowStep

\* A closing peer keeps its window: frames and alarms may still arrive.
LEMMA BeginCloseInv ==
    ASSUME HandshakeInv, BeginClose
    PROVE  HandshakeInv'
<1>1. ap \in Peers /\ net \subseteq Messages /\ airing \subseteq Completions /\ PeerInv
    BY DEF HandshakeInv, RsnTyped
<1>2. /\ ap.phase # "none" /\ UNCHANGED <<sta, net, airing, installs, joins>>
      /\ ap' = [ap EXCEPT !.phase = "Closing", !.closing = TRUE]
    BY DEF BeginClose
<1>3. ap' \in Peers
    BY <1>1, <1>2, ZenonT(20) DEF Peers
<1>4. /\ ap'.phase = "Closing" /\ ap'.state = ap.state /\ ap'.epoch = ap.epoch
      /\ ap'.anonce = ap.anonce /\ ap'.ptk = ap.ptk /\ ap'.alarm = ap.alarm
      /\ ap'.generation = ap.generation /\ ap'.pending = ap.pending
      /\ ap'.m1 = ap.m1 /\ ap'.m3 = ap.m3
    BY <1>1, <1>2, ZenonT(20) DEF Peers
<1>5. Installed(ap.ptk) => Installed(ap.ptk)'
    BY <1>2, <1>4 DEF Installed
<1>6. WindowFrame(ap') = WindowFrame(ap)
    BY <1>4 DEF WindowFrame, RetryTransmit, InitialFrame
<1>7. PeerInv'
    BY <1>1, <1>2, <1>4, <1>5, <1>6 DEF PeerInv
<1> QED BY <1>1, <1>2, <1>3, <1>4, <1>7, WindowStep

\* Removing the peer keeps the invariant.
LEMMA RemovePeerInv ==
    ASSUME HandshakeInv, RemovePeer
    PROVE  HandshakeInv'
<1>1. net \subseteq Messages /\ airing \subseteq Completions
    BY DEF HandshakeInv, RsnTyped
<1>2. ap' = NoPeer /\ UNCHANGED <<sta, net, airing, installs, joins>>
    BY DEF RemovePeer
<1>3. /\ ap' \in Peers /\ ap'.phase = "none" /\ ap'.state = "AwaitingMessage2"
      /\ ap'.alarm = 0 /\ ap'.pending.message = "none"
    BY <1>2, NoTypes
<1>4. PeerInv'
    BY <1>3 DEF PeerInv
<1> QED BY <1>1, <1>2, <1>3, <1>4, PeerStep

-----------------------------------------------------------------------------
(* The station's steps.                                                     *)

\* A step that ends the session or moves it on, without a frame or a key.
LEMMA QuietStation ==
    ASSUME HandshakeInv, UNCHANGED <<ap, net, airing, installs, joins>>,
           sta' \in Stations, StationInv', InstallInv'
    PROVE  HandshakeInv'
<1>1. \A k \in Ptks : Installed(k) => Installed(k)'
    BY DEF Installed
<1>2. net \subseteq Messages /\ installs \in Seq(Ptks)
    BY DEF HandshakeInv, RsnTyped
<1> QED BY <1>1, <1>2, StationStep

\* InstallInv speaks of the session only before its installation.
LEMMA SameInstalls ==
    ASSUME HandshakeInv, UNCHANGED <<installs, joins>>, sta'.snonce = sta.snonce,
           \/ sta'.phase \notin {"AwaitingMessage1", "AwaitingMessage3", "InstallingKeys"}
           \/ sta.phase \in {"AwaitingMessage1", "AwaitingMessage3", "InstallingKeys"}
    PROVE  InstallInv'
BY DEF HandshakeInv, InstallInv, InstallOnce

\* A failed session still may hold the keys its roll-back did not remove.
LEMMA FailedStation ==
    ASSUME HandshakeInv, UNCHANGED <<ap, net, airing, installs, joins>>,
           sta' \in Stations, sta'.phase = "Failed", sta'.snonce = sta.snonce,
           sta'.keys = sta.keys \/ sta'.keys = NoPtk
    PROVE  HandshakeInv'
<1>1. \A k : Message3Of(k) => Message3Of(k)'
    BY DEF Message3Of
<1>2. StationInv'
    BY <1>1 DEF HandshakeInv, StationInv
<1>3. InstallInv'
    BY SameInstalls
<1> QED BY <1>2, <1>3, QuietStation

\* The station's deadline keeps the invariant.
LEMMA StationGivesUpInv ==
    ASSUME HandshakeInv, StationGivesUp
    PROVE  HandshakeInv'
<1>1. sta \in Stations
    BY DEF HandshakeInv, RsnTyped
<1>2. sta' = [sta EXCEPT !.phase = "Failed"] /\ UNCHANGED <<ap, net, airing, installs, joins>>
    BY DEF StationGivesUp
<1>3. sta' \in Stations
    BY <1>1, <1>2, ZenonT(20) DEF Stations
<1>4. sta'.phase = "Failed" /\ sta'.snonce = sta.snonce /\ sta'.keys = sta.keys
    BY <1>1, <1>2, ZenonT(20) DEF Stations
<1> QED BY <1>2, <1>3, <1>4, FailedStation

\* Accepting Message 3 keeps the invariant.
LEMMA StationMessage3Inv ==
    ASSUME HandshakeInv, NEW m \in net, StationMessage3(m)
    PROVE  HandshakeInv'
<1>1. sta \in Stations /\ m \in Messages /\ StationInv
    BY DEF HandshakeInv, RsnTyped
<1>2. m.replay \in Nat
    BY <1>1 DEF Messages
<1>3. /\ m.kind = "M3" /\ sta.phase = "AwaitingMessage3" /\ m.mic = sta.ptk
      /\ UNCHANGED <<ap, net, airing, installs, joins>>
    BY DEF StationMessage3, AcceptsMessage3, VerifyMic
<1>4. CASE sta' = [sta EXCEPT !.phase = "InstallingKeys", !.m3 = m.replay]
    <2>1. sta' \in Stations
        BY <1>1, <1>2, <1>4, ZenonT(20) DEF Stations
    <2>2. /\ sta'.phase = "InstallingKeys" /\ sta'.snonce = sta.snonce
          /\ sta'.keys = sta.keys /\ sta'.ptk = sta.ptk /\ sta'.anonce = sta.anonce
        BY <1>1, <1>4, ZenonT(20) DEF Stations
    <2>3. Message3Of(sta.ptk)' /\ sta.keys = NoPtk
        BY <1>1, <1>3, <2>2 DEF Message3Of, StationInv
    <2>4. StationInv'
        BY <1>1, <1>3, <2>2, <2>3 DEF StationInv
    <2>5. InstallInv'
        BY <1>3, <2>2, SameInstalls
    <2> QED BY <1>3, <2>1, <2>4, <2>5, QuietStation
<1>5. CASE sta' = [sta EXCEPT !.phase = "Failed", !.m3 = m.replay]
    <2>1. sta' \in Stations
        BY <1>1, <1>2, <1>5, ZenonT(20) DEF Stations
    <2>2. sta'.phase = "Failed" /\ sta'.snonce = sta.snonce /\ sta'.keys = sta.keys
        BY <1>1, <1>5, ZenonT(20) DEF Stations
    <2> QED BY <1>3, <2>1, <2>2, FailedStation
<1> QED BY <1>4, <1>5 DEF StationMessage3

\* Message 2 is built with the nonce of the session and the key derived from it.
LEMMA StationMessage1Inv ==
    ASSUME HandshakeInv, NEW m \in net, StationMessage1(m)
    PROVE  HandshakeInv'
<1> DEFINE next == IF IsRepeatedMessage1(sta, m) THEN sta ELSE StartPtk(sta, m)
           reply == Message2(next.m1, next.snonce, next.ptk)
<1>1. /\ sta \in Stations /\ m \in Messages /\ StationInv /\ net \subseteq Messages
      /\ installs \in Seq(Ptks) /\ joins \in Nat
    BY DEF HandshakeInv, RsnTyped
<1>2. m.replay \in Nat /\ m.nonce \in Nat /\ sta.snonce \in Nat
    BY <1>1 DEF Messages, Stations
<1>3. /\ sta.phase \in {"AwaitingMessage1", "AwaitingMessage3"}
      /\ UNCHANGED <<ap, airing, installs, joins>>
    BY DEF StationMessage1, AnswersMessage1
<1>4. /\ next \in Stations /\ next.phase = "AwaitingMessage3" /\ next.snonce = sta.snonce
      /\ next.keys = sta.keys /\ next.ptk = Ptk(next.anonce, next.snonce)
    <2>1. CASE IsRepeatedMessage1(sta, m)
        BY <1>1, <2>1 DEF IsRepeatedMessage1, StationInv
    <2>2. CASE ~IsRepeatedMessage1(sta, m)
        <3>1. Ptk(m.nonce, sta.snonce) \in Ptks
            BY <1>2, PtkType
        <3>2. next = StartPtk(sta, m) /\ 0 \in Nat
            BY <2>2
        <3> HIDE DEF next
        <3>3. next \in Stations
            BY <1>1, <1>2, <3>1, <3>2, ZenonT(20) DEF StartPtk, Stations
        <3>4. /\ next.phase = "AwaitingMessage3" /\ next.snonce = sta.snonce
              /\ next.keys = sta.keys /\ next.anonce = m.nonce
              /\ next.ptk = Ptk(m.nonce, sta.snonce)
            BY <1>1, <3>2, ZenonT(20) DEF StartPtk, Stations
        <3> QED BY <3>3, <3>4
    <2> QED BY <2>1, <2>2
<1>5. \/ sta' = next /\ net' = net \union {reply}
      \/ sta' = [next EXCEPT !.phase = "Failed"] /\ UNCHANGED net
    BY DEF StationMessage1
<1> HIDE DEF next
<1>6. CASE sta' = next /\ net' = net \union {reply}
    <2>1. next.m1 \in Nat /\ next.snonce \in Nat /\ next.anonce \in Nat /\ next.ptk \in Ptks
        BY <1>4 DEF Stations
    <2>2. /\ reply \in Messages /\ reply.kind = "M2" /\ reply.nonce = next.snonce
          /\ reply.mic = next.ptk
        BY <2>1, MessageTypes
    <2>3. next.ptk[2] = next.snonce /\ next.snonce = joins
        BY <1>1, <1>4, <2>1, PtkType DEF StationInv
    <2> HIDE DEF reply
    <2>4. joins' = joins /\ joins <= joins'
        BY <1>1, <1>3
    <2>5. \A n \in net' : n \notin net => Said(n)'
        BY <1>6, <2>2, <2>3, <2>4 DEF Said
    <2>6. sta.keys = NoPtk
        BY <1>1, <1>3 DEF StationInv
    <2>7. StationInv'
        BY <1>1, <1>3, <1>4, <1>6, <2>6 DEF StationInv
    <2>8. InstallInv'
        BY <1>3, <1>4, <1>6, SameInstalls
    <2>9. \A k \in Ptks : Installed(k) => Installed(k)'
        BY <1>3 DEF Installed
    <2>10. net \subseteq net' /\ net' \subseteq Messages
        BY <1>1, <1>6, <2>2
    <2> QED BY <1>1, <1>3, <1>4, <1>6, <2>5, <2>7, <2>8, <2>9, <2>10, StationStep
<1>7. CASE sta' = [next EXCEPT !.phase = "Failed"] /\ UNCHANGED net
    <2>1. sta' \in Stations
        BY <1>4, <1>7, ZenonT(20) DEF Stations
    <2>2. sta'.phase = "Failed" /\ sta'.snonce = next.snonce /\ sta'.keys = next.keys
        BY <1>4, <1>7, ZenonT(20) DEF Stations
    <2> QED BY <1>3, <1>4, <1>7, <2>1, <2>2, FailedStation
<1> QED BY <1>5, <1>6, <1>7

\* The outcome of Message 4's transmission keeps the invariant.
LEMMA Message4ResultInv ==
    ASSUME HandshakeInv, Message4Result
    PROVE  HandshakeInv'
<1>1. sta \in Stations /\ StationInv /\ NoPtk \in Ptks
    BY PtkType DEF HandshakeInv, RsnTyped
<1>2. sta.phase = "SendingMessage4" /\ UNCHANGED <<ap, net, airing, installs, joins>>
    BY DEF Message4Result
<1>3. CASE sta' = [sta EXCEPT !.phase = "Connected"]
    <2>1. sta' \in Stations
        BY <1>1, <1>3, ZenonT(20) DEF Stations
    <2>2. /\ sta'.phase = "Connected" /\ sta'.snonce = sta.snonce /\ sta'.anonce = sta.anonce
          /\ sta'.ptk = sta.ptk /\ sta'.keys = sta.keys
        BY <1>1, <1>3, ZenonT(20) DEF Stations
    <2>3. Message3Of(sta.ptk)' /\ Installed(sta.ptk)' /\ (Message3Of(sta.keys) => Message3Of(sta.keys)')
        BY <1>1, <1>2, <2>2 DEF StationInv, Message3Of, Installed
    <2>4. StationInv'
        BY <1>1, <1>2, <2>2, <2>3 DEF StationInv
    <2>5. InstallInv'
        BY <1>2, <2>2, SameInstalls
    <2> QED BY <1>2, <2>1, <2>4, <2>5, QuietStation
<1>4. CASE sta' = [sta EXCEPT !.phase = "Failed", !.keys = NoPtk]
    <2>1. sta' \in Stations
        BY <1>1, <1>4, ZenonT(20) DEF Stations
    <2>2. sta'.phase = "Failed" /\ sta'.snonce = sta.snonce /\ sta'.keys = NoPtk
        BY <1>1, <1>4, ZenonT(20) DEF Stations
    <2> QED BY <1>2, <2>1, <2>2, FailedStation
<1>5. CASE sta' = [sta EXCEPT !.phase = "Failed"]
    <2>1. sta' \in Stations
        BY <1>1, <1>5, ZenonT(20) DEF Stations
    <2>2. sta'.phase = "Failed" /\ sta'.snonce = sta.snonce /\ sta'.keys = sta.keys
        BY <1>1, <1>5, ZenonT(20) DEF Stations
    <2> QED BY <1>2, <2>1, <2>2, FailedStation
<1> QED BY <1>3, <1>4, <1>5 DEF Message4Result

\* The repeated Message 4 speaks of the key that is already installed.
LEMMA ConnectedMessage3Inv ==
    ASSUME HandshakeInv, NEW m \in net, ConnectedMessage3(m)
    PROVE  HandshakeInv'
<1> DEFINE reply == Message4(m.replay, sta.ptk)
<1>1. /\ sta \in Stations /\ m \in Messages /\ StationInv /\ net \subseteq Messages
      /\ installs \in Seq(Ptks)
    BY DEF HandshakeInv, RsnTyped
<1>2. /\ sta.phase = "Connected" /\ net' = net \union {reply}
      /\ UNCHANGED <<sta, ap, airing, installs, joins>>
    BY DEF ConnectedMessage3
<1>3. reply \in Messages /\ reply.kind = "M4" /\ reply.mic = sta.ptk
    <2>1. m.replay \in Nat /\ sta.ptk \in Ptks
        BY <1>1 DEF Messages, Stations
    <2> QED BY <2>1, MessageTypes
<1> HIDE DEF reply
<1>4. \A k : Installed(k) => Installed(k)'
    BY <1>2 DEF Installed
<1>5. Installed(sta.ptk)
    BY <1>1, <1>2 DEF StationInv
<1>6. \A n \in net' : n \notin net => Said(n)'
    <2> SUFFICES ASSUME NEW n \in net', n \notin net PROVE Said(n)'
        OBVIOUS
    <2>1. n.kind = "M4" /\ n.mic = sta.ptk
        BY <1>2, <1>3
    <2>2. Installed(n.mic)
        BY <1>5, <2>1
    <2> QED BY <1>4, <2>1, <2>2 DEF Said
<1>7. net \subseteq net' /\ net' \subseteq Messages
    BY <1>1, <1>2, <1>3
<1>8. StationInv' /\ InstallInv'
    BY <1>2, <1>7, StationStays
<1> QED BY <1>1, <1>2, <1>4, <1>6, <1>7, <1>8, StationStep

\* The key installed is confirmed by a Message 3 and new in its session.
LEMMA InstallKeysInv ==
    ASSUME HandshakeInv, InstallKeys
    PROVE  HandshakeInv'
<1> DEFINE reply == Message4(sta.m3, sta.ptk)
<1>1. /\ sta \in Stations /\ StationInv /\ InstallInv /\ net \subseteq Messages
      /\ installs \in Seq(Ptks) /\ joins \in Nat
    BY DEF HandshakeInv, RsnTyped
<1>2. sta.phase = "InstallingKeys" /\ UNCHANGED <<ap, airing, joins>>
    BY DEF InstallKeys
<1>3. /\ sta.m3 \in Nat /\ sta.ptk \in Ptks /\ sta.snonce \in Nat /\ sta.anonce \in Nat
      /\ Len(installs) \in Nat
    BY <1>1 DEF Stations
<1>4. sta.ptk = Ptk(sta.anonce, sta.snonce) /\ sta.snonce = joins /\ Message3Of(sta.ptk)
    BY <1>1, <1>2 DEF StationInv
<1>5. sta.ptk[2] = sta.snonce
    BY <1>3, <1>4, PtkType
<1>6. CASE /\ sta' = [sta EXCEPT !.phase = "SendingMessage4", !.keys = sta.ptk]
           /\ installs' = Append(installs, sta.ptk)
           /\ net' = net \union {reply}
    <2>1. sta' \in Stations
        BY <1>1, <1>3, <1>6, ZenonT(20) DEF Stations
    <2>2. /\ sta'.phase = "SendingMessage4" /\ sta'.snonce = sta.snonce
          /\ sta'.anonce = sta.anonce /\ sta'.ptk = sta.ptk /\ sta'.keys = sta.ptk
        BY <1>1, <1>6, ZenonT(20) DEF Stations
    <2>3. reply \in Messages /\ reply.kind = "M4" /\ reply.mic = sta.ptk
        BY <1>3, MessageTypes
    <2> HIDE DEF reply
    <2>4. /\ installs' \in Seq(Ptks) /\ Len(installs') = Len(installs) + 1
          /\ \A i \in 1..Len(installs) : installs'[i] = installs[i]
          /\ installs'[Len(installs) + 1] = sta.ptk
        BY <1>1, <1>3, <1>6
    <2>5. \A k : Installed(k) => Installed(k)'
        BY <1>3, <2>4 DEF Installed
    <2>6. \A k : k = sta.ptk => Installed(k)'
        BY <1>3, <2>4 DEF Installed
    <2>7. \A n \in net' : n \notin net => Said(n)'
        BY <1>6, <2>3, <2>6 DEF Said
    <2>8. net \subseteq net' /\ net' \subseteq Messages
        BY <1>1, <1>6, <2>3
    <2>9. \A k : Message3Of(k) => Message3Of(k)'
        BY <2>8 DEF Message3Of
    <2>10. StationInv'
        BY <1>1, <1>2, <1>4, <1>5, <2>2, <2>6, <2>9 DEF StationInv
    <2>11. \A i \in 1..Len(installs) : installs[i][2] <= joins /\ installs[i] # sta.ptk
        BY <1>1, <1>2, <1>5 DEF InstallInv
    <2>12. InstallOnce'
        <3> SUFFICES ASSUME NEW i \in 1..Len(installs'), NEW j \in 1..Len(installs'),
                            installs'[i] = installs'[j]
                     PROVE  i = j
            BY DEF InstallOnce
        <3>1. i \in 1..Len(installs) \/ i = Len(installs) + 1
            BY <1>3, <2>4
        <3>2. j \in 1..Len(installs) \/ j = Len(installs) + 1
            BY <1>3, <2>4
        <3>3. CASE i \in 1..Len(installs) /\ j \in 1..Len(installs)
            BY <1>1, <2>4, <3>3 DEF InstallInv, InstallOnce
        <3> QED BY <2>4, <2>11, <3>1, <3>2, <3>3
    <2>13. \A i \in 1..Len(installs') : installs'[i][2] <= joins'
        <3> SUFFICES ASSUME NEW i \in 1..Len(installs') PROVE installs'[i][2] <= joins'
            OBVIOUS
        <3>1. i \in 1..Len(installs) \/ i = Len(installs) + 1
            BY <1>3, <2>4
        <3>2. joins <= joins /\ joins' = joins
            BY <1>1, <1>2
        <3> QED BY <1>4, <1>5, <2>4, <2>11, <3>1, <3>2
    <2>14. InstallInv'
        BY <2>2, <2>12, <2>13 DEF InstallInv
    <2> QED BY <1>2, <2>1, <2>4, <2>5, <2>7, <2>8, <2>10, <2>14, StationStep
<1>7. CASE sta' = [sta EXCEPT !.phase = "Failed"] /\ UNCHANGED <<installs, net>>
    <2>1. sta' \in Stations
        BY <1>1, <1>7, ZenonT(20) DEF Stations
    <2>2. sta'.phase = "Failed" /\ sta'.snonce = sta.snonce /\ sta'.keys = sta.keys
        BY <1>1, <1>7, ZenonT(20) DEF Stations
    <2> QED BY <1>2, <1>7, <2>1, <2>2, FailedStation
<1> QED BY <1>6, <1>7 DEF InstallKeys

-----------------------------------------------------------------------------
(* A new association, and the invariant.                                    *)

\* Every frame and every key of before is older than the new nonces.
LEMMA JoinInv ==
    ASSUME HandshakeInv, NEW replay \in InitialReplays, Join(replay)
    PROVE  HandshakeInv'
<1>1. /\ joins \in Nat /\ net \subseteq Messages /\ airing \subseteq Completions
      /\ installs \in Seq(Ptks) /\ InstallInv /\ replay \in Nat
    BY RsnAssumption DEF HandshakeInv, RsnTyped
<1>2. /\ joins' = joins + 1 /\ sta' = NewSupplicant(joins + 1)
      /\ ap' = NewPeer(joins + 1, replay) /\ UNCHANGED <<net, airing, installs>>
    BY DEF Join
<1>3. joins' \in Nat /\ joins + 1 \in Nat /\ joins <= joins'
    BY <1>1, <1>2
<1>4. /\ sta' \in Stations /\ sta'.phase = "AwaitingMessage1" /\ sta'.snonce = joins'
      /\ sta'.keys = NoPtk
    BY <1>1, <1>2, <1>3, NewTypes
<1>5. /\ ap' \in Peers /\ ap'.epoch = joins' /\ ap'.anonce = joins'
      /\ ap'.state = "AwaitingMessage2" /\ ap'.alarm = 0 /\ ap'.pending.message = "none"
    BY <1>1, <1>2, <1>3, NewTypes
<1>6. RsnTyped'
    BY <1>1, <1>2, <1>3, <1>4, <1>5 DEF RsnTyped
<1>7. ASSUME NEW m \in net, m.kind = "M3", ap'.phase # "none", m.nonce = ap'.epoch
      PROVE  ap'.state # "AwaitingMessage2" /\ m.mic = ap'.ptk
    <2>1. m.nonce <= joins /\ m.nonce \in Nat
        BY <1>1, <1>7 DEF HandshakeInv, AirInv, Said, Messages
    <2> QED BY <1>1, <1>2, <1>5, <1>7, <2>1
<1>8. \A k \in Ptks : Installed(k) => Installed(k)'
    BY <1>2 DEF Installed
<1>9. AirInv'
    BY <1>2, <1>3, <1>7, <1>8, SaidStays DEF AirInv
<1>10. StationInv'
    BY <1>4 DEF StationInv
<1>11. ASSUME NEW i \in 1..Len(installs)
       PROVE  installs[i][2] <= joins' /\ installs[i][2] # joins'
    <2>1. installs[i] \in Ptks /\ installs[i][2] <= joins
        BY <1>1 DEF InstallInv
    <2>2. installs[i][2] \in Nat
        BY <2>1, PtkParts
    <2> QED BY <1>1, <1>2, <2>1, <2>2
<1>12. InstallInv'
    BY <1>1, <1>2, <1>4, <1>11 DEF InstallInv, InstallOnce
<1>13. PeerInv'
    BY <1>5 DEF PeerInv
<1> QED BY <1>6, <1>9, <1>10, <1>12, <1>13 DEF HandshakeInv

\* Before any association the invariant holds.
LEMMA InitHandshakeInv ==
    ASSUME Init
    PROVE  HandshakeInv
<1>1. /\ sta = NoSession /\ ap = NoPeer /\ net = {} /\ airing = {} /\ installs = <<>>
      /\ joins = 0
    BY DEF Init
<1>2. RsnTyped
    BY <1>1, NoTypes DEF RsnTyped
<1>3. AirInv
    BY <1>1 DEF AirInv
<1>4. StationInv
    BY <1>1, NoTypes DEF StationInv
<1>5. InstallInv
    BY <1>1 DEF InstallInv, InstallOnce
<1>6. PeerInv
    BY <1>1, NoTypes DEF PeerInv
<1> QED BY <1>2, <1>3, <1>4, <1>5, <1>6 DEF HandshakeInv

\* Every step keeps the invariant.
LEMMA NextHandshakeInv ==
    ASSUME HandshakeInv, [Next]_vars
    PROVE  HandshakeInv'
<1>1. CASE \E replay \in InitialReplays : Join(replay)
    BY <1>1, JoinInv
<1>2. ASSUME NEW m \in net,
             \/ StationMessage1(m) \/ StationMessage3(m) \/ ConnectedMessage3(m)
             \/ AccessPointMessage2(m) \/ AccessPointMessage4(m)
      PROVE  HandshakeInv'
    BY <1>2, StationMessage1Inv, StationMessage3Inv, ConnectedMessage3Inv,
       AccessPointMessage2Inv, AccessPointMessage4Inv
<1>3. CASE StationGivesUp \/ InstallKeys \/ Message4Result
    BY <1>3, StationGivesUpInv, InstallKeysInv, Message4ResultInv
<1>4. CASE BeginWpa2 \/ TakeDueRetry \/ Authorize \/ FailureClose \/ BeginClose \/ RemovePeer
    BY <1>4, BeginWpa2Inv, TakeDueRetryInv, AuthorizeInv, FailureCloseInv, BeginCloseInv,
       RemovePeerInv
<1>5. CASE \E c \in airing : ObserveTransmit(c)
    BY <1>5, ObserveTransmitInv
<1>6. CASE UNCHANGED vars
    BY <1>6 DEF vars, HandshakeInv, RsnTyped, AirInv, Said, Installed, StationInv,
       Message3Of, InstallInv, InstallOnce, PeerInv, WindowFrame, RetryTransmit, InitialFrame
<1> QED BY <1>1, <1>2, <1>3, <1>4, <1>5, <1>6 DEF Next

\* HandshakeInv holds in every reachable state.
LEMMA HandshakeInvariance == Spec => []HandshakeInv
<1>1. Init => HandshakeInv
    BY InitHandshakeInv
<1>2. HandshakeInv /\ [Next]_vars => HandshakeInv'
    BY NextHandshakeInv
<1> QED BY <1>1, <1>2, PTL DEF Spec

-----------------------------------------------------------------------------
\* The access point authorizes a station only for a key that station has
\* published: Message 4 is sent after the installation and carries its key's
\* MIC, and AccessPointMessage4 compares it with the key of this association.
THEOREM AuthorizedInstalled == Spec => []AuthorizedMeansInstalled
<1>1. HandshakeInv => AuthorizedMeansInstalled
    BY DEF HandshakeInv, PeerInv, AuthorizedMeansInstalled, Installed
<1> QED BY <1>1, HandshakeInvariance, PTL

\* No pairwise key is published twice, however often Message 3 is repeated,
\* delayed into a later association or answered by RsnConnectedSupplicant.
THEOREM InstalledOnce == Spec => []InstallOnce
<1>1. HandshakeInv => InstallOnce
    BY DEF HandshakeInv, InstallInv
<1> QED BY <1>1, HandshakeInvariance, PTL

\* Keys the station has published are those of the access point's peer in the
\* same association: the Message 3 that confirmed them is not an older one.
THEOREM KeyAgreement == Spec => []KeysAgree
<1>1. ASSUME HandshakeInv PROVE KeysAgree
    <2> SUFFICES ASSUME sta.keys # NoPtk, ap.phase # "none", ap.epoch = sta.snonce
                 PROVE  ap.ptk = sta.keys
        BY DEF KeysAgree
    <2>1. sta.snonce = joins /\ sta.keys[2] = joins /\ Message3Of(sta.keys)
        BY <1>1 DEF HandshakeInv, StationInv
    <2>2. PICK m \in net : m.kind = "M3" /\ m.mic = sta.keys
        BY <2>1 DEF Message3Of
    <2>3. Said(m) /\ m \in Messages /\ joins \in Nat
        BY <1>1 DEF HandshakeInv, AirInv, RsnTyped
    <2>4. m.mic[2] <= m.nonce /\ m.nonce <= joins /\ m.nonce \in Nat
        BY <2>2, <2>3 DEF Said, Messages
    <2>5. m.nonce = joins
        BY <2>1, <2>2, <2>3, <2>4
    <2> QED BY <2>1, <2>2, <2>3, <2>5 DEF Said
<1> QED BY <1>1, HandshakeInvariance, PTL

\* An armed RsnRetry schedule holds the message of the current response
\* window, or the Message 1 a failed authenticator was left with: neither a
\* late completion nor a late alarm leaves another.
THEOREM RetryWindow == Spec => []RetryOwnsWindow
<1>1. HandshakeInv => RetryOwnsWindow
    BY DEF HandshakeInv, PeerInv, RetryOwnsWindow
<1> QED BY <1>1, HandshakeInvariance, PTL
=============================================================================
