------------------------------ MODULE AppleMIDI ------------------------------
(***************************************************************************)
(* The RTP-MIDI session of CAppleMIDIParticipant.  Its task polls two UDP  *)
(* sockets for ever; each round takes at most one packet from each and     *)
(* then runs the handler of the state it is in.  Any peer may send any     *)
(* packet at any time, which covers the loss, duplication and reordering   *)
(* of packets.                                                             *)
(*                                                                         *)
(* Time is the sync clock of GetSyncClock: 64-bit differences of a counter *)
(* that itself has 32 bits and wraps around.                               *)
(***************************************************************************)
EXTENDS Integers

CONSTANTS
  Peers,              \* the addresses, host and port, packets come from
  HostOf,             \* the host of each
  Seqs,               \* RTP sequence numbers
  ClockWrap,          \* the period of CTimer::GetClockTicks
  StartTimes,         \* values of nStartTime
  InvitationTimeout,
  SyncTimeout,
  FeedbackPeriod,     \* ReceiverFeedbackPeriod
  Huge,               \* 2^64 / 100: what a negative difference comes to
  Error,              \* the result of a receive that fails
  None

ASSUME SessionAssumption ==
  /\ ClockWrap \in Nat /\ StartTimes \subseteq 0 .. ClockWrap - 1
  /\ Seqs \subseteq Nat \ {0}
  /\ {InvitationTimeout, SyncTimeout, FeedbackPeriod} \subseteq Nat
  /\ Huge \in Nat /\ Huge > 2 * ClockWrap + InvitationTimeout + SyncTimeout + FeedbackPeriod

\* "BY" ends the session that its sender has, "other" is everything that the
\* receiving state has no use for, the end of another session included.
ControlPackets == [kind : {"IN", "BY", "other"}, from : Peers]
MidiPackets ==
  [kind : {"IN", "CK", "other"}, from : Peers]
    \cup [kind : {"MIDI"}, from : Peers, seq : Seqs]

VARIABLES
  clock,      \* CTimer::GetClockTicks
  start,      \* nStartTime of GetSyncClock
  state,      \* m_State
  control,    \* the address of the initiator's control socket
  midi,       \* and of its MIDI socket
  stale,      \* who sent the invitation that is still in m_ControlBuffer
  lastSync,   \* m_nLastSyncTime
  sequence,   \* m_nSequence
  lastFeedbackSequence,
  lastFeedbackTime,
  notified,   \* m_bIsAppleMIDIConnected of the handler
  silence,    \* history: ticks since lastSync was set, at most SyncTimeout + 1
  wrapped,    \* history: the sync clock has jumped since
  received,   \* history: the sequence numbers received in this session
  strange,    \* history: the last round received nothing from the session's host
  quiet       \* history: a round of this tick found both sockets empty

feedback == <<sequence, lastFeedbackSequence, lastFeedbackTime>>
session == <<state, control, midi, lastSync, feedback, silence, wrapped, received>>
vars == <<clock, start, stale, notified, strange, quiet, session>>

GetSyncClock == IF clock >= start THEN clock - start ELSE Huge - (start - clock)

Elapsed(since) ==
  IF GetSyncClock >= since THEN GetSyncClock - since ELSE Huge

Init ==
  /\ start \in StartTimes /\ clock = start
  /\ state = "ControlInvitation" /\ control = None /\ midi = None /\ stale = None
  /\ lastSync = 0
  /\ sequence = 0 /\ lastFeedbackSequence = 0 /\ lastFeedbackTime = 0
  /\ notified = FALSE
  /\ silence = 0 /\ wrapped = FALSE /\ received = {}
  /\ strange = FALSE /\ quiet = FALSE
-----------------------------------------------------------------------------
SyncNow == lastSync' = GetSyncClock /\ silence' = 0 /\ wrapped' = FALSE

ClearSession ==
  /\ state' = "ControlInvitation"
  /\ sequence' = 0 /\ lastFeedbackSequence' = 0 /\ lastFeedbackTime' = 0
  /\ received' = {}

\* Mutant: the sequence number survives the session.
ResetKeepsSequence ==
  /\ state' = "ControlInvitation"
  /\ lastFeedbackSequence' = 0 /\ lastFeedbackTime' = 0 /\ received' = {}
  /\ lastSync' = 0 /\ silence' = 0 /\ wrapped' = FALSE
  /\ UNCHANGED <<control, midi, sequence>>

\* The addresses stay, but no state uses them before it has set them.
Reset ==
  /\ ClearSession
  /\ lastSync' = 0 /\ silence' = 0 /\ wrapped' = FALSE
  /\ UNCHANGED <<control, midi>>

\* Mutant: a time that is just reached counts as passed.
TimedOutEarly(period) == Elapsed(lastSync) >= period

\* Mutant: the start of the period is the present.
TimedOutNever(period) == Elapsed(GetSyncClock) > period

TimedOut(period) == Elapsed(lastSync) > period

Invites(packet) == packet # None /\ packet.kind = "IN"

\* A receive error has the buffer parsed as it was left: an invitation in it
\* counts again.  If the acceptance cannot be sent the state stays.
ControlInvitationState(c) ==
  /\ state = "ControlInvitation"
  /\ \E from \in {IF c = Error THEN stale ELSE IF Invites(c) THEN c.from ELSE None} :
       IF from = None THEN UNCHANGED session
       ELSE /\ control' = from
            /\ \/ SyncNow /\ state' = "MIDIInvitation"
               \/ UNCHANGED <<state, lastSync, silence, wrapped>>
            /\ UNCHANGED <<midi, feedback, received>>
  /\ UNCHANGED notified

\* Mutant: the host that invites on the MIDI port is not looked at.
AcceptAnyMidi(m) ==
  /\ Invites(m)
  /\ midi' = m.from
  /\ SyncNow /\ state' = "Connected" /\ notified' = TRUE
  /\ UNCHANGED <<control, feedback, received>>

\* The second half of the handshake, when the acceptance can be sent.
AcceptMidi(m) ==
  /\ Invites(m) /\ HostOf[m.from] = HostOf[control]
  /\ midi' = m.from
  /\ SyncNow /\ state' = "Connected" /\ notified' = TRUE
  /\ UNCHANGED <<control, feedback, received>>

AcceptFails(m) ==
  /\ Invites(m) /\ HostOf[m.from] = HostOf[control]
  /\ ClearSession
  /\ lastSync' = 0 /\ silence' = 0 /\ wrapped' = FALSE
  /\ midi' = m.from
  /\ UNCHANGED <<control, notified>>

\* A packet that is no invitation, or comes from another host, keeps the time
\* out from being looked at.
MIDIInvitationState(m) ==
  /\ state = "MIDIInvitation"
  /\ \/ AcceptMidi(m)
     \/ AcceptFails(m)
     \/ /\ m # None /\ ~(Invites(m) /\ HostOf[m.from] = HostOf[control])
        /\ UNCHANGED <<session, notified>>
     \/ m = None /\ TimedOut(InvitationTimeout) /\ Reset /\ UNCHANGED notified
     \/ m = None /\ ~TimedOut(InvitationTimeout) /\ UNCHANGED <<session, notified>>
-----------------------------------------------------------------------------
(* ConnectedState.                                                         *)

Ends(c) == c \notin {None, Error} /\ c.kind = "BY" /\ c.from = control

EndSession(c) == Ends(c) /\ Reset /\ notified' = FALSE

\* What the MIDI packet does: data are handed on, a sync is answered.
SequenceAfter(m) ==
  IF m # None /\ m.from = midi /\ m.kind = "MIDI" THEN m.seq ELSE sequence

Syncs(m) == m # None /\ m.from = midi /\ m.kind = "CK"

Feedback(m) ==
  IF Elapsed(lastFeedbackTime) > FeedbackPeriod
  THEN lastFeedbackSequence' = SequenceAfter(m) /\ lastFeedbackTime' = GetSyncClock
  ELSE UNCHANGED <<lastFeedbackSequence, lastFeedbackTime>>

Stay(m) ==
  /\ Syncs(m) \/ ~TimedOut(SyncTimeout)
  /\ sequence' = SequenceAfter(m)
  /\ received' = received \cup ({SequenceAfter(m)} \ {0})
  /\ Feedback(m)
  /\ IF Syncs(m) THEN SyncNow ELSE UNCHANGED <<lastSync, silence, wrapped>>
  /\ UNCHANGED <<state, control, midi>>

\* The initiator has timed out.  The handler is not told.
GiveUp(m) == ~Syncs(m) /\ TimedOut(SyncTimeout) /\ Reset

ConnectedState(c, m) ==
  /\ state = "Connected"
  /\ \/ EndSession(c)
     \/ ~Ends(c) /\ (Stay(m) \/ GiveUp(m)) /\ UNCHANGED notified
-----------------------------------------------------------------------------
Keeps(c) == IF c \in {None, Error} THEN stale ELSE IF Invites(c) THEN c.from ELSE None

StrangerTo(packet) ==
  packet = None \/ (packet # Error /\ control # None /\ HostOf[packet.from] # HostOf[control])

\* A round of Run.
Round(c, m) ==
  /\ ControlInvitationState(c) \/ MIDIInvitationState(m) \/ ConnectedState(c, m)
  /\ stale' = Keeps(c)
  /\ strange' = (StrangerTo(c) /\ StrangerTo(m))
  /\ quiet' = (quiet \/ (c = None /\ m = None))
  /\ UNCHANGED <<clock, start>>

Run ==
  \E c \in ControlPackets \cup {None, Error}, m \in MidiPackets \cup {None} : Round(c, m)

Tick ==
  /\ clock' = (clock + 1) % ClockWrap
  /\ silence' = IF silence <= SyncTimeout THEN silence + 1 ELSE silence
  /\ strange' = FALSE /\ quiet' = FALSE
  /\ wrapped' = (wrapped \/ clock' = start \/ clock' = 0)
  /\ UNCHANGED <<start, stale, notified, state, control, midi, lastSync, feedback, received>>

Next == Run \/ Tick

Spec == Init /\ [][Next]_vars

\* A tick stands for a good part of a time out.  Within each, the task runs
\* and some of its rounds find both sockets empty.
LiveSpec ==
  /\ Init /\ [][Run \/ (quiet /\ Tick)]_vars
  /\ WF_vars(quiet /\ Tick) /\ WF_vars(Round(None, None))
-----------------------------------------------------------------------------
Times == 0 .. Huge

(* Types.                                                                  *)
TypeOK ==
  /\ clock \in 0 .. ClockWrap - 1 /\ start \in StartTimes
  /\ state \in {"ControlInvitation", "MIDIInvitation", "Connected"}
  /\ {control, midi, stale} \subseteq Peers \cup {None}
  /\ lastSync \in Times /\ lastFeedbackTime \in Times
  /\ sequence \in Seqs \cup {0} /\ lastFeedbackSequence \in Seqs \cup {0}
  /\ notified \in BOOLEAN
  /\ silence \in 0 .. SyncTimeout + 1 /\ wrapped \in BOOLEAN
  /\ received \subseteq Seqs /\ {strange, quiet} \subseteq BOOLEAN

(* The two halves of a session are those of one host, and the handler      *)
(* knows of the session: whatever packets of others, errors and time outs  *)
(* lie between the two invitations (applemidi.cpp:576-670).                *)
HalvesMatch ==
  state = "Connected" => control # None /\ HostOf[midi] = HostOf[control] /\ notified

(* What is acknowledged to the initiator was received from it in this very *)
(* session (Reset, applemidi.cpp:758-773).                                 *)
AcksOnlyReceived == {sequence, lastFeedbackSequence} \subseteq received \cup {0}

(* Packets of other hosts, on either port, neither end nor change a        *)
(* session that has not timed out, and give it no data.                    *)
StrangersIgnored ==
  [][strange' /\ (\/ state = "MIDIInvitation" /\ ~TimedOut(InvitationTimeout)
                  \/ state = "Connected" /\ ~TimedOut(SyncTimeout))
       => UNCHANGED <<state, control, midi, lastSync, sequence, notified>>]_vars

(* The initiator times out when no sync has come for longer than           *)
(* SyncTimeout ("Timeout period for sync packets (60 seconds ...)",        *)
(* applemidi.cpp:56), or else because the sync clock has jumped: it goes   *)
(* back when the counter wraps around, and again when that passes          *)
(* nStartTime.  For no other reason does a live session end so.            *)
TimesOutWhenSilentOrWrapped ==
  [][state = "Connected" /\ state' = "ControlInvitation" /\ notified'
       => silence > SyncTimeout \/ wrapped]_vars

(* A session whose second invitation does not come is given up: the        *)
(* participant is not blocked by an initiator that goes away.              *)
InvitationEnds == state = "MIDIInvitation" ~> state # "MIDIInvitation"

(* An initiator that is silent for ever is given up.                       *)
SilentGivenUp ==
  (<>[](silence > SyncTimeout)) => []<>(state # "Connected")
=============================================================================
