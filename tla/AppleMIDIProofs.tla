--------------------------- MODULE AppleMIDIProofs ---------------------------
(***************************************************************************)
(* The safety properties of the RTP-MIDI session, for any number of peers  *)
(* and hosts, any clock and any time outs.                                 *)
(***************************************************************************)
EXTENDS AppleMIDI, TLAPS

\* A session that is begun has an initiator; AcceptMidi compares with it.
Initiator == state = "MIDIInvitation" => control # None

\* While the sync clock has not jumped, it measures the silence.
Measures ==
  state # "ControlInvitation" /\ wrapped = FALSE =>
    /\ GetSyncClock >= lastSync
    /\ silence <= SyncTimeout => GetSyncClock - lastSync = silence

ClockType ==
  /\ clock \in 0 .. ClockWrap - 1 /\ start \in 0 .. ClockWrap - 1
  /\ lastSync \in Int /\ silence \in Nat /\ wrapped \in BOOLEAN

SessionInv == ClockType /\ Initiator /\ HalvesMatch /\ AcksOnlyReceived /\ Measures

-----------------------------------------------------------------------------
(* The steps of a round leave the clock alone, so that the sync clock can  *)
(* be treated as a number.                                                 *)
LEMMA ClockStands ==
  ASSUME UNCHANGED <<clock, start>>
  PROVE  GetSyncClock' = GetSyncClock
BY DEF GetSyncClock

LEMMA SyncClockType == ClockType => GetSyncClock \in Int
BY SessionAssumption DEF ClockType, GetSyncClock

(* A sync starts the measurement afresh.                                   *)
LEMMA SyncKeeps ==
  ASSUME ClockType, SyncNow, UNCHANGED <<clock, start>>
  PROVE  ClockType' /\ Measures'
<1>1. GetSyncClock' = GetSyncClock /\ GetSyncClock \in Int
  BY ClockStands, SyncClockType
<1>2. lastSync' = GetSyncClock /\ silence' = 0 /\ wrapped' = FALSE
  BY DEF SyncNow
<1>3. ClockType'
  BY <1>1, <1>2 DEF ClockType
<1>4. Measures'
  <2>1. GetSyncClock' >= lastSync' /\ GetSyncClock' - lastSync' = silence'
    BY <1>1, <1>2
  <2> QED
    BY <2>1 DEF Measures
<1> QED
  BY <1>3, <1>4

(* The first half: the sender of the invitation becomes the initiator.     *)
LEMMA ControlInvitationKeeps ==
  ASSUME SessionInv, NEW c, ControlInvitationState(c), UNCHANGED <<clock, start>>
  PROVE  SessionInv'
<1> USE DEF SessionInv
<1>1. GetSyncClock' = GetSyncClock /\ GetSyncClock \in Int
  BY ClockStands, SyncClockType
<1>2. PICK from \in {IF c = Error THEN stale ELSE IF Invites(c) THEN c.from ELSE None} :
        IF from = None THEN UNCHANGED session
        ELSE /\ control' = from
             /\ \/ SyncNow /\ state' = "MIDIInvitation"
                \/ UNCHANGED <<state, lastSync, silence, wrapped>>
             /\ UNCHANGED <<midi, feedback, received>>
  BY DEF ControlInvitationState
<1>3. state = "ControlInvitation" /\ notified' = notified
  BY DEF ControlInvitationState
<1>4. CASE from = None
  BY <1>1, <1>2, <1>3, <1>4
     DEF session, feedback, ClockType, Initiator, HalvesMatch, AcksOnlyReceived, Measures
<1>5. CASE from # None /\ SyncNow /\ state' = "MIDIInvitation"
  <2>1. ClockType' /\ Measures'
    BY <1>5, SyncKeeps
  <2>2. Initiator' /\ HalvesMatch' /\ AcksOnlyReceived'
    BY <1>2, <1>5 DEF feedback, Initiator, HalvesMatch, AcksOnlyReceived
  <2> QED
    BY <2>1, <2>2
<1>6. CASE from # None /\ UNCHANGED <<state, lastSync, silence, wrapped>>
  <2>1. ClockType' /\ Measures'
    BY <1>3, <1>6 DEF ClockType, Measures
  <2>2. Initiator' /\ HalvesMatch' /\ AcksOnlyReceived'
    BY <1>2, <1>3, <1>6 DEF feedback, Initiator, HalvesMatch, AcksOnlyReceived
  <2> QED
    BY <2>1, <2>2
<1> QED
  BY <1>2, <1>4, <1>5, <1>6

(* Leaving the session forgets what was to be acknowledged in it.          *)
LEMMA ClearKeeps ==
  ASSUME SessionInv, ClearSession, lastSync' = 0, silence' = 0, wrapped' = FALSE,
         UNCHANGED <<clock, start>>
  PROVE  SessionInv'
<1>1. state' = "ControlInvitation" /\ sequence' = 0 /\ lastFeedbackSequence' = 0
  BY DEF ClearSession
<1>2. ClockType'
  <2>1. wrapped' \in BOOLEAN
    BY Zenon
  <2> QED
    BY <2>1 DEF SessionInv, ClockType
<1>3. Initiator' /\ HalvesMatch' /\ Measures'
  BY <1>1 DEF Initiator, HalvesMatch, Measures
<1>4. AcksOnlyReceived'
  BY <1>1 DEF AcksOnlyReceived
<1> QED
  BY <1>2, <1>3, <1>4 DEF SessionInv

LEMMA ResetKeeps ==
  ASSUME SessionInv, Reset, UNCHANGED <<clock, start>>
  PROVE  SessionInv'
BY ClearKeeps DEF Reset

(* The second half: only a sender of the initiator's host completes it.    *)
LEMMA MIDIInvitationKeeps ==
  ASSUME SessionInv, NEW m, MIDIInvitationState(m), UNCHANGED <<clock, start>>
  PROVE  SessionInv'
<1>1. GetSyncClock' = GetSyncClock /\ GetSyncClock \in Int
  BY ClockStands, SyncClockType DEF SessionInv
<1>2. CASE AcceptMidi(m)
  <2>1. ClockType' /\ Measures'
    BY <1>2, SyncKeeps DEF SessionInv, AcceptMidi
  <2>2. control # None
    BY DEF SessionInv, MIDIInvitationState, Initiator
  <2>3. Initiator' /\ HalvesMatch' /\ AcksOnlyReceived'
    BY <1>2, <2>2
       DEF SessionInv, AcceptMidi, feedback, Initiator, HalvesMatch, AcksOnlyReceived
  <2> QED
    BY <2>1, <2>3 DEF SessionInv
<1>3. CASE AcceptFails(m)
  BY <1>3, ClearKeeps DEF AcceptFails
<1>4. CASE Reset
  BY <1>4, ResetKeeps
<1>5. CASE UNCHANGED <<session, notified>>
  BY <1>1, <1>5
     DEF SessionInv, session, feedback, ClockType, Initiator, HalvesMatch, AcksOnlyReceived, Measures
<1> QED
  BY <1>2, <1>3, <1>4, <1>5 DEF MIDIInvitationState

(* In the session, the sequence number is that of a packet just received.  *)
LEMMA ConnectedKeeps ==
  ASSUME SessionInv, NEW c, NEW m, ConnectedState(c, m), UNCHANGED <<clock, start>>
  PROVE  SessionInv'
<1>1. GetSyncClock' = GetSyncClock /\ GetSyncClock \in Int
  BY ClockStands, SyncClockType DEF SessionInv
<1>2. CASE EndSession(c)
  BY <1>2, ResetKeeps DEF EndSession
<1>3. CASE Stay(m) /\ UNCHANGED notified
  <2>1. ClockType' /\ Measures'
    <3>1. CASE Syncs(m)
      BY <1>3, <3>1, SyncKeeps DEF SessionInv, Stay
    <3>2. CASE ~Syncs(m)
      BY <1>1, <1>3, <3>2 DEF SessionInv, Stay, ClockType, Measures
    <3> QED
      BY <3>1, <3>2
  <2>2. Initiator' /\ HalvesMatch'
    BY <1>3 DEF SessionInv, Stay, Initiator, HalvesMatch
  <2>3. AcksOnlyReceived'
    <3>1. /\ sequence' = SequenceAfter(m)
          /\ received' = received \cup ({SequenceAfter(m)} \ {0})
          /\ lastFeedbackSequence' \in {SequenceAfter(m), lastFeedbackSequence}
      BY <1>3 DEF Stay, Feedback
    <3> QED
      BY <3>1 DEF SessionInv, AcksOnlyReceived
  <2> QED
    BY <2>1, <2>2, <2>3 DEF SessionInv
<1>4. CASE GiveUp(m)
  BY <1>4, ResetKeeps DEF GiveUp
<1> QED
  BY <1>2, <1>3, <1>4 DEF ConnectedState

(* A tick that does not pass the counter's zero or the start moves the     *)
(* sync clock by one.                                                      *)
LEMMA TickMoves ==
  ASSUME ClockType, Tick, clock' # start, clock' # 0
  PROVE  GetSyncClock' = GetSyncClock + 1
<1>1. clock' = clock + 1
  <2>1. CASE clock = ClockWrap - 1
    <3>1. (clock + 1) % ClockWrap = 0
      BY <2>1, SessionAssumption DEF ClockType
    <3> QED
      BY <3>1 DEF Tick
  <2>2. CASE clock # ClockWrap - 1
    BY <2>2, SessionAssumption DEF ClockType, Tick
  <2> QED
    BY <2>1, <2>2
<1> QED
  BY <1>1, SessionAssumption DEF ClockType, Tick, GetSyncClock

LEMMA TickKeeps ==
  ASSUME SessionInv, Tick
  PROVE  SessionInv'
<1>1. ClockWrap \in Nat /\ ClockWrap > 0 /\ clock \in Nat /\ clock < ClockWrap
  BY SessionAssumption DEF SessionInv, ClockType
<1>2. ClockType'
  <2>1. (clock + 1) % ClockWrap \in 0 .. ClockWrap - 1
    BY <1>1, Z3
  <2> QED
    BY <2>1, SessionAssumption DEF SessionInv, ClockType, Tick
<1>3. Initiator' /\ HalvesMatch' /\ AcksOnlyReceived'
  BY DEF SessionInv, Tick, feedback, Initiator, HalvesMatch, AcksOnlyReceived
<1>4. Measures'
  <2>1. SUFFICES ASSUME state' # "ControlInvitation", ~wrapped'
        PROVE  /\ GetSyncClock' >= lastSync'
               /\ silence' <= SyncTimeout => GetSyncClock' - lastSync' = silence'
    BY SessionAssumption DEF Measures
  <2>2. clock' # start /\ clock' # 0 /\ ~wrapped
    BY <2>1 DEF Tick
  <2>3. GetSyncClock' = GetSyncClock + 1 /\ GetSyncClock \in Int
    BY <2>2, TickMoves, SyncClockType DEF SessionInv
  <2>4. /\ GetSyncClock >= lastSync
        /\ silence <= SyncTimeout => GetSyncClock - lastSync = silence
    BY <2>1, <2>2 DEF SessionInv, Measures, Tick
  <2>5. lastSync' = lastSync /\ silence' = IF silence <= SyncTimeout THEN silence + 1 ELSE silence
    BY DEF Tick
  <2> QED
    BY <2>3, <2>4, <2>5, SessionAssumption DEF SessionInv, ClockType
<1> QED
  BY <1>2, <1>3, <1>4 DEF SessionInv
-----------------------------------------------------------------------------
LEMMA InitEstablishes == Init => SessionInv
<1> SUFFICES ASSUME Init PROVE SessionInv
  OBVIOUS
<1>1. ClockType
  <2>1. wrapped \in BOOLEAN
    BY Zenon DEF Init
  <2> QED
    BY <2>1, SessionAssumption DEF Init, ClockType
<1>2. Initiator /\ HalvesMatch /\ Measures
  BY DEF Init, Initiator, HalvesMatch, Measures
<1>3. AcksOnlyReceived
  BY DEF Init, AcksOnlyReceived
<1> QED
  BY <1>1, <1>2, <1>3 DEF SessionInv

LEMMA NextKeeps == SessionInv /\ [Next]_vars => SessionInv'
<1> SUFFICES ASSUME SessionInv, [Next]_vars PROVE SessionInv'
  OBVIOUS
<1>1. ASSUME NEW c, NEW m, Round(c, m) PROVE SessionInv'
  BY <1>1, ControlInvitationKeeps, MIDIInvitationKeeps, ConnectedKeeps DEF Round
<1>2. CASE Tick
  BY <1>2, TickKeeps
<1>3. CASE UNCHANGED vars
  BY <1>3, ClockStands
     DEF vars, session, feedback, SessionInv, ClockType, Initiator, HalvesMatch, AcksOnlyReceived, Measures
<1> QED
  BY <1>1, <1>2, <1>3 DEF Next, Run

(* Whatever packets come in whatever order, and however often a send or a  *)
(* receive fails, the session's state is in order (applemidi.cpp:541-773). *)
THEOREM SessionInvHolds == Spec => []SessionInv
<1> QED
  BY InitEstablishes, NextKeeps, PTL DEF Spec

(* A session is that of one host, and the handler knows of it.             *)
THEOREM HalvesAlwaysMatch == Spec => []HalvesMatch
<1>1. SessionInv => HalvesMatch
  BY DEF SessionInv
<1> QED
  BY <1>1, SessionInvHolds, PTL

(* What was never received in this session is never acknowledged.          *)
THEOREM AcksAlwaysReceived == Spec => []AcksOnlyReceived
<1>1. SessionInv => AcksOnlyReceived
  BY DEF SessionInv
<1> QED
  BY <1>1, SessionInvHolds, PTL

(* Packets of other hosts change nothing (applemidi.cpp:632, 684, 709).    *)
THEOREM StrangersAlwaysIgnored == Spec => StrangersIgnored
<1> DEFINE Live == \/ state = "MIDIInvitation" /\ ~TimedOut(InvitationTimeout)
                   \/ state = "Connected" /\ ~TimedOut(SyncTimeout)
           Same == UNCHANGED <<state, control, midi, lastSync, sequence, notified>>
<1>1. SessionInv /\ [Next]_vars => [strange' /\ Live => Same]_vars
  <2> SUFFICES ASSUME SessionInv, Next, strange', Live PROVE Same
    OBVIOUS
  <2>1. PICK c \in ControlPackets \cup {None, Error}, m \in MidiPackets \cup {None} : Round(c, m)
    BY DEF Next, Run, Tick
  <2>2. StrangerTo(c) /\ StrangerTo(m) /\ control # None
    BY <2>1 DEF Round, SessionInv, Initiator, HalvesMatch
  <2>3. CASE MIDIInvitationState(m)
    <3>1. state = "MIDIInvitation" /\ ~TimedOut(InvitationTimeout)
      BY <2>3 DEF MIDIInvitationState
    <3>2. ~(Invites(m) /\ HostOf[m.from] = HostOf[control])
      BY <2>2 DEF StrangerTo, Invites
    <3> QED
      BY <2>3, <3>1, <3>2 DEF MIDIInvitationState, AcceptMidi, AcceptFails, session, feedback
  <2>4. CASE ConnectedState(c, m)
    <3>1. state = "Connected" /\ ~TimedOut(SyncTimeout) /\ HostOf[midi] = HostOf[control]
      BY <2>4 DEF ConnectedState, SessionInv, HalvesMatch
    <3>2. ~Ends(c)
      BY <2>2 DEF StrangerTo, Ends
    <3>3. m = None \/ m.from # midi
      BY <2>2, <3>1 DEF StrangerTo
    <3>4. ~Syncs(m) /\ SequenceAfter(m) = sequence
      BY <3>3 DEF Syncs, SequenceAfter
    <3> QED
      BY <2>4, <3>1, <3>2, <3>4 DEF ConnectedState, EndSession, GiveUp, Stay
  <2>5. ~ControlInvitationState(c)
    BY DEF ControlInvitationState
  <2> QED
    BY <2>1, <2>3, <2>4, <2>5 DEF Round
<1> QED
  BY <1>1, SessionInvHolds, PTL DEF Spec, StrangersIgnored

(* A session that was not ended by its initiator ends because of silence   *)
(* or of a jump of the clock, and nothing else (applemidi.cpp:751).        *)
THEOREM TimesOutForReason == Spec => TimesOutWhenSilentOrWrapped
<1> DEFINE Drops == state = "Connected" /\ state' = "ControlInvitation" /\ notified'
<1>1. SessionInv /\ [Next]_vars => [Drops => silence > SyncTimeout \/ wrapped]_vars
  <2> SUFFICES ASSUME SessionInv, Next, Drops PROVE silence > SyncTimeout \/ wrapped
    OBVIOUS
  <2>1. PICK c \in ControlPackets \cup {None, Error}, m \in MidiPackets \cup {None} : Round(c, m)
    BY DEF Next, Run, Tick
  <2>2. GiveUp(m)
    BY <2>1 DEF Round, ControlInvitationState, MIDIInvitationState, ConnectedState, EndSession, Stay
  <2>3. TimedOut(SyncTimeout)
    BY <2>2 DEF GiveUp
  <2>4. GetSyncClock \in Int
    BY SyncClockType DEF SessionInv
  <2> QED
    BY <2>3, <2>4, SessionAssumption DEF SessionInv, ClockType, Measures, TimedOut, Elapsed
<1> QED
  BY <1>1, SessionInvHolds, PTL DEF Spec, TimesOutWhenSilentOrWrapped
-----------------------------------------------------------------------------
(* Types.                                                                  *)

TimesTyped ==
  /\ clock \in 0 .. ClockWrap - 1 /\ start \in StartTimes
  /\ lastSync \in Times /\ lastFeedbackTime \in Times
  /\ silence \in 0 .. SyncTimeout + 1

AddressesTyped ==
  /\ state \in {"ControlInvitation", "MIDIInvitation", "Connected"}
  /\ control \in Peers \cup {None} /\ midi \in Peers \cup {None} /\ stale \in Peers \cup {None}

SequencesTyped ==
  /\ sequence \in Seqs \cup {0} /\ lastFeedbackSequence \in Seqs \cup {0}
  /\ received \subseteq Seqs

FlagsTyped ==
  /\ notified \in BOOLEAN /\ wrapped \in BOOLEAN /\ strange \in BOOLEAN /\ quiet \in BOOLEAN

\* A difference of the clock that is negative comes to a number below Huge.
LEMMA SyncClockFits == TimesTyped => GetSyncClock \in Times
BY SessionAssumption DEF TimesTyped, Times, GetSyncClock

\* A round reads the clock and leaves it alone.
LEMMA TimesKept == TimesTyped /\ [Next]_vars => TimesTyped'
<1> SUFFICES ASSUME TimesTyped, [Next]_vars PROVE TimesTyped'
  OBVIOUS
<1>1. GetSyncClock \in Times /\ 0 \in Times
  BY SyncClockFits, SessionAssumption DEF Times
<1>2. SyncTimeout \in Nat /\ ClockWrap \in Nat
  BY SessionAssumption
<1>3. ASSUME NEW c, NEW m, Round(c, m) PROVE TimesTyped'
  <2>1. UNCHANGED <<clock, start>>
    BY <1>3 DEF Round
  <2>2. lastSync' \in {lastSync, 0, GetSyncClock} /\ silence' \in {silence, 0}
    BY <1>3 DEF Round, ControlInvitationState, MIDIInvitationState, ConnectedState, AcceptMidi,
                AcceptFails, SyncNow, Reset, EndSession, Stay, GiveUp, session
  <2>3. lastFeedbackTime' \in {lastFeedbackTime, 0, GetSyncClock}
    BY <1>3 DEF Round, ControlInvitationState, MIDIInvitationState, ConnectedState, AcceptMidi,
                AcceptFails, ClearSession, Reset, EndSession, Stay, GiveUp, Feedback, session, feedback
  <2> QED BY <1>1, <1>2, <2>1, <2>2, <2>3 DEF TimesTyped
<1>4. CASE Tick
  <2>1. clock + 1 \in Nat /\ ClockWrap > 0
    BY <1>2, SessionAssumption DEF TimesTyped
  <2>2. (clock + 1) % ClockWrap \in 0 .. ClockWrap - 1
    BY <1>2, <2>1, Z3
  <2>3. UNCHANGED <<start, lastSync, lastFeedbackTime>> /\ clock' = (clock + 1) % ClockWrap
    BY <1>4 DEF Tick, feedback
  <2>4. silence' = IF silence <= SyncTimeout THEN silence + 1 ELSE silence
    BY <1>4 DEF Tick
  <2> QED BY <1>2, <2>2, <2>3, <2>4 DEF TimesTyped
<1>5. CASE UNCHANGED vars
  BY <1>5 DEF vars, session, feedback, TimesTyped
<1> QED BY <1>3, <1>4, <1>5 DEF Next, Run

\* Addresses come from packets, and from a buffer that held one.
LEMMA AddressesKept == AddressesTyped /\ [Next]_vars => AddressesTyped'
<1> SUFFICES ASSUME AddressesTyped, [Next]_vars PROVE AddressesTyped'
  OBVIOUS
<1>1. ASSUME NEW c \in ControlPackets \cup {None, Error}, NEW m \in MidiPackets \cup {None}, Round(c, m)
      PROVE  AddressesTyped'
  <2>1. c \notin {None, Error} => c.from \in Peers
    BY DEF ControlPackets
  <2>2. m # None => m.from \in Peers
    BY DEF MidiPackets
  <2>3. stale' \in Peers \cup {None}
    BY <1>1, <2>1 DEF Round, Keeps, AddressesTyped
  <2>4. CASE ControlInvitationState(c)
    <3>1. PICK from : /\ from = IF c = Error THEN stale ELSE IF Invites(c) THEN c.from ELSE None
                      /\ \/ UNCHANGED session
                         \/ /\ control' = from /\ UNCHANGED midi
                            /\ state' \in {state, "MIDIInvitation"}
      BY <2>4 DEF ControlInvitationState, session
    <3>2. from \in Peers \cup {None}
      BY <2>1, <3>1 DEF Invites, AddressesTyped
    <3> QED BY <2>3, <3>1, <3>2 DEF AddressesTyped, session
  <2>5. CASE MIDIInvitationState(m)
    <3>1. UNCHANGED control /\ state' \in {state, "ControlInvitation", "Connected"}
      BY <2>5 DEF MIDIInvitationState, AcceptMidi, AcceptFails, ClearSession, Reset, session
    <3>2. midi' = midi \/ (m # None /\ midi' = m.from)
      BY <2>5 DEF MIDIInvitationState, AcceptMidi, AcceptFails, Invites, Reset, session
    <3> QED BY <2>2, <2>3, <3>1, <3>2 DEF AddressesTyped
  <2>6. CASE ConnectedState(c, m)
    <3>1. UNCHANGED <<control, midi>> /\ state' \in {state, "ControlInvitation"}
      BY <2>6 DEF ConnectedState, EndSession, Stay, GiveUp, ClearSession, Reset
    <3> QED BY <2>3, <3>1 DEF AddressesTyped
  <2> QED BY <1>1, <2>4, <2>5, <2>6 DEF Round
<1>2. CASE Tick \/ UNCHANGED vars
  BY <1>2 DEF Tick, vars, session, AddressesTyped
<1> QED BY <1>1, <1>2 DEF Next, Run

\* Sequence numbers come from packets of data.
LEMMA SequencesKept == SequencesTyped /\ [Next]_vars => SequencesTyped'
<1> SUFFICES ASSUME SequencesTyped, [Next]_vars PROVE SequencesTyped'
  OBVIOUS
<1>1. ASSUME NEW c, NEW m \in MidiPackets \cup {None}, Round(c, m) PROVE SequencesTyped'
  <2>1. SequenceAfter(m) \in Seqs \cup {0}
    BY DEF SequenceAfter, MidiPackets, SequencesTyped
  <2>2. \/ UNCHANGED <<sequence, lastFeedbackSequence, received>>
        \/ sequence' = 0 /\ lastFeedbackSequence' = 0 /\ received' = {}
        \/ /\ sequence' = SequenceAfter(m)
           /\ lastFeedbackSequence' \in {SequenceAfter(m), lastFeedbackSequence}
           /\ received' = received \cup ({SequenceAfter(m)} \ {0})
    BY <1>1 DEF Round, ControlInvitationState, MIDIInvitationState, ConnectedState, AcceptMidi,
                AcceptFails, ClearSession, Reset, EndSession, Stay, GiveUp, Feedback, session, feedback
  <2> QED BY <2>1, <2>2 DEF SequencesTyped
<1>2. CASE Tick \/ UNCHANGED vars
  BY <1>2 DEF Tick, vars, session, feedback, SequencesTyped
<1> QED BY <1>1, <1>2 DEF Next, Run

\* What is told and remembered is true or false.
LEMMA FlagsKept == FlagsTyped /\ [Next]_vars => FlagsTyped'
<1> SUFFICES ASSUME FlagsTyped, [Next]_vars PROVE FlagsTyped'
  OBVIOUS
<1>1. ASSUME NEW c, NEW m, Round(c, m) PROVE FlagsTyped'
  <2>1. notified' = notified \/ notified' = TRUE \/ notified' = FALSE
    BY <1>1, Zenon DEF Round, ControlInvitationState, MIDIInvitationState, ConnectedState, AcceptMidi,
                       AcceptFails, EndSession
  <2>2. wrapped' = wrapped \/ wrapped' = FALSE
    BY <1>1, Zenon DEF Round, ControlInvitationState, MIDIInvitationState, ConnectedState, AcceptMidi,
                       AcceptFails, SyncNow, Reset, EndSession, Stay, GiveUp, session
  <2>3. strange' \in BOOLEAN /\ quiet' \in BOOLEAN
    BY <1>1, Zenon DEF Round
  <2> QED BY <2>1, <2>2, <2>3, Zenon DEF FlagsTyped
<1>2. CASE Tick
  BY <1>2, Zenon DEF Tick, FlagsTyped
<1>3. CASE UNCHANGED vars
  BY <1>3, Zenon DEF vars, session, FlagsTyped
<1> QED BY <1>1, <1>2, <1>3 DEF Next, Run

(* Every variable keeps its type: addresses are those of peers, sequence   *)
(* numbers those of packets, and the sync clock stays within 64 bits even  *)
(* when its difference is negative (applemidi.cpp:541-773).                *)
THEOREM TypeCorrect == Spec => []TypeOK
<1> DEFINE Typed == TimesTyped /\ AddressesTyped /\ SequencesTyped /\ FlagsTyped
<1>1. Init => Typed
  <2> SUFFICES ASSUME Init PROVE Typed
    OBVIOUS
  <2>1. TimesTyped
    BY SessionAssumption DEF Init, TimesTyped, Times
  <2>2. AddressesTyped /\ SequencesTyped
    BY DEF Init, AddressesTyped, SequencesTyped
  <2>3. FlagsTyped
    BY Zenon DEF Init, FlagsTyped
  <2> QED BY <2>1, <2>2, <2>3
<1>2. Typed /\ [Next]_vars => Typed'
  BY TimesKept, AddressesKept, SequencesKept, FlagsKept
<1>3. Typed => TypeOK
  <2> SUFFICES ASSUME Typed PROVE TypeOK
    OBVIOUS
  <2>1. {control, midi, stale} \subseteq Peers \cup {None}
    BY DEF AddressesTyped
  <2>2. notified \in BOOLEAN /\ wrapped \in BOOLEAN /\ {strange, quiet} \subseteq BOOLEAN
    BY Zenon DEF FlagsTyped
  <2> QED BY <2>1, <2>2 DEF TypeOK, TimesTyped, AddressesTyped, SequencesTyped
<1> QED BY <1>1, <1>2, <1>3, PTL DEF Spec
=============================================================================
