-------------------------- MODULE BankSwitchProofs --------------------------
(* Theorems of BankSwitch, for every set of channels, banks and boards and *)
(* every debounce time.                                                    *)
EXTENDS BankSwitch, TLAPS

USE BankAssumption

LEMMA InitialBank == Init => BankInv
<1> SUFFICES ASSUME Init PROVE BankInv
  OBVIOUS
<1>1. TypeOK
  <2>1. exp \in Roms /\ loaded \subseteq Roms \ {NoRom}
    BY DEF Init
  <2>2. age \in 0 .. Debounce
    BY DEF Init
  <2> QED
    BY <2>1, <2>2 DEF Init, TypeOK
<1>2. paused <=> Reading
  BY DEF Init, Reading
<1>3. PendingIsLatest /\ HeldIsLatest /\ HeldUnlessOvertaken
  BY DEF Init, PendingIsLatest, HeldIsLatest, HeldUnlessOvertaken
<1>4. RomReady /\ WavesOfHeld /\ WavesOfPatches
  BY DEF Init, Reading, RomReady, WavesOfHeld, WavesOfPatches
<1> QED
  BY <1>1, <1>2, <1>3, <1>4 DEF BankInv

\* A message changes the request only.
LEMMA HandlerStep == BankInv /\ Handler => BankInv'
<1> SUFFICES ASSUME BankInv, Handler PROVE BankInv'
  OBVIOUS
<1>1. ASSUME NEW c \in Channels, NEW zero \in BOOLEAN, BankMSB(c, zero) PROVE BankInv'
  BY <1>1 DEF BankMSB, BankInv, TypeOK, Reading, PendingIsLatest, HeldIsLatest,
         HeldUnlessOvertaken, RomReady, WavesOfHeld, WavesOfPatches, Mapped, NeedsRom,
         request, memory
<1>2. ASSUME NEW c \in Channels, NEW lsb \in Lsbs, BankLSB(c, lsb) PROVE BankInv'
  <2>1. inSwitch' \in BOOLEAN /\ (pc \notin {"Poll", "Stamp"} => inSwitch')
    BY <1>2 DEF BankLSB, Deciding
  <2>2. lsb # None /\ 0 \in 0 .. Debounce /\ 0 # Debounce
    OBVIOUS
  <2>3. TypeOK'
    BY <1>2, <2>1, <2>2 DEF BankLSB, memory, BankInv, TypeOK
  <2>4. (paused <=> Reading)' /\ RomReady' /\ WavesOfHeld' /\ WavesOfPatches'
    BY <1>2 DEF BankLSB, memory, BankInv, Reading, RomReady, WavesOfHeld, WavesOfPatches,
           Mapped, NeedsRom
  <2>5. PendingIsLatest' /\ HeldIsLatest'
    BY <1>2, <2>2 DEF BankLSB, PendingIsLatest, HeldIsLatest
  <2>6. HeldUnlessOvertaken'
    BY <1>2, <2>1 DEF BankLSB, BankInv, HeldUnlessOvertaken
  <2> QED
    BY <2>3, <2>4, <2>5, <2>6 DEF BankInv
<1> QED
  BY <1>1, <1>2 DEF Handler

LEMMA TickStep == BankInv /\ Tick => BankInv'
  BY DEF Tick, BankInv, TypeOK, Reading, PendingIsLatest, HeldIsLatest, HeldUnlessOvertaken,
         RomReady, WavesOfHeld, WavesOfPatches, Mapped, NeedsRom, memory

\* Each step of Process, one by one.
LEMMA ProcessStep == BankInv /\ Process => BankInv'
<1> SUFFICES ASSUME BankInv, Process PROVE BankInv'
  OBVIOUS
<1>1. CASE LoadPending
  BY <1>1 DEF LoadPending, BankInv, TypeOK, Reading, PendingIsLatest, HeldIsLatest,
         HeldUnlessOvertaken, RomReady, WavesOfHeld, WavesOfPatches, Mapped, NeedsRom,
         request, memory
<1>2. CASE LoadStamp
  BY <1>2 DEF LoadStamp, BankInv, TypeOK, Reading, PendingIsLatest, HeldIsLatest,
         HeldUnlessOvertaken, RomReady, WavesOfHeld, WavesOfPatches, Mapped, NeedsRom,
         request, memory
<1>3. CASE Refuse
  BY <1>3 DEF Refuse, BankInv, TypeOK, Reading, PendingIsLatest, HeldIsLatest,
         HeldUnlessOvertaken, RomReady, WavesOfHeld, WavesOfPatches, Mapped, NeedsRom,
         request, memory
<1>4. CASE LoadAndPause
  BY <1>4 DEF LoadAndPause, BankInv, TypeOK, Reading, PendingIsLatest, HeldIsLatest,
         HeldUnlessOvertaken, RomReady, WavesOfHeld, WavesOfPatches, Mapped, NeedsRom,
         request, memory, Roms
<1>5. CASE CopyRom
  BY <1>5 DEF CopyRom, BankInv, TypeOK, Reading, PendingIsLatest, HeldIsLatest,
         HeldUnlessOvertaken, RomReady, WavesOfHeld, WavesOfPatches, Mapped, NeedsRom,
         request, memory, Roms
<1>6. CASE LoadNvram
  <2>1. nv' \in Lsbs \cup {Boot} /\ nvOk' \in BOOLEAN /\ (nvOk' => nv' = held)
    <3>1. held \in Lsbs /\ nv \in Lsbs \cup {Boot}
      <4>1. pc = "LoadNvram"
        BY <1>6 DEF LoadNvram
      <4> QED BY <4>1 DEF BankInv, TypeOK, HeldUnlessOvertaken
    <3>2. CASE nv' = held /\ nvOk' = TRUE
      <4>1. nv' \in Lsbs \cup {Boot}
        BY <3>1, <3>2
      <4> QED BY <3>2, <4>1
    <3>3. CASE nv' \in {nv, held} /\ nvOk' = FALSE
      <4>1. nv' \in Lsbs \cup {Boot}
        BY <3>1, <3>3
      <4> QED BY <3>3, <4>1
    <3> QED
      BY <1>6, <3>2, <3>3 DEF LoadNvram
  <2>2. pc = "LoadNvram" /\ pc' = "Restart"
    BY <1>6 DEF LoadNvram
  <2>3. UNCHANGED <<msbZero, request, held, loaded, exp, paused>>
    BY <1>6, Zenon DEF LoadNvram
  <2>4. TypeOK'
    BY <2>1, <2>2, <2>3 DEF request, BankInv, TypeOK
  <2>5. (paused <=> Reading)' /\ RomReady' /\ WavesOfHeld'
    BY <2>2, <2>3 DEF request, BankInv, Reading, RomReady, WavesOfHeld, Mapped, NeedsRom
  <2>6. PendingIsLatest' /\ HeldIsLatest' /\ HeldUnlessOvertaken'
    BY <2>2, <2>3 DEF request, BankInv, PendingIsLatest, HeldIsLatest, HeldUnlessOvertaken
  <2>7. held # 0 => exp = RomOf[held] /\ exp \in loaded
    BY <2>2 DEF BankInv, Reading, RomReady, WavesOfHeld, NeedsRom
  <2>8. WavesOfPatches'
    BY <2>1, <2>3, <2>7 DEF WavesOfPatches
  <2> QED
    BY <2>4, <2>5, <2>6, <2>8 DEF BankInv
<1>7. CASE Restart
  BY <1>7 DEF Restart, BankInv, TypeOK, Reading, PendingIsLatest, HeldIsLatest,
         HeldUnlessOvertaken, RomReady, WavesOfHeld, WavesOfPatches, Mapped, NeedsRom,
         request, memory
<1>8. CASE ClearPending
  BY <1>8 DEF ClearPending, BankInv, TypeOK, Reading, PendingIsLatest, HeldIsLatest,
         HeldUnlessOvertaken, RomReady, WavesOfHeld, WavesOfPatches, Mapped, NeedsRom,
         request, memory
<1> QED
  BY <1>1, <1>2, <1>3, <1>4, <1>5, <1>6, <1>7, <1>8 DEF Process, Switching

LEMMA BankStep == BankInv /\ [Next]_vars => BankInv'
<1>1. BankInv /\ UNCHANGED vars => BankInv'
  BY DEF vars, request, memory, BankInv, TypeOK, Reading, PendingIsLatest, HeldIsLatest,
         HeldUnlessOvertaken, RomReady, WavesOfHeld, WavesOfPatches, Mapped, NeedsRom
<1> QED
  BY <1>1, HandlerStep, TickStep, ProcessStep DEF Next

(* The invariant the others rest on: minijv880.cpp:277-287 and 874-971     *)
(* under messages at any moment.                                           *)
THEOREM BankInvariant == Spec => []BankInv
  BY InitialBank, BankStep, PTL DEF Spec

(* The state of bank changes keeps to its types.                           *)
THEOREM BankTypeCorrect == Spec => []TypeOK
<1>1. BankInv => TypeOK
  BY DEF BankInv
<1> QED
  BY <1>1, BankInvariant, PTL

(* After a switch to a bank other than 0 whose patch file was there and    *)
(* whole, sound resumes with the waves of that bank's board, from a ROM    *)
(* that is loaded, however requests overtake each other.  Of the other     *)
(* switches, and of the patches read at start, nothing is claimed: the     *)
(* code does resume with one board's patches and another's waves then      *)
(* (minijv880.cpp:923-949).                                                *)
THEOREM WavesMatch == Spec => []WavesMatchPatches
<1>1. BankInv => WavesMatchPatches
  BY DEF BankInv, TypeOK, Reading, WavesOfPatches, WavesMatchPatches
<1> QED
  BY <1>1, BankInvariant, PTL

(* The wave memory is rewritten during a pause only.                       *)
THEOREM WavesChangeInPause == Spec => WavesChangeWhilePaused
<1>1. BankInv /\ [Next]_vars => [exp' # exp => paused /\ held # 0 /\ exp' = RomOf[held]]_vars
  BY DEF Next, vars, Handler, BankMSB, BankLSB, Tick, Process, Switching, LoadPending, LoadStamp,
         Refuse, LoadAndPause, CopyRom, LoadNvram, Restart, ClearPending, BankInv, TypeOK,
         Reading, NeedsRom, request, memory
<1> QED
  BY <1>1, BankInvariant, PTL DEF Spec, WavesChangeWhilePaused

(* The bank switched to is the one asked for last and has been quiet for   *)
(* the debounce time.                                                      *)
THEOREM SwitchIsToLatest == Spec => DecidedOnLatest
<1>1. BankInv /\ [Next]_vars
        => [pc = "Stamp" /\ pc' = "Switch" => held = asked /\ age = Debounce]_vars
  BY DEF Next, vars, Handler, BankMSB, BankLSB, Tick, Process, Switching, LoadPending, LoadStamp,
         Refuse, LoadAndPause, CopyRom, LoadNvram, Restart, ClearPending, BankInv, TypeOK,
         HeldIsLatest, request, memory
<1> QED
  BY <1>1, BankInvariant, PTL DEF Spec, DecidedOnLatest

(* Only a request that came during a switch is forgotten unserved.         *)
THEOREM RequestKept == Spec => ForgottenOnlyInSwitch
<1>1. BankInv /\ [Next]_vars
        => [pending # None /\ pending' = None => pending = held \/ inSwitch]_vars
  BY DEF Next, vars, Handler, BankMSB, BankLSB, Tick, Process, Switching, LoadPending, LoadStamp,
         Refuse, LoadAndPause, CopyRom, LoadNvram, Restart, ClearPending, BankInv, TypeOK,
         HeldUnlessOvertaken, request, memory
<1> QED
  BY <1>1, BankInvariant, PTL DEF Spec, ForgottenOnlyInSwitch
=============================================================================
