----------------------------- MODULE BankSwitch -----------------------------
(***************************************************************************)
(* Bank changes.  HandleFullMIDIMessage turns bank-select messages into a  *)
(* pending request; CMiniJV880::Process, once the request has been quiet   *)
(* for BANK_SWITCH_DEBOUNCE_US, has switchPatchBank load the wave ROM and  *)
(* the patch memory of the bank.  The handler runs on the same core as     *)
(* Process, in the USB interrupt or in a network task: it may come between *)
(* any two steps of Process, but never in the middle of itself.            *)
(***************************************************************************)
EXTENDS Integers

CONSTANTS
  Channels,   \* MIDI channels
  Lsbs,       \* values of the bank LSB that are sent
  Forwarded,  \* the LSBs left to the firmware (80 and 81)
  MaxBank,    \* the largest bank switchPatchBank takes (99)
  Debounce,   \* BANK_SWITCH_DEBOUNCE_US, in ticks
  RomOf,      \* m_bankMappings: the wave ROM of each mapped bank
  NoRom,      \* no expansion ROM
  None        \* 0xFF: nothing is pending

ASSUME BankAssumption ==
  /\ Lsbs \subseteq 0 .. 127 /\ Forwarded \subseteq Lsbs
  /\ Debounce \in Nat \ {0} /\ MaxBank \in Nat
  /\ DOMAIN RomOf \subseteq 0 .. 99
  /\ NoRom \notin {RomOf[b] : b \in DOMAIN RomOf}
  /\ None \notin 0 .. 127

Roms == {RomOf[b] : b \in DOMAIN RomOf} \cup {NoRom}
Boot == -1    \* the patch memory as it was read at start

VARIABLES
  msbZero,  \* the channels whose m_nBankMSB is 0
  pending,  \* m_nPendingBankSwitch
  age,      \* ticks since m_nBankSwitchTimestamp, at most Debounce
  pc,       \* where Process and switchPatchBank are
  held,     \* the bank Process has read
  loaded,   \* the ROMs that are loaded in memory
  exp,      \* the ROM in waverom_exp
  nv,       \* the bank whose patches are in nvram
  nvOk,     \* the last switch found its patch file, whole
  paused,   \* m_bAudioPaused
  asked,    \* history: the last bank asked for
  inSwitch  \* history: it was asked for after Process had decided to switch

request == <<pending, age, asked, inSwitch>>
memory == <<loaded, exp, nv, nvOk>>
vars == <<msbZero, request, pc, held, memory, paused>>

Init ==
  /\ msbZero = Channels
  /\ pending = None
  /\ age = Debounce
  /\ pc = "Poll"
  /\ held = None
  /\ exp \in Roms
  /\ loaded = {exp} \ {NoRom}
  /\ nv = Boot
  /\ nvOk = TRUE
  /\ paused = FALSE
  /\ asked = None
  /\ inSwitch = FALSE
-----------------------------------------------------------------------------
(* HandleFullMIDIMessage.                                                  *)

BankMSB(c, zero) ==
  /\ msbZero' = IF zero THEN msbZero \cup {c} ELSE msbZero \ {c}
  /\ UNCHANGED <<request, pc, held, memory, paused>>

Deciding == pc \in {"Poll", "Stamp"}

\* Mutant: the time of the request is not taken.
BankLSBNoStamp(c, lsb) ==
  /\ c \in msbZero
  /\ lsb \notin Forwarded
  /\ pending' = lsb
  /\ asked' = lsb
  /\ inSwitch' = ~Deciding
  /\ UNCHANGED <<age, msbZero, pc, held, memory, paused>>

\* Other bank LSBs, and those 80 and 81 stand for, go to the firmware.
BankLSB(c, lsb) ==
  /\ c \in msbZero
  /\ lsb \notin Forwarded
  /\ pending' = lsb
  /\ age' = 0
  /\ asked' = lsb
  /\ inSwitch' = ~Deciding
  /\ UNCHANGED <<msbZero, pc, held, memory, paused>>

Handler ==
  \/ \E c \in Channels, zero \in BOOLEAN : BankMSB(c, zero)
  \/ \E c \in Channels, lsb \in Lsbs : BankLSB(c, lsb)

\* A tick is far longer than the few instructions between the two loads of
\* Process and the interrupts that may come between them.
Tick ==
  /\ age < Debounce
  /\ pc # "Stamp"
  /\ age' = age + 1
  /\ UNCHANGED <<msbZero, pending, asked, inSwitch, pc, held, memory, paused>>
-----------------------------------------------------------------------------
(* Process.                                                                *)

LoadPending ==
  /\ pc = "Poll"
  /\ pending # None
  /\ held' = pending
  /\ pc' = "Stamp"
  /\ UNCHANGED <<msbZero, request, memory, paused>>

\* Mutant: the request is forgotten though it is still too young.
LoadStampForget ==
  /\ pc = "Stamp"
  /\ pc' = IF age >= Debounce THEN "Switch" ELSE "Clear"
  /\ UNCHANGED <<msbZero, request, held, memory, paused>>

LoadStamp ==
  /\ pc = "Stamp"
  /\ pc' = IF age >= Debounce THEN "Switch" ELSE "Poll"
  /\ UNCHANGED <<msbZero, request, held, memory, paused>>

\* switchPatchBank has returned and the other tasks have had their turn.
ClearPending ==
  /\ pc = "Clear"
  /\ pending' = None
  /\ held' = None
  /\ pc' = "Poll"
  /\ UNCHANGED <<msbZero, age, asked, inSwitch, memory, paused>>
-----------------------------------------------------------------------------
(* switchPatchBank.                                                        *)

Mapped(b) == b \in DOMAIN RomOf /\ b <= MaxBank

\* Bank 0 changes the patch memory only.
NeedsRom(b) == b # 0

Refuse ==
  /\ pc = "Switch"
  /\ ~(Mapped(held) /\ (NeedsRom(held) => RomOf[held] \in loaded))
  /\ pc' = "Clear"
  /\ UNCHANGED <<msbZero, request, held, memory, paused>>

\* LoadRom, when the ROM is not loaded yet, may fail: then Refuse it is.
LoadAndPause ==
  /\ pc = "Switch"
  /\ Mapped(held)
  /\ loaded' = IF NeedsRom(held) THEN loaded \cup {RomOf[held]} ELSE loaded
  /\ paused' = TRUE
  /\ pc' = "CopyRom"
  /\ UNCHANGED <<msbZero, request, held, exp, nv, nvOk>>

CopyRom ==
  /\ pc = "CopyRom"
  /\ exp' = IF NeedsRom(held) THEN RomOf[held] ELSE exp
  /\ pc' = "LoadNvram"
  /\ UNCHANGED <<msbZero, request, held, loaded, nv, nvOk, paused>>

\* Mutant: the patch file of the latest request is read.
LoadNvramOfLatest ==
  /\ pc = "LoadNvram"
  /\ nv' = asked
  /\ nvOk' = TRUE
  /\ pc' = "Restart"
  /\ UNCHANGED <<msbZero, request, held, loaded, exp, paused>>

\* A file that is missing leaves the patch memory alone; a read that fails
\* or falls short leaves it with a part of the file.  The switch goes on.
LoadNvram ==
  /\ pc = "LoadNvram"
  /\ \/ nv' = held /\ nvOk' = TRUE
     \/ nv' \in {nv, held} /\ nvOk' = FALSE
  /\ pc' = "Restart"
  /\ UNCHANGED <<msbZero, request, held, loaded, exp, paused>>

Restart ==
  /\ pc = "Restart"
  /\ paused' = FALSE
  /\ pc' = "Clear"
  /\ UNCHANGED <<msbZero, request, held, memory>>

Switching == Refuse \/ LoadAndPause \/ CopyRom \/ LoadNvram \/ Restart

Process == LoadPending \/ LoadStamp \/ Switching \/ ClearPending

Next == Handler \/ Tick \/ Process

Spec == Init /\ [][Next]_vars

\* Core 0 runs Process for ever; the clock runs, whatever Process does.
LiveSpec == Spec /\ WF_vars(Process) /\ SF_vars(Tick)
-----------------------------------------------------------------------------
(* Types.                                                                  *)
TypeOK ==
  /\ msbZero \subseteq Channels
  /\ pending \in Lsbs \cup {None}
  /\ age \in 0 .. Debounce
  /\ pc \in {"Poll", "Stamp", "Switch", "CopyRom", "LoadNvram", "Restart", "Clear"}
  /\ held \in Lsbs \cup {None}
  /\ loaded \subseteq Roms \ {NoRom}
  /\ exp \in Roms
  /\ nv \in Lsbs \cup {Boot}
  /\ nvOk \in BOOLEAN
  /\ paused \in BOOLEAN
  /\ asked \in Lsbs \cup {None}
  /\ inSwitch \in BOOLEAN

(* A switch is decided on only for the bank asked for last, and only after *)
(* the debounce time has passed without another request, whatever requests *)
(* come between the loads of Process (minijv880.cpp:277-285).              *)
DecidedOnLatest ==
  [][pc = "Stamp" /\ pc' = "Switch" => held = asked /\ age = Debounce]_vars

(* When sound resumes, the expansion waves are those the patches in memory *)
(* were made for, unless the patch file could not be read whole or the     *)
(* patches are those of bank 0 or of the start: in these cases the code    *)
(* itself mixes boards (minijv880.cpp:923-949).                            *)
WavesMatchPatches ==
  ~paused /\ nvOk /\ nv \notin {Boot, 0} => exp = RomOf[nv] /\ exp \in loaded

(* Bank 0 keeps the expansion waves; a refused switch changes nothing: the *)
(* waves change only between a pause and a resumption, and only to those   *)
(* of the bank decided on.                                                 *)
WavesChangeWhilePaused ==
  [][exp' # exp => paused /\ held # 0 /\ exp' = RomOf[held]]_vars

(* A request is taken back unserved only if it came after Process had      *)
(* decided to switch to another bank (the store of minijv880.cpp:287).     *)
ForgottenOnlyInSwitch ==
  [][pending # None /\ pending' = None => pending = held \/ inSwitch]_vars

(* Once no more messages come, the bank asked for last, unless it was      *)
(* asked for while a switch was under way, is decided on in the end: the   *)
(* debounce of minijv880.cpp:277-287 delays a request but never drops it.  *)
RequestServed ==
  <>[][~Handler]_vars =>
    \A b \in Lsbs :
      (pending = b /\ Deciding) ~> ((pc = "Switch" /\ held = b) \/ asked # b)
-----------------------------------------------------------------------------
(* The inductive invariant: what Process has read is the latest request    *)
(* unless that is younger than the debounce time; a bank being switched to *)
(* has its ROM loaded; sound is paused exactly while memory is rewritten.  *)

Reading == pc \in {"CopyRom", "LoadNvram", "Restart"}

PendingIsLatest == pending \in {None, asked}

HeldIsLatest ==
  pc = "Stamp" =>
    pending = asked /\ asked # None /\ (age = Debounce => held = asked)

HeldUnlessOvertaken ==
  pc \notin {"Poll", "Stamp"} => held # None /\ (pending = held \/ inSwitch)

RomReady == Reading => Mapped(held) /\ (NeedsRom(held) => RomOf[held] \in loaded)

WavesOfHeld == pc \in {"LoadNvram", "Restart"} /\ NeedsRom(held) => exp = RomOf[held]

WavesOfPatches ==
  pc # "LoadNvram" /\ nvOk /\ nv \notin {Boot, 0} => exp = RomOf[nv] /\ exp \in loaded

BankInv ==
  /\ TypeOK
  /\ (paused <=> Reading)
  /\ PendingIsLatest /\ HeldIsLatest /\ HeldUnlessOvertaken
  /\ RomReady /\ WavesOfHeld /\ WavesOfPatches
=============================================================================
