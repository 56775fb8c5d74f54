----------------------------- MODULE GateArray -----------------------------
(***************************************************************************)
(* The gate array's interrupt lines between three cores.                   *)
(*                                                                         *)
(* Core 3 (the sound chip) raises line 5 for a voice, core 0 (the panel)   *)
(* pulses line 3 or 4 for a turn of the encoder, core 2 (the firmware)     *)
(* takes the trigger and asks the sound chip for the voice.  Nothing       *)
(* guards ga_int_trigger, ga_int and the request: MCU_GA_SetGAInt is here  *)
(* taken apart into its loads and stores.  McuDevices has the same         *)
(* operation in one piece.  The firmware has let these three lines through *)
(* (ga_int_enable).                                                        *)
(***************************************************************************)
EXTENDS Naturals

CONSTANTS
  Voices,       \* slots of the sound chip
  Turns         \* how often the encoder is turned

ASSUME GateAssumption == Turns \in Nat

None == "none"
Sound == 5                      \* the line of the sound chip
Clockwise == 3
Counter == 4
Panel == {Clockwise, Counter}   \* the lines of the encoder

VARIABLES
  trigger,      \* ga_int_trigger: the line that rose last, or 0
  lines,        \* ga_int: the lines that are up
  request,      \* what IRQ0 asks
  asserted,     \* pcm.irq_assert
  channel,      \* pcm.irq_channel
  lock,         \* pcm_lock: the core that holds it, in a set
  credit,       \* the cycles of core 2 are ahead of those of core 3
  pc,           \* where each core is
  call,         \* the arguments of MCU_GA_SetGAInt, for each core
  seen,         \* what it read of the trigger, for each core
  got,          \* the trigger core 2 took
  cleared,      \* core 2 found the interrupt asserted
  status,       \* the voice core 2 read
  turns,        \* turns left
  raisedBy      \* history: the voice of the interrupt asserted last

shared == <<trigger, lines, request>>
chip   == <<asserted, channel, lock, raisedBy>>
taken  == <<got, cleared, status>>
vars == <<shared, chip, credit, pc, call, seen, taken, turns>>

Cores == {0, 2, 3}

Init ==
  /\ trigger = 0 /\ lines = {} /\ request = FALSE
  /\ asserted = FALSE /\ channel = None /\ lock = {} /\ raisedBy = None
  /\ credit = FALSE
  /\ pc = [c \in Cores |-> "idle"]
  /\ call = [c \in Cores |-> [line |-> Sound, on |-> FALSE]]
  /\ seen = [c \in Cores |-> FALSE]
  /\ got = 0 /\ cleared = FALSE /\ status = None
  /\ turns = Turns

Goto(c, place) == pc' = [pc EXCEPT ![c] = place]
Calls(c, line, on) == call' = [call EXCEPT ![c] = [line |-> line, on |-> on]]
-----------------------------------------------------------------------------
(* MCU_GA_SetGAInt, by whatever core.                                      *)

\* A line that goes up becomes the trigger.
Rise(c) ==
  /\ pc[c] = "rise"
  /\ trigger' = IF call[c].on /\ call[c].line \notin lines THEN call[c].line ELSE trigger
  /\ Goto(c, "line")
  /\ UNCHANGED <<lines, request, chip, credit, call, seen, taken, turns>>

SetLine(c) ==
  /\ pc[c] = "line"
  /\ lines' = IF call[c].on THEN lines \cup {call[c].line} ELSE lines \ {call[c].line}
  /\ Goto(c, "look")
  /\ UNCHANGED <<trigger, request, chip, credit, call, seen, taken, turns>>

Look(c) ==
  /\ pc[c] = "look"
  /\ seen' = [seen EXCEPT ![c] = trigger # 0]
  /\ Goto(c, "ask")
  /\ UNCHANGED <<shared, chip, credit, call, taken, turns>>

Ask(c) ==
  /\ pc[c] = "ask"
  /\ request' = seen[c]
  /\ Goto(c, "done")
  /\ UNCHANGED <<trigger, lines, chip, credit, call, seen, taken, turns>>

MCU_GA_SetGAInt(c) == Rise(c) \/ SetLine(c) \/ Look(c) \/ Ask(c)
-----------------------------------------------------------------------------
(* Core 0: MCU_EncoderTrigger lets the line go and raises it again.        *)

Turn ==
  /\ pc[0] = "idle"
  /\ turns > 0
  /\ turns' = turns - 1
  /\ \E line \in Panel : Calls(0, line, FALSE)
  /\ Goto(0, "rise")
  /\ UNCHANGED <<shared, chip, credit, seen, taken>>

TurnReturns ==
  /\ pc[0] = "done"
  /\ Calls(0, call[0].line, TRUE)
  /\ Goto(0, IF call[0].on THEN "idle" ELSE "rise")
  /\ UNCHANGED <<shared, chip, credit, seen, taken, turns>>

Core0 == Turn \/ TurnReturns \/ MCU_GA_SetGAInt(0)
-----------------------------------------------------------------------------
(* Core 3: PCM_Update works on a frame under pcm_lock.  A voice raises an  *)
(* interrupt only while none is asserted.                                  *)

StartFrame ==
  /\ pc[3] = "idle"
  /\ credit
  /\ lock = {}
  /\ lock' = {3}
  /\ credit' = FALSE
  /\ Goto(3, "frame")
  /\ UNCHANGED <<shared, asserted, channel, raisedBy, call, seen, taken, turns>>

Raise(v) ==
  /\ pc[3] = "frame"
  /\ ~asserted
  /\ asserted' = TRUE
  /\ raisedBy' = v
  /\ Goto(3, "channel")
  /\ UNCHANGED <<shared, channel, lock, credit, call, seen, taken, turns>>

SetChannel ==
  /\ pc[3] = "channel"
  /\ channel' = raisedBy
  /\ Calls(3, Sound, TRUE)
  /\ Goto(3, "rise")
  /\ UNCHANGED <<shared, asserted, lock, raisedBy, credit, seen, taken, turns>>

EndFrame ==
  /\ pc[3] \in {"frame", "done"}
  /\ lock' = {}
  /\ Goto(3, "idle")
  /\ UNCHANGED <<shared, asserted, channel, raisedBy, credit, call, seen, taken, turns>>

Core3 == StartFrame \/ (\E v \in Voices : Raise(v)) \/ SetChannel \/ EndFrame \/ MCU_GA_SetGAInt(3)
-----------------------------------------------------------------------------
(* Core 2: instructions that do not touch the gate array only let cycles   *)
(* pass; the handler of IRQ0 reads 0xf402 and, for the sound chip, the     *)
(* status at 0x3e.                                                         *)

Compute ==
  /\ pc[2] = "idle"
  /\ credit' = TRUE
  /\ UNCHANGED <<shared, chip, pc, call, seen, taken, turns>>

Interrupt ==
  /\ pc[2] = "idle"
  /\ request
  /\ Goto(2, "take")
  /\ UNCHANGED <<shared, chip, credit, call, seen, taken, turns>>

ReadTrigger ==
  /\ pc[2] = "take"
  /\ got' = trigger
  /\ Goto(2, "zero")
  /\ UNCHANGED <<shared, chip, credit, call, seen, cleared, status, turns>>

ZeroTrigger ==
  /\ pc[2] = "zero"
  /\ trigger' = 0
  /\ Goto(2, "drop")
  /\ UNCHANGED <<lines, request, chip, credit, call, seen, taken, turns>>

DropRequest ==
  /\ pc[2] = "drop"
  /\ request' = FALSE
  /\ Goto(2, IF got = Sound THEN "status" ELSE "idle")
  /\ UNCHANGED <<trigger, lines, chip, credit, call, seen, taken, turns>>

\* Mutant: the status is read without the lock.
AskStatusUnlocked ==
  /\ pc[2] = "status"
  /\ asserted' = FALSE
  /\ cleared' = asserted
  /\ Calls(2, Sound, FALSE)
  /\ Goto(2, IF asserted THEN "rise" ELSE "done")
  /\ UNCHANGED <<shared, channel, lock, raisedBy, credit, seen, got, status, turns>>

\* Mutant: the line stays up.
AskStatusLeavesLine ==
  /\ pc[2] = "status"
  /\ lock = {}
  /\ lock' = {2}
  /\ asserted' = FALSE
  /\ cleared' = asserted
  /\ Goto(2, "done")
  /\ UNCHANGED <<shared, channel, raisedBy, credit, call, seen, got, status, turns>>

\* PCM_Read(0x3e) takes the interrupt back.
AskStatus ==
  /\ pc[2] = "status"
  /\ lock = {}
  /\ lock' = {2}
  /\ asserted' = FALSE
  /\ cleared' = asserted
  /\ Calls(2, Sound, FALSE)
  /\ Goto(2, IF asserted THEN "rise" ELSE "done")
  /\ UNCHANGED <<shared, channel, raisedBy, credit, seen, got, status, turns>>

ReadChannel ==
  /\ pc[2] = "done"
  /\ status' = channel
  /\ Goto(2, "release")
  /\ UNCHANGED <<shared, chip, credit, call, seen, got, cleared, turns>>

Release ==
  /\ pc[2] = "release"
  /\ lock' = {}
  /\ Goto(2, "idle")
  /\ UNCHANGED <<shared, asserted, channel, raisedBy, credit, call, seen, taken, turns>>

Core2 ==
  \/ Compute \/ Interrupt \/ ReadTrigger \/ ZeroTrigger \/ DropRequest
  \/ AskStatus \/ ReadChannel \/ Release \/ MCU_GA_SetGAInt(2)

Next == Core0 \/ Core2 \/ Core3

\* Each core goes on when it can: a turn that has begun is finished (nobody is
\* bound to begin one), and what asks core 2 for an interrupt is taken, for the
\* firmware does not mask it forever.
TurnEnds == TurnReturns \/ MCU_GA_SetGAInt(0)
Handler == Interrupt \/ ReadTrigger \/ ZeroTrigger \/ DropRequest \/ AskStatus
           \/ ReadChannel \/ Release \/ MCU_GA_SetGAInt(2)

Spec ==
  /\ Init
  /\ [][Next]_vars
  /\ WF_vars(TurnEnds) /\ WF_vars(Core3) /\ WF_vars(Handler)
-----------------------------------------------------------------------------
(* Properties.                                                             *)

TypeOK ==
  /\ trigger \in Panel \cup {0, Sound}
  /\ lines \subseteq Panel \cup {Sound}
  /\ request \in BOOLEAN
  /\ asserted \in BOOLEAN
  /\ channel \in Voices \cup {None} /\ raisedBy \in Voices \cup {None}
  /\ lock \in {{}, {2}, {3}}
  /\ credit \in BOOLEAN
  /\ pc \in [Cores -> {"idle", "rise", "line", "look", "ask", "done", "frame", "channel", "take",
                       "zero", "drop", "status", "release"}]
  /\ call \in [Cores -> [line : Panel \cup {Sound}, on : BOOLEAN]]
  /\ seen \in [Cores -> BOOLEAN]
  /\ got \in Panel \cup {0, Sound}
  /\ cleared \in BOOLEAN
  /\ status \in Voices \cup {None}
  /\ turns \in Nat

\* While nobody works on the sound chip's state, its line is up exactly when
\* its interrupt is asserted: neither a raise nor a status read is seen half
\* done, whatever the panel does to the other lines meanwhile.
LineFollowsAssertion == lock = {} => (asserted <=> Sound \in lines)

\* The status read that takes an interrupt back names the voice that raised
\* that interrupt, never the one before or after it.
AcknowledgesWhatAsserted == pc[2] = "release" /\ cleared => status = raisedBy

\* Until the encoder is first turned, every interrupt of the sound chip is
\* taken.  (A turn that falls between two statements of core 2 or core 3 can
\* replace the trigger or let the request fall, and then the chip stays
\* asserted and raises nothing any more.)
SoundAnswered == asserted /\ turns = Turns ~> ~asserted \/ turns < Turns
=============================================================================
