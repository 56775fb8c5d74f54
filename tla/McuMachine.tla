----------------------------- MODULE McuMachine -----------------------------
(***************************************************************************)
(* The emulated MCU running firmware.  Core 2 repeats Round; the world     *)
(* around it turns the encoder and sends bytes to the serial port, each    *)
(* between two rounds.  (How the parts of those two operations interleave  *)
(* with a round is the subject of GateArray.)                             *)
(*                                                                         *)
(* contexts is a history variable: for every handler that runs, what it    *)
(* interrupted and the state of the registers at that time.                *)
(***************************************************************************)
EXTENDS McuOpcodes

CONSTANTS
  Images,         \* names of the firmware images
  Inputs,         \* for each image, the possible contents of the NVRAM at start
  Turns,          \* for each image, how often the encoder is turned
  Bytes,          \* for each image, the bytes that are sent
  Keys            \* for each image, the keys that are pressed, in this order

VARIABLES
  m,              \* the machine
  turns,          \* how often the encoder will still be turned
  sent,           \* how many bytes were sent
  pressed,        \* how many keys were pressed
  contexts

world == <<turns, sent, pressed>>
vars == <<m, turns, sent, pressed, contexts>>

\* startSC55 clears the registers and loads the ROMs and the NVRAM.
Loaded(image, nvram) ==
  SC55_Reset([image |-> image, r |-> [k \in 0..7 |-> 0], pc |-> 0, cp |-> 0, sr |-> 0,
              dp |-> 0, ep |-> 0, tp |-> 0, br |-> 0, sleep |-> FALSE, ex_ignore |-> FALSE,
              trapa |-> {}, mem |-> nvram, dev |-> DevicesReset(0), pcm |-> PcmReset,
              lcd |-> LcdReset])

Init ==
  /\ \E image \in Images : \E nvram \in Inputs[image] : m = Loaded(image, nvram)
  /\ turns = Turns[m.image]
  /\ sent = 0
  /\ pressed = 0
  /\ contexts = <<>>

Registers(mm) ==
  [r |-> mm.r, pc |-> mm.pc, cp |-> mm.cp, sr |-> mm.sr, dp |-> mm.dp, ep |-> mm.ep,
   tp |-> mm.tp, br |-> mm.br]

\* What the next round answers before its instruction, if anything.
Answered ==
  LET sources == Acceptable(m.dev, MaskOf(m.sr))
  IN  CASE m.ex_ignore -> {}
        [] ~m.ex_ignore /\ m.trapa \cap 0..8 # {} -> {"TRAPA"}
        [] OTHER -> IF sources = {} THEN {} ELSE {Sources[First(sources)]}

\* An instruction of value 10 ends a handler.
Returns == Answered = {} /\ ~m.sleep /\ CodeAt(m, 0) = 10

Core2 ==
  /\ m' = Round(m)
  /\ contexts' =
       CASE Returns       -> SubSeq(contexts, 1, Len(contexts) - 1)
         [] Answered # {} -> Append(contexts, [source |-> CHOOSE s \in Answered : TRUE, at |-> Registers(m)])
         [] OTHER         -> contexts
  /\ UNCHANGED world

\* The firmware has to let the line of the encoder through first.
Turn ==
  /\ turns > 0
  /\ Bit(m.dev.ga_int_enable, 3)
  /\ m' = [m EXCEPT !.dev = EncoderTrigger(@, 0)]
  /\ turns' = turns - 1
  /\ UNCHANGED <<sent, pressed, contexts>>

\* Nothing is sent before the firmware listens: such bytes are dropped.
Send ==
  /\ sent < Len(Bytes[m.image])
  /\ m.dev.midi_ready
  /\ m' = [m EXCEPT !.dev = PostUART(@, Bytes[m.image][sent + 1])]
  /\ sent' = sent + 1
  /\ UNCHANGED <<turns, pressed, contexts>>

Press ==
  /\ pressed < Len(Keys[m.image])
  /\ m' = [m EXCEPT !.dev = SendButton(@, Keys[m.image][pressed + 1], TRUE)]
  /\ pressed' = pressed + 1
  /\ UNCHANGED <<turns, sent, contexts>>

Next == Core2 \/ Turn \/ Send \/ Press

\* Core 2 never stops: infinitely many steps are its own (a round is always
\* possible, so that this is the fairness of Core2).  What the world has to
\* send it does send.
Spec ==
  /\ Init
  /\ [][Next]_vars
  /\ []<><<UNCHANGED world>>_vars
  /\ WF_vars(Turn) /\ WF_vars(Send) /\ WF_vars(Press)
-----------------------------------------------------------------------------
(* Properties.                                                             *)

\* An image ends by masking everything and going to sleep.
Halted == m.sleep /\ MaskOf(m.sr) = 7 /\ contexts = <<>> /\ m.trapa = {}

\* A handler gives back every register, flag and page it found, whatever it
\* interrupted and however deep: the context StartVector pushed comes back
\* through RTE, and what the handler saves with STM comes back with LDM.
InterruptsTransparent ==
  [][Len(contexts') < Len(contexts)
       => Registers(m') = contexts[Len(contexts)].at]_vars

\* A handler is never interrupted by what it handles itself, even when the
\* request stays up while it runs.
NoReentry ==
  \A i, j \in 1..Len(contexts) : i # j => contexts[i].source # contexts[j].source

\* Once the world is done, the image ends: no interrupt is lost between the
\* change of the mask and SLEEP, and a request that stays up does not keep
\* the interrupted program from going on.
Finishes ==
  (turns = 0 /\ sent = Len(Bytes[m.image]) /\ pressed = Len(Keys[m.image])) ~> Halted
=============================================================================
