----------------------------- MODULE AudioQueue -----------------------------
(***************************************************************************)
(* What the sample ring promises its two users: a bounded first-in         *)
(* first-out queue of samples.  The generator posts a frame of two         *)
(* samples; the audio loop takes samples one at a time and collects them   *)
(* in blocks for the sound device.  A sample is its position in the        *)
(* stream, modulo W.                                                       *)
(***************************************************************************)
EXTENDS Integers, Sequences

CONSTANTS
  W,    \* the modulus of the stream positions
  CAP   \* how many samples may wait

VARIABLES
  tail,   \* the position the next posted sample will have
  head,   \* the position of the oldest sample not yet taken
  block   \* the block being collected

queueVars == <<tail, head, block>>

Waiting == (tail - head) % W

Init ==
  /\ tail = 0
  /\ head = 0
  /\ block = <<>>

Post ==
  /\ Waiting + 2 <= CAP
  /\ tail' = (tail + 2) % W
  /\ UNCHANGED <<head, block>>

Take ==
  /\ Waiting > 0
  /\ block' = Append(block, head)
  /\ head' = (head + 1) % W
  /\ UNCHANGED tail

NewBlock ==
  /\ block' = <<>>
  /\ UNCHANGED <<tail, head>>

Next == Post \/ Take \/ NewBlock

Spec == Init /\ [][Next]_queueVars /\ WF_queueVars(Take)
=============================================================================
