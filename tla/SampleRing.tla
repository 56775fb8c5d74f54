----------------------------- MODULE SampleRing -----------------------------
(***************************************************************************)
(* The ring of stereo samples between core 3 (the PCM generator, which     *)
(* posts frames in MCU_PostSample) and core 2 (the audio loop of           *)
(* CMiniJV880::Run, which copies blocks out of it).  There is no lock: the *)
(* two sides share sample_write_idx, sample_read_idx and sample_buffer,    *)
(* and each load and store below is a step of its own.                     *)
(*                                                                         *)
(* A sample is abstracted to its stamp, the value of the write index under *)
(* which it was posted.  Left samples have even stamps, right samples odd  *)
(* ones.  Indices are 64-bit unsigned integers: arithmetic modulo W.       *)
(***************************************************************************)
EXTENDS Integers, Sequences

CONSTANTS
  SIZE,        \* AUDIO_BUFFER_SIZE, in samples (two per frame)
  W,           \* the modulus of the index arithmetic (2^64 in the code)
  BlockSizes,  \* the values nSamples takes
  MaxAhead     \* bound: how far the producer may run ahead of any index
               \* the consumer has stored or holds

ASSUME SizeAssumption == SIZE \in Nat /\ SIZE > 0 /\ SIZE % 2 = 0
ASSUME WidthAssumption == W \in Nat /\ W > SIZE + 2 /\ W % 2 = 0
ASSUME LapAssumption == W % SIZE = 0
\* nSamples is twice a number of frames, cut to AUDIO_BUFFER_SIZE - 2.
ASSUME BlockAssumption ==
  \A m \in BlockSizes : m \in Nat /\ 0 < m /\ m <= SIZE - 2 /\ m % 2 = 0
ASSUME AheadAssumption == MaxAhead \in Nat /\ SIZE <= MaxAhead /\ 2 * MaxAhead <= W

VARIABLES
  widx,    \* sample_write_idx
  ridx,    \* sample_read_idx
  buf,     \* sample_buffer: the stamp in each slot
  ppc,     \* where core 3 is in MCU_PostSample
  cur,     \* its local cur
  cpc,     \* where core 2 is in its audio loop
  n,       \* its local nSamples
  w, r,    \* its local copies of the two indices
  left,    \* samples still to copy of to_copy
  out      \* out_buf[0 .. out_pos-1]

producerVars == <<ppc, cur>>
consumerVars == <<cpc, n, w, r, left, out>>
ringVars == <<widx, ridx, buf, ppc, cur, cpc, n, w, r, left, out>>

Index == 0 .. W - 1
Slot(i) == i % SIZE
Plus(i, k) == (i + k) % W
Dist(i, j) == (i - j) % W          \* unsigned i - j

FillStates == {"LoadWrite", "LoadRead", "Copy", "StoreRead", "Burst"}
-----------------------------------------------------------------------------
(* The slots are zeroed at start: a silent sample has the stamp of the lap *)
(* before the first.                                                       *)
RingInit ==
  /\ widx = 0
  /\ ridx = 0
  /\ buf = [s \in 0 .. SIZE - 1 |-> W - SIZE + s]
  /\ ppc = "Idle"
  /\ cur = 0
  /\ cpc = "Top"
  /\ n = 0
  /\ w = 0
  /\ r = 0
  /\ left = 0
  /\ out = <<>>
-----------------------------------------------------------------------------
(* Core 3: MCU_PostSample.                                                 *)

Bounded == Dist(widx, ridx) < MaxAhead /\ Dist(widx, r) < MaxAhead

PostLeft ==
  /\ ppc = "Idle"
  /\ cur' = widx
  /\ buf' = [buf EXCEPT ![Slot(widx)] = widx]
  /\ ppc' = "Right"
  /\ UNCHANGED <<widx, ridx, consumerVars>>

PostRight ==
  /\ ppc = "Right"
  /\ buf' = [buf EXCEPT ![Slot(Plus(cur, 1))] = Plus(cur, 1)]
  /\ ppc' = "Check"
  /\ UNCHANGED <<widx, ridx, cur, consumerVars>>

\* Mutant: a ring that is exactly full counts as an overflow.
CheckOverflowEarly ==
  /\ ppc = "Check"
  /\ ppc' = IF Dist(Plus(cur, 2), ridx) >= SIZE THEN "Drop" ELSE "Publish"
  /\ UNCHANGED <<widx, ridx, buf, cur, consumerVars>>

\* "protect against overflow": only now is the read index looked at.
CheckOverflow ==
  /\ ppc = "Check"
  /\ ppc' = IF Dist(Plus(cur, 2), ridx) > SIZE THEN "Drop" ELSE "Publish"
  /\ UNCHANGED <<widx, ridx, buf, cur, consumerVars>>

\* Mutant: room is made for one sample, not for a frame.
DropOneSample ==
  /\ ppc = "Drop"
  /\ ridx' = Dist(Plus(cur, 1), SIZE)
  /\ ppc' = "Publish"
  /\ UNCHANGED <<widx, buf, cur, consumerVars>>

DropOldest ==
  /\ ppc = "Drop"
  /\ ridx' = Dist(Plus(cur, 2), SIZE)
  /\ ppc' = "Publish"
  /\ UNCHANGED <<widx, buf, cur, consumerVars>>

Publish ==
  /\ ppc = "Publish"
  /\ widx' = Plus(cur, 2)
  /\ ppc' = "Idle"
  /\ UNCHANGED <<ridx, buf, cur, consumerVars>>

\* MCU_PostSample once it has begun.
Posting == PostRight \/ CheckOverflow \/ DropOldest \/ Publish
-----------------------------------------------------------------------------
(* Core 2: fill a block of n samples, hand it to the sound device.         *)

BeginBlock ==
  /\ cpc = "Top"
  /\ n' \in BlockSizes
  /\ out' = <<>>
  /\ cpc' = "LoadWrite"
  /\ UNCHANGED <<widx, ridx, buf, w, r, left, producerVars>>

LoadWrite ==
  /\ cpc = "LoadWrite"
  /\ w' = widx
  /\ cpc' = "LoadRead"
  /\ UNCHANGED <<widx, ridx, buf, n, r, left, out, producerVars>>

\* Mutant: out_pos is forgotten in need.
LoadReadWholeBlock ==
  /\ cpc = "LoadRead"
  /\ r' = ridx
  /\ left' = IF Dist(w, ridx) < n THEN Dist(w, ridx) ELSE n
  /\ cpc' = IF Dist(w, ridx) > 0 THEN "Copy" ELSE "Burst"
  /\ UNCHANGED <<widx, ridx, buf, n, w, out, producerVars>>

\* An avail of zero leads to a burst of MCU instructions.
LoadRead ==
  /\ cpc = "LoadRead"
  /\ r' = ridx
  /\ LET avail == Dist(w, ridx)
         need  == n - Len(out)
     IN  /\ left' = IF avail < need THEN avail ELSE need
         /\ cpc' = IF avail > 0 THEN "Copy" ELSE "Burst"
  /\ UNCHANGED <<widx, ridx, buf, n, w, out, producerVars>>

\* One sample of the two memcpy calls, the second of which starts at slot 0.
CopySample ==
  /\ cpc = "Copy"
  /\ out' = Append(out, buf[Slot(r)])
  /\ r' = Plus(r, 1)
  /\ left' = left - 1
  /\ cpc' = IF left = 1 THEN "StoreRead" ELSE "Copy"
  /\ UNCHANGED <<widx, ridx, buf, n, w, producerVars>>

StoreRead ==
  /\ cpc = "StoreRead"
  /\ ridx' = r
  /\ cpc' = IF Len(out) < n THEN "LoadWrite" ELSE "Output"
  /\ UNCHANGED <<widx, buf, n, w, r, left, out, producerVars>>

\* The ring is empty and the MCU burst is over.
RetryFill ==
  /\ cpc = "Burst"
  /\ cpc' = "LoadWrite"
  /\ UNCHANGED <<widx, ridx, buf, n, w, r, left, out, producerVars>>

Output ==
  /\ cpc = "Output"
  /\ cpc' = "Top"
  /\ UNCHANGED <<widx, ridx, buf, n, w, r, left, out, producerVars>>

\* Core 2, but for the copy itself.
Consuming == BeginBlock \/ LoadWrite \/ LoadRead \/ StoreRead \/ RetryFill \/ Output
-----------------------------------------------------------------------------
RingNext == (Bounded /\ PostLeft) \/ Posting \/ CopySample \/ Consuming

RingSpec == RingInit /\ [][RingNext]_ringVars
-----------------------------------------------------------------------------
(* Types, and the values the indices have at each place of the program.    *)
TypeOK ==
  /\ widx \in Index
  /\ ridx \in Index
  /\ buf \in [0 .. SIZE - 1 -> Index]
  /\ ppc \in {"Idle", "Right", "Check", "Drop", "Publish"}
  /\ cur \in Index
  /\ cpc \in FillStates \cup {"Top", "Output"}
  /\ n \in BlockSizes \cup {0}
  /\ w \in Index
  /\ r \in Index
  /\ left \in 0 .. SIZE
  /\ out \in Seq(Index)

(* Stereo alignment: every even position of the block handed to the sound  *)
(* device holds a left sample and every odd one a right sample, whatever   *)
(* overruns, stores that move the read index back, or copies of slots that *)
(* are being written have happened (the copy of minijv880.cpp:580-595      *)
(* against MCU_PostSample).                                                *)
ChannelAligned == \A k \in 1 .. Len(out) : out[k] % 2 = (k + 1) % 2

(* The copy never writes past the block that was allocated for nSamples,   *)
(* even when avail is an unsigned underflow (minijv880.cpp:581-594).       *)
BlockNotOverrun == cpc = "Copy" => left > 0 /\ Len(out) + left <= n

(* The invariant the two above rest on: all indices are even except while  *)
(* core 2 is copying, when what is left to copy makes up for it; every     *)
(* slot holds a sample of its own channel.                                 *)
IndicesEven == widx % 2 = 0 /\ ridx % 2 = 0 /\ cur % 2 = 0 /\ w % 2 = 0

BlockParity ==
  /\ cpc = "Copy" => (r + left) % 2 = 0 /\ (Len(out) + left) % 2 = 0
  /\ cpc = "StoreRead" => r % 2 = 0
  /\ cpc \in FillStates \ {"Copy"} => Len(out) % 2 = 0

BlockSize ==
  /\ cpc \in FillStates => n \in BlockSizes
  /\ cpc \in {"LoadWrite", "LoadRead", "Burst"} => Len(out) < n

SlotParity == \A s \in 0 .. SIZE - 1 : buf[s] % 2 = s % 2

RingInv ==
  /\ TypeOK
  /\ IndicesEven
  /\ BlockParity
  /\ BlockSize
  /\ SlotParity
  /\ ChannelAligned
  /\ BlockNotOverrun

=============================================================================
