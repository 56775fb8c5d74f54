--------------------------- MODULE SampleRingFifo ---------------------------
(***************************************************************************)
(* SampleRing as long as core 2 keeps up, with a history variable to say   *)
(* what the audio loop hands out.                                          *)
(***************************************************************************)
EXTENDS SampleRing

VARIABLE played  \* the index the next sample handed out should have

fifoVars == <<ringVars, played>>

FifoInit == RingInit /\ played = 0

(* The regime in which core 2 keeps up: a post starts only with room for a *)
(* frame.  The code does not wait for room; this is what the emulator's    *)
(* self-clocking is meant to bring about, and what holds until the first   *)
(* overrun.                                                                *)
KeepUpPost ==
  /\ Dist(Plus(widx, 2), ridx) <= SIZE
  /\ PostLeft
  /\ UNCHANGED played

FifoPosting == Posting /\ UNCHANGED played

FifoCopy == CopySample /\ played' = Plus(played, 1)

FifoConsume == Consuming /\ UNCHANGED played

KeepUpNext == KeepUpPost \/ FifoPosting \/ FifoCopy \/ FifoConsume

KeepUpSpec ==
  /\ FifoInit
  /\ [][KeepUpNext]_fifoVars
  /\ WF_fifoVars(KeepUpPost)
  /\ WF_fifoVars(FifoPosting)
  /\ WF_fifoVars(FifoCopy)
  /\ WF_fifoVars(FifoConsume)
-----------------------------------------------------------------------------
(* The invariant behind the refinement.  What is stored fits the ring with *)
(* room for the frame that is being posted; nothing is ever dropped.       *)
Copying == cpc \in {"Copy", "StoreRead"}
Stored == Dist(widx, ridx)

RoomKept ==
  /\ Stored <= SIZE
  /\ ppc # "Idle" => cur = widx /\ Stored + 2 <= SIZE
  /\ ppc # "Drop"

(* Core 2's local indices lie between the read and the write index, and it *)
(* does not mean to copy more than is stored.                              *)
ReaderBehind ==
  /\ Copying => Dist(r, ridx) + left <= Stored
  /\ cpc = "LoadRead" => Dist(w, ridx) <= Stored

(* The next sample to hand out is the one its read position names.         *)
HandsOutNext == played = IF Copying THEN r ELSE ridx

(* Every stored sample is still in its slot, and so is what core 3 has     *)
(* written of the frame it will publish.                                   *)
Contents ==
  \A k \in 0 .. SIZE - 1 : k < Stored => buf[Slot(Plus(ridx, k))] = Plus(ridx, k)

HalfPosted ==
  /\ ppc # "Idle" => buf[Slot(widx)] = widx
  /\ ppc \in {"Check", "Publish"} => buf[Slot(Plus(widx, 1))] = Plus(widx, 1)

FifoInv ==
  /\ RingInv
  /\ RoomKept
  /\ ReaderBehind
  /\ HandsOutNext
  /\ Contents
  /\ HalfPosted
-----------------------------------------------------------------------------
(* While core 2 keeps up, the ring is a bounded first-in first-out queue:  *)
(* every step of MCU_PostSample and of the copy is a step of AudioQueue or *)
(* leaves it alone, and every posted sample is handed out in the end.      *)
Queue == INSTANCE AudioQueue
           WITH CAP <- SIZE, tail <- widx, head <- played, block <- out
QueueSpec == Queue!Spec

=============================================================================
