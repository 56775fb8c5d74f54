---------------------------- MODULE AudioPipeline ----------------------------
(***************************************************************************)
(* The three cores around the sample ring.  Core 2 (CMiniJV880::Run) fills *)
(* blocks for the sound device and, when the ring is empty, runs a burst   *)
(* of MCU instructions, which advances mcu.cycles.  Core 3 turns the       *)
(* cycles that have passed into PCM_Update calls, which post frames into   *)
(* the ring.  Core 0 stops both, reloads the emulator and starts them      *)
(* again (switchPatchBank).                                                *)
(*                                                                         *)
(* Cycle counters are kept relative to core 3's last_generated_cycles, so  *)
(* that the model runs for ever with finitely many states.                 *)
(***************************************************************************)
EXTENDS SampleRing

CONSTANTS
  BURST,      \* MCU_INSTR_BURST
  MCUCycles,  \* n_mMCUcycles, cycles per instruction
  SampleCyc,  \* CYCLES_PER_SAMPLE of core 3 (187)
  MaxGen,     \* MAX_SAMPLES_PER_ITER (128)
  PcmCyc,     \* CYCLES_PER_SAMPLE of PCM_Update (625): two frames
  BLOCK,      \* BLOCK_SIZE of PCM_Update (32)
  MaxLead     \* bound: how far the MCU may run ahead of core 3

ASSUME PipelineAssumption ==
  /\ {BURST, MCUCycles, SampleCyc, MaxGen, PcmCyc, BLOCK, MaxLead} \subseteq Nat \ {0}
  /\ MCUCycles <= MaxLead /\ SampleCyc <= MaxLead

VARIABLES
  paused,  \* m_bAudioPaused
  mpc,     \* where core 0 is in switchPatchBank
  instr,   \* core 2's local instr
  kpc,     \* where core 3 is in its loop or in PCM_Update
  lead,    \* mcu.cycles - last_generated_cycles
  phase,   \* pcm.cycles - last_generated_cycles
  togen,   \* core 3's samples_to_gen
  gen,     \* core 3's gen: the batch PCM_Update is working on
  blk,     \* PCM_Update's samples_this_block
  toPost   \* frames of the block not yet posted

core3Vars == <<kpc, phase, togen, gen, blk, toPost>>
clockVars == <<lead, instr>>
vars == <<ringVars, paused, mpc, core3Vars, clockVars>>

LeastOf(a, b) == IF a < b THEN a ELSE b

PipeInit ==
  /\ RingInit
  /\ paused = FALSE
  /\ mpc = "Run"
  /\ instr = 0
  /\ kpc = "Loop"
  /\ lead = 0
  /\ phase = 0
  /\ togen = 0
  /\ gen = 0
  /\ blk = 0
  /\ toPost = 0
-----------------------------------------------------------------------------
(* Core 2.                                                                 *)

\* The sound device has room for at least half its queue, and audio runs.
Core2Begin ==
  /\ ~paused
  /\ BeginBlock
  /\ UNCHANGED <<paused, mpc, core3Vars, clockVars>>

Core2Copy ==
  /\ LoadWrite \/ LoadRead \/ CopySample \/ StoreRead \/ Output
  /\ UNCHANGED <<paused, mpc, core3Vars, clockVars>>

\* Mutant: the burst does not look at the pause flag.
McuInstructionUnchecked ==
  /\ cpc = "Burst"
  /\ instr < BURST
  /\ lead + MCUCycles <= MaxLead
  /\ lead' = lead + MCUCycles
  /\ instr' = instr + 1
  /\ UNCHANGED <<ringVars, paused, mpc, core3Vars>>

McuInstruction ==
  /\ cpc = "Burst"
  /\ ~paused
  /\ instr < BURST
  /\ lead + MCUCycles <= MaxLead
  /\ lead' = lead + MCUCycles
  /\ instr' = instr + 1
  /\ UNCHANGED <<ringVars, paused, mpc, core3Vars>>

\* The burst is over, or was cut short because audio has been paused.
\* (At the bound of the lead it also ends early.)
EndBurst ==
  /\ paused \/ instr = BURST \/ lead + MCUCycles > MaxLead
  /\ RetryFill
  /\ instr' = 0
  /\ UNCHANGED <<paused, mpc, core3Vars, lead>>

Core2 == Core2Begin \/ Core2Copy \/ McuInstruction \/ EndBurst
-----------------------------------------------------------------------------
(* Core 3.                                                                 *)

\* The pause flag and mcu.cycles are two loads.
CheckPause ==
  /\ kpc = "Loop"
  /\ kpc' = IF paused THEN "Resync" ELSE "Measure"
  /\ UNCHANGED <<ringVars, paused, mpc, clockVars, phase, togen, gen, blk, toPost>>

\* Mutant: last_generated_cycles is left alone while paused.
ResyncNothing ==
  /\ kpc = "Resync"
  /\ kpc' = "Loop"
  /\ UNCHANGED <<ringVars, paused, mpc, instr, lead, phase, togen, gen, blk, toPost>>

\* While paused, last_generated_cycles follows mcu.cycles.
Resync ==
  /\ kpc = "Resync"
  /\ lead' = 0
  /\ phase' = phase - lead
  /\ kpc' = "Loop"
  /\ UNCHANGED <<ringVars, paused, mpc, instr, togen, gen, blk, toPost>>

Measure ==
  /\ kpc = "Measure"
  /\ IF lead >= SampleCyc
     THEN togen' = lead \div SampleCyc /\ kpc' = "Batch"
     ELSE kpc' = "Loop" /\ UNCHANGED togen
  /\ UNCHANGED <<ringVars, paused, mpc, clockVars, phase, gen, blk, toPost>>

StartBatch ==
  /\ kpc = "Batch"
  /\ gen' = LeastOf(togen, MaxGen)
  /\ kpc' = IF togen > 0 THEN "Update" ELSE "Loop"
  /\ UNCHANGED <<ringVars, paused, mpc, clockVars, phase, togen, blk, toPost>>

\* Mutant: the number of samples in a block is rounded up.
StartBlockRoundedUp ==
  /\ kpc = "Update"
  /\ phase < gen * SampleCyc
  /\ LET fit == 1 + (gen * SampleCyc - phase) \div PcmCyc
     IN  blk' = LeastOf(fit, BLOCK) /\ toPost' = 2 * LeastOf(fit, BLOCK)
  /\ kpc' = "Post"
  /\ UNCHANGED <<ringVars, paused, mpc, clockVars, phase, togen, gen>>

\* PCM_Update: choose how many PCM samples the next block generates.
StartBlock ==
  /\ kpc = "Update"
  /\ phase < gen * SampleCyc
  /\ LET fit == (gen * SampleCyc - phase) \div PcmCyc
         k   == IF fit <= 0 THEN 1 ELSE LeastOf(fit, BLOCK)
     IN  blk' = k /\ toPost' = 2 * k
  /\ kpc' = "Post"
  /\ UNCHANGED <<ringVars, paused, mpc, clockVars, phase, togen, gen>>

PostFrame ==
  /\ kpc = "Post"
  /\ toPost > 0
  /\ PostLeft
  /\ toPost' = toPost - 1
  /\ UNCHANGED <<paused, mpc, clockVars, kpc, phase, togen, gen, blk>>

FinishFrame ==
  /\ Posting
  /\ UNCHANGED <<paused, mpc, clockVars, core3Vars>>

EndBlock ==
  /\ kpc = "Post"
  /\ toPost = 0
  /\ ppc = "Idle"
  /\ phase' = phase + blk * PcmCyc
  /\ kpc' = "Update"
  /\ UNCHANGED <<ringVars, paused, mpc, clockVars, togen, gen, blk, toPost>>

\* Mutant: last_generated_cycles does not move to the target.
EndBatchNoAdvance ==
  /\ kpc = "Update"
  /\ phase >= gen * SampleCyc
  /\ togen' = togen - gen
  /\ kpc' = "Batch"
  /\ UNCHANGED <<ringVars, paused, mpc, instr, lead, phase, gen, blk, toPost>>

\* PCM_Update returns; last_generated_cycles moves to the target.
EndBatch ==
  /\ kpc = "Update"
  /\ phase >= gen * SampleCyc
  /\ lead' = lead - gen * SampleCyc
  /\ phase' = phase - gen * SampleCyc
  /\ togen' = togen - gen
  /\ kpc' = "Batch"
  /\ UNCHANGED <<ringVars, paused, mpc, instr, gen, blk, toPost>>

Core3 ==
  \/ CheckPause \/ Resync \/ Measure \/ StartBatch \/ StartBlock
  \/ PostFrame \/ FinishFrame \/ EndBlock \/ EndBatch
-----------------------------------------------------------------------------
(* Core 0: switchPatchBank, from the pause on.  Its delays (300, 300 and   *)
(* 50 ms) are taken to outlast whatever finite work the other cores have   *)
(* in hand: when a delay ends, each of them has nothing left to do but     *)
(* look at the pause flag or at an empty ring.                             *)

Core2Settled ==
  \/ cpc = "Top"
  \/ widx = ridx /\ (cpc \in {"LoadWrite", "Burst"} \/ (cpc = "LoadRead" /\ w = widx))

Core3Settled == kpc \in {"Loop", "Resync"} /\ lead = 0

Settled == Core2Settled /\ Core3Settled

Pause ==
  /\ mpc = "Run"
  /\ paused' = TRUE
  /\ mpc' = "Stopping"
  /\ UNCHANGED <<ringVars, core3Vars, clockVars>>

Stopped ==
  /\ mpc = "Stopping"
  /\ Settled
  /\ mpc' = "Reload"
  /\ UNCHANGED <<ringVars, paused, core3Vars, clockVars>>

\* Mutant: SC55_Reset leaves sample_write_idx to the zeroing that follows.
ResetKeepsWriteIdx ==
  /\ mpc = "Reload"
  /\ lead' = -1
  /\ phase' = -1
  /\ mpc' = "Draining"
  /\ UNCHANGED <<widx, ridx, buf, producerVars, consumerVars, paused, instr, kpc, togen, gen, blk, toPost>>

\* SC55_Reset sets mcu.cycles, pcm.cycles and sample_write_idx to 0; core 3
\* still holds the old last_generated_cycles (any value above 0).
Reset ==
  /\ mpc = "Reload"
  /\ widx' = 0
  /\ lead' = -1
  /\ phase' = -1
  /\ mpc' = "Draining"
  /\ UNCHANGED <<ridx, buf, producerVars, consumerVars, paused, instr, kpc, togen, gen, blk, toPost>>

ZeroWriteIdx ==
  /\ mpc = "Draining"
  /\ Settled
  /\ widx' = 0
  /\ mpc' = "ZeroRead"
  /\ UNCHANGED <<ridx, buf, producerVars, consumerVars, paused, core3Vars, clockVars>>

ZeroReadIdx ==
  /\ mpc = "ZeroRead"
  /\ ridx' = 0
  /\ mpc' = "Settling"
  /\ UNCHANGED <<widx, buf, producerVars, consumerVars, paused, core3Vars, clockVars>>

Resume ==
  /\ mpc = "Settling"
  /\ Settled
  /\ paused' = FALSE
  /\ mpc' = "Run"
  /\ UNCHANGED <<ringVars, core3Vars, clockVars>>

Core0Switching == Stopped \/ Reset \/ ZeroWriteIdx \/ ZeroReadIdx \/ Resume

Next == Core2 \/ Core3 \/ Pause \/ Core0Switching

(* Cores 2 and 3 run nothing but these loops; core 0 finishes a switch it  *)
(* has begun but need not begin one.                                       *)
Fairness ==
  /\ WF_vars(Core2)
  /\ WF_vars(Core3)
  /\ WF_vars(Core0Switching)

Spec == PipeInit /\ [][Next]_vars

LiveSpec == Spec /\ Fairness
-----------------------------------------------------------------------------
CountersOK ==
  /\ mpc \in {"Run", "Stopping", "Reload", "Draining", "ZeroRead", "Settling"}
  /\ instr \in 0 .. BURST
  /\ kpc \in {"Loop", "Resync", "Measure", "Batch", "Update", "Post"}
  /\ lead \in -1 .. MaxLead
  /\ phase \in Int
  /\ togen \in 0 .. MaxLead
  /\ gen \in 0 .. MaxGen
  /\ blk \in 0 .. BLOCK
  /\ toPost \in 0 .. 2 * BLOCK

(* Types and ranges of the pipeline's own variables.                       *)
PipeTypeOK == TypeOK /\ paused \in BOOLEAN /\ CountersOK

AfterStop == {"Reload", "Draining", "ZeroRead", "Settling"}

(* A switch ends with an empty ring: whatever core 2 was doing with it, no *)
(* late store of the read index survives the zeroing of the two indices    *)
(* (minijv880.cpp:956-958 against :577-596 and SC55_Reset).                *)
ResumesEmpty == mpc = "Settling" => widx = 0 /\ ridx = 0

(* While core 0 reloads the emulator, core 2 executes no MCU instruction   *)
(* and core 3 writes no sample.                                            *)
ReloadUndisturbed ==
  [][(mpc \in AfterStop) => (buf' = buf /\ (lead' > lead => lead' = 0))]_vars

(* The PCM chip's clock is never more than one sample ahead of the MCU's:  *)
(* neither batches, nor blocks, nor a reset, nor a resumption moves it     *)
(* further (a chip far ahead would be silent until the MCU caught up).     *)
PcmNotAhead == phase - lead < PcmCyc

(* What these rest on: a paused core 3 is outside a batch once core 0 has  *)
(* gone on, and posts only from within a block; a batch is paid for by     *)
(* cycles the MCU has run; a ring that has been emptied stays empty while  *)
(* core 2 spins on it.                                                     *)
PauseFollowsSwitch == paused <=> mpc # "Run"

Core3Outside ==
  /\ mpc \in AfterStop => kpc \in {"Loop", "Resync"}
  /\ kpc # "Post" => ppc = "Idle"

BatchCovered ==
  /\ kpc \in {"Measure", "Batch", "Update", "Post"} => mpc \in {"Run", "Stopping"}
  /\ kpc \in {"Batch", "Update", "Post"} => togen * SampleCyc <= lead
  /\ kpc \in {"Update", "Post"} => gen <= togen
  /\ kpc = "Post" => phase + blk * PcmCyc < lead + PcmCyc

SpinsOnEmpty ==
  /\ mpc \in {"Draining", "ZeroRead", "Settling"} => widx = 0
  /\ mpc \in {"ZeroRead", "Settling"} => Core2Settled
  /\ mpc = "Settling" => ridx = 0

PipeInv ==
  /\ RingInv
  /\ PipeTypeOK
  /\ PauseFollowsSwitch
  /\ Core3Outside
  /\ BatchCovered
  /\ SpinsOnEmpty
  /\ PcmNotAhead

-----------------------------------------------------------------------------
(* If banks are switched finitely often, the sound device is fed for ever: *)
(* the MCU's cycles keep core 3 posting, and core 3's frames let core 2    *)
(* out of every fill.                                                      *)
AudioKeepsFlowing == <>[](mpc = "Run") => []<>(cpc = "Output")

(* Every pause ends: the other cores reach the state core 0 waits for.     *)
PauseEnds == paused ~> ~paused
=============================================================================
