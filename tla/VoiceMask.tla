----------------------------- MODULE VoiceMask -----------------------------
(***************************************************************************)
(* Which voices sound: the mask between the firmware (core 2) and the      *)
(* sound loads (core 3).                                                    *)
(*                                                                         *)
(* The firmware writes a new mask byte by byte to the pending mask and     *)
(* then reads it, which makes the pending mask the mask in force.  For     *)
(* each run of frames the sound loads plays the voices that both masks      *)
(* have.  It loads them one after the other with no lock, in the order the *)
(* compiler chose; the firmware may do any number of writes in between.    *)
(* PCM_Write clears a byte of the pending mask and then sets it, in a plain *)
(* uint32_t (pcm.h:42-43) that nothing else touches in between: a build     *)
(* with -O3 (src/Makefile:23) stores it once, and so does WriteByte.  With  *)
(* two stores FramePlaysWhatWasMeant would not hold.                        *)
(***************************************************************************)
EXTENDS FiniteSets

CONSTANTS
  Slots,        \* the voices, each a bit of the mask
  Bytes         \* the voices of each byte of the mask

ASSUME BytesAssumption ==
  /\ UNION Bytes = Slots
  /\ \A B, C \in Bytes : B # C => B \cap C = {}

VARIABLES
  voice_mask, voice_mask_pending, voice_mask_updating,
  target,       \* the mask the firmware is writing, or wrote last
  todo,         \* the bytes it has still to write
  left,         \* the masks the sound loads has still to load
  playing,      \* voice_active_all: what the masks it has loaded leave
  steady,       \* history: in force and meant to play ever since its first load
  silent        \* history: not in force at any time since then

firmware == <<target, todo>>
masks == <<voice_mask, voice_mask_pending, voice_mask_updating>>
loads == <<left, playing>>
maskVars == <<masks, firmware, loads, steady, silent>>

Both == {"mask", "pending"}

MaskInit ==
  /\ voice_mask = {} /\ voice_mask_pending = {} /\ voice_mask_updating = FALSE
  /\ target = {} /\ todo = {}
  /\ left = Both /\ playing = {}
  /\ steady = {} /\ silent = Slots

\* What the firmware's step leaves of the two histories.
Remember ==
  /\ steady' = steady \cap voice_mask' \cap target'
  /\ silent' = silent \ voice_mask'
-----------------------------------------------------------------------------
(* Core 2.                                                                 *)

\* The firmware starts to write a mask when the one before is in force.
Begin(mask) ==
  /\ todo = {} /\ ~voice_mask_updating
  /\ target' = mask
  /\ todo' = Bytes
  /\ UNCHANGED <<masks, loads>>
  /\ Remember

WriteByte(B) ==
  /\ B \in todo
  /\ voice_mask_pending' = (voice_mask_pending \ B) \cup (target \cap B)
  /\ voice_mask_updating' = TRUE
  /\ todo' = todo \ {B}
  /\ UNCHANGED <<voice_mask, target, loads>>
  /\ Remember

\* The read that puts the mask in force.
Apply ==
  /\ todo = {}
  /\ voice_mask' = IF voice_mask_updating THEN voice_mask_pending ELSE voice_mask
  /\ voice_mask_updating' = FALSE
  /\ UNCHANGED <<voice_mask_pending, firmware, loads>>
  /\ Remember

MaskChanges == (\E mask \in SUBSET Slots : Begin(mask)) \/ (\E B \in Bytes : WriteByte(B)) \/ Apply
-----------------------------------------------------------------------------
(* Core 3, at the beginning of PCM_Update.                                 *)

Loaded(which) == IF which = "mask" THEN voice_mask ELSE voice_mask_pending

\* The histories begin with the first load.
Watch ==
  IF left = Both
  THEN steady' = voice_mask \cap target /\ silent' = Slots \ voice_mask
  ELSE UNCHANGED <<steady, silent>>

\* Mutant: a voice plays as soon as its bit is written.
LoadPendingAlone(which) ==
  /\ which \in left
  /\ left' = left \ {which}
  /\ playing' = IF which = "pending" THEN voice_mask_pending ELSE playing
  /\ Watch
  /\ UNCHANGED <<masks, firmware>>

Load(which) ==
  /\ which \in left
  /\ left' = left \ {which}
  /\ playing' = IF left = Both THEN Loaded(which) ELSE playing \cap Loaded(which)
  /\ Watch
  /\ UNCHANGED <<masks, firmware>>

EndUpdate ==
  /\ left = {}
  /\ left' = Both
  /\ UNCHANGED <<masks, firmware, playing, steady, silent>>

MaskLoads == (\E which \in Both : Load(which)) \/ EndUpdate

MaskNext == MaskChanges \/ MaskLoads

MaskSpec == MaskInit /\ [][MaskNext]_maskVars
-----------------------------------------------------------------------------
(* Properties.                                                             *)

MaskTypeOK ==
  /\ voice_mask \subseteq Slots /\ voice_mask_pending \subseteq Slots
  /\ voice_mask_updating \in BOOLEAN
  /\ target \subseteq Slots /\ todo \subseteq Bytes
  /\ left \subseteq Both /\ playing \subseteq Slots
  /\ steady \subseteq Slots /\ silent \subseteq Slots

\* A voice that goes on through a change of the mask is in every run of
\* frames, and none that was never in force while the loads loaded the masks
\* is in any: the change is in bytes, the read in two loads, and still no
\* frame plays a mask the firmware did not mean.
FramePlaysWhatWasMeant ==
  [][left # {} /\ left' = {} => steady \subseteq playing' /\ playing' \cap silent = {}]_maskVars

\* No voice waits forever for nothing: with nothing left to write and nothing
\* to apply, the two masks are the one the firmware meant.
MaskSettles ==
  todo = {} /\ ~voice_mask_updating => voice_mask = target /\ voice_mask_pending = target
=============================================================================
