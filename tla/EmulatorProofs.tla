--------------------------- MODULE EmulatorProofs ---------------------------
(***************************************************************************)
(* The emulator: what holds of its three cores' shared state for any       *)
(* number of voices and of turns and any layout of the voice mask, and of  *)
(* the MCU's arithmetic and stack for all operands and all states.         *)
(***************************************************************************)
EXTENDS GateArray, VoiceMask, McuOpcodes, WellFoundedInduction, TLAPS

-----------------------------------------------------------------------------
(* The gate array: the sound chip's line follows its interrupt, and the    *)
(* status names the voice that raised it.                                  *)

\* The statements of MCU_GA_SetGAInt.
InCall == {"rise", "line", "look", "ask", "done"}

(* Who holds the lock is in the part of the code that takes it, and what   *)
(* the cores hand to MCU_GA_SetGAInt is their own line.                    *)
Places ==
    /\ pc \in [Cores -> InCall \cup {"idle", "frame", "channel", "take", "zero",
                                     "drop", "status", "release"}]
    /\ pc[0] \in InCall \cup {"idle"}
    /\ pc[2] \in InCall \cup {"idle", "take", "zero", "drop", "status", "release"}
    /\ pc[3] \in InCall \cup {"idle", "frame", "channel"}
    /\ lock = {3} <=> pc[3] # "idle"
    /\ lock = {2} <=> pc[2] \in InCall \cup {"release"}
    /\ lock \in {{}, {2}, {3}}

\* The lines the cores hand over.
Calling ==
    /\ call \in [Cores -> [line : Panel \cup {Sound}, on : BOOLEAN]]
    /\ pc[0] # "idle" => call[0].line \in Panel
    /\ pc[2] \in InCall => call[2] = [line |-> Sound, on |-> FALSE]
    /\ pc[3] \in InCall => call[3] = [line |-> Sound, on |-> TRUE]

(* The line and the interrupt, through the raise and the status read.      *)
LineFits ==
    /\ asserted \in BOOLEAN
    /\ lock = {} => (asserted <=> Sound \in lines)
    /\ pc[3] \in {"frame", "look", "ask", "done"} => (asserted <=> Sound \in lines)
    /\ pc[3] \in {"channel", "rise", "line"} => asserted /\ Sound \notin lines
    /\ pc[2] \in InCall \cup {"release"} => ~asserted
    /\ pc[2] \in {"look", "ask", "done", "release"} => Sound \notin lines

\* The voice the status will name.
ChannelFits ==
    /\ cleared \in BOOLEAN
    /\ asserted /\ pc[3] # "channel" => channel = raisedBy
    /\ pc[2] \in InCall /\ cleared => channel = raisedBy
    /\ pc[2] = "release" /\ cleared => status = raisedBy

\* The inductive invariant of the gate array.
GateInv == Places /\ Calling /\ LineFits /\ ChannelFits

\* The three cores start outside of their calls, with no line up.
LEMMA GateInit == Init => GateInv
<1> SUFFICES ASSUME Init PROVE GateInv
  OBVIOUS
<1> USE DEF Init, InCall, Cores, Panel, Sound, Clockwise, Counter
<1>1. Places
  BY DEF Places
<1>2. Calling
  BY DEF Calling
<1>3. LineFits /\ ChannelFits
  BY DEF LineFits, ChannelFits
<1> QED BY <1>1, <1>2, <1>3 DEF GateInv

(* The statements of MCU_GA_SetGAInt, by any of the cores. *)
LEMMA CallStep ==
    ASSUME GateInv, NEW c \in Cores, MCU_GA_SetGAInt(c)
    PROVE  GateInv'
<1> USE DEF GateInv, InCall, Cores, Panel, Sound, Clockwise, Counter
<1>1. CASE Rise(c) \/ Look(c) \/ Ask(c)
  <2>1. /\ UNCHANGED <<lines, chip, call, taken>>
        /\ \/ pc[c] = "rise" /\ Goto(c, "line")
           \/ pc[c] = "look" /\ Goto(c, "ask")
           \/ pc[c] = "ask" /\ Goto(c, "done")
    BY <1>1 DEF Rise, Look, Ask, shared, taken
  <2>2. Places'
    BY <2>1 DEF Places, Goto, chip
  <2>3. Calling'
    BY <2>1 DEF Calling, Places, Goto
  <2>4. LineFits'
    BY <2>1 DEF LineFits, Places, Goto, chip, Calling
  <2>5. ChannelFits'
    BY <2>1 DEF ChannelFits, Places, Goto, chip, taken
  <2> QED BY <2>2, <2>3, <2>4, <2>5
<1>2. CASE SetLine(c)
  <2>1. /\ UNCHANGED <<chip, call, taken>>
        /\ pc[c] = "line" /\ Goto(c, "look")
        /\ lines' = IF call[c].on THEN lines \cup {call[c].line} ELSE lines \ {call[c].line}
    BY <1>2 DEF SetLine, chip, taken
  <2>2. Places'
    BY <2>1 DEF Places, Goto, chip
  <2>3. Calling'
    BY <2>1 DEF Calling, Places, Goto
  <2>4. LineFits'
    <3>1. CASE c = 0
      <4>1. Sound \in lines' <=> Sound \in lines
        BY <2>1, <3>1 DEF Calling
      <4> QED BY <2>1, <3>1, <4>1 DEF LineFits, Places, Goto, chip
    <3>2. CASE c = 2
      <4>1. Sound \notin lines'
        BY <2>1, <3>2 DEF Calling
      <4> QED BY <2>1, <3>2, <4>1 DEF LineFits, Places, Goto, chip
    <3>3. CASE c = 3
      <4>1. Sound \in lines'
        BY <2>1, <3>3 DEF Calling
      <4> QED BY <2>1, <3>3, <4>1 DEF LineFits, Places, Goto, chip
    <3> QED BY <3>1, <3>2, <3>3
  <2>5. ChannelFits'
    BY <2>1 DEF ChannelFits, Places, Goto, chip, taken
  <2> QED BY <2>2, <2>3, <2>4, <2>5
<1> QED BY <1>1, <1>2 DEF MCU_GA_SetGAInt

(* Core 0 does not touch the sound chip's line. *)
LEMMA Core0Step == GateInv /\ (Turn \/ TurnReturns) => GateInv'
<1> SUFFICES ASSUME GateInv, Turn \/ TurnReturns PROVE GateInv'
  OBVIOUS
<1> USE DEF GateInv, InCall, Cores, Panel, Sound, Clockwise, Counter
<1>1. PICK line \in Panel, on \in BOOLEAN, place \in {"idle", "rise"} :
         /\ Calls(0, line, on) /\ Goto(0, place)
         /\ pc[0] \in {"idle", "done"}
         /\ UNCHANGED <<shared, chip, taken>>
  BY DEF Turn, TurnReturns, Calling, Places, shared, chip, taken
<1>2. Places'
  BY <1>1 DEF Places, Goto, chip
<1>3. Calling'
  BY <1>1 DEF Calling, Places, Goto, Calls
<1>4. LineFits' /\ ChannelFits'
  BY <1>1 DEF LineFits, ChannelFits, Places, Goto, chip, shared, taken
<1> QED BY <1>2, <1>3, <1>4

(* Core 3 raises under the lock. *)
LEMMA Core3Step ==
    ASSUME GateInv, StartFrame \/ (\E v \in Voices : Raise(v)) \/ SetChannel \/ EndFrame
    PROVE  GateInv'
<1> USE DEF GateInv, InCall, Cores, Panel, Sound, Clockwise, Counter
<1>1. CASE StartFrame
  BY <1>1 DEF StartFrame, Places, Calling, LineFits, ChannelFits, Goto, shared, taken
<1>2. ASSUME NEW v \in Voices, Raise(v) PROVE GateInv'
  BY <1>2 DEF Raise, Places, Calling, LineFits, ChannelFits, Goto, shared, taken
<1>3. CASE SetChannel
  <2>1. Places'
    BY <1>3 DEF SetChannel, Places, Goto
  <2>2. Calling'
    BY <1>3 DEF SetChannel, Places, Calling, Goto, Calls
  <2>3. LineFits' /\ ChannelFits'
    BY <1>3 DEF SetChannel, Places, LineFits, ChannelFits, Goto, shared, taken
  <2> QED BY <2>1, <2>2, <2>3
<1>4. CASE EndFrame
  BY <1>4 DEF EndFrame, Places, Calling, LineFits, ChannelFits, Goto, shared, taken
<1> QED BY <1>1, <1>2, <1>3, <1>4

(* Core 2 takes the interrupt back under the lock. *)
LEMMA Core2Step ==
    ASSUME GateInv,
           \/ Compute \/ Interrupt \/ ReadTrigger \/ ZeroTrigger \/ DropRequest
           \/ AskStatus \/ ReadChannel \/ Release
    PROVE  GateInv'
<1> USE DEF GateInv, InCall, Cores, Panel, Sound, Clockwise, Counter
<1>1. CASE Compute
  BY <1>1 DEF Compute, Places, Calling, LineFits, ChannelFits, shared, chip, taken
<1>2. CASE Interrupt
  BY <1>2 DEF Interrupt, Places, Calling, LineFits, ChannelFits, Goto, shared, chip, taken
<1>3. CASE ReadTrigger
  BY <1>3 DEF ReadTrigger, Places, Calling, LineFits, ChannelFits, Goto, shared, chip
<1>4. CASE ZeroTrigger
  BY <1>4 DEF ZeroTrigger, Places, Calling, LineFits, ChannelFits, Goto, chip, taken
<1>5. CASE DropRequest
  BY <1>5 DEF DropRequest, Places, Calling, LineFits, ChannelFits, Goto, chip, taken
<1>6. CASE AskStatus
  <2>1. Places'
    BY <1>6 DEF AskStatus, Places, Goto
  <2>2. Calling'
    BY <1>6 DEF AskStatus, Places, Calling, Goto, Calls
  <2>3. LineFits'
    BY <1>6 DEF AskStatus, Places, LineFits, Goto, shared
  <2>4. ChannelFits'
    <3>1. cleared' \in BOOLEAN
      BY <1>6 DEF AskStatus, LineFits
    <3>2. cleared' => channel' = raisedBy'
      BY <1>6 DEF AskStatus, Places, ChannelFits
    <3>3. ~asserted' /\ pc'[2] # "release"
      BY <1>6 DEF AskStatus, Places, Goto
    <3> QED BY <3>1, <3>2, <3>3 DEF ChannelFits
  <2> QED BY <2>1, <2>2, <2>3, <2>4
<1>7. CASE ReadChannel
  BY <1>7 DEF ReadChannel, Places, Calling, LineFits, ChannelFits, Goto, shared, chip
<1>8. CASE Release
  BY <1>8 DEF Release, Places, Calling, LineFits, ChannelFits, Goto, shared, taken
<1> QED BY <1>1, <1>2, <1>3, <1>4, <1>5, <1>6, <1>7, <1>8

\* No statement of MCU_GA_SetGAInt and no step of the three cores undoes it.
LEMMA GateStep == GateInv /\ [Next]_vars => GateInv'
<1>1. GateInv /\ UNCHANGED vars => GateInv'
  BY DEF vars, shared, chip, taken, GateInv, Places, Calling, LineFits, ChannelFits
<1>2. GateInv /\ Next => GateInv'
  BY CallStep, Core0Step, Core2Step, Core3Step DEF Next, Core0, Core2, Core3, Cores
<1> QED BY <1>1, <1>2

\* The inductive invariant of the gate array.
THEOREM GateInvHolds == Spec => []GateInv
<1> QED BY GateInit, GateStep, PTL DEF Spec

(* Whenever the lock is free, the sound chip's line is up exactly when its *)
(* interrupt is asserted, whatever core 0 does to the gate array without   *)
(* the lock.                                                               *)
THEOREM LineAlwaysFollows == Spec => []LineFollowsAssertion
<1>1. GateInv => LineFollowsAssertion
  BY DEF GateInv, LineFits, LineFollowsAssertion
<1> QED BY <1>1, GateInvHolds, PTL

(* The status read that takes an interrupt back names the voice that       *)
(* raised it.                                                              *)
THEOREM StatusNamesVoice == Spec => []AcknowledgesWhatAsserted
<1>1. GateInv => AcknowledgesWhatAsserted
  BY DEF GateInv, ChannelFits, AcknowledgesWhatAsserted
<1> QED BY <1>1, GateInvHolds, PTL

-----------------------------------------------------------------------------
(* The voice mask: it settles, and frames play what was meant.             *)

(* Byte by byte, the pending mask is the one in force or the new one.      *)
PendingBetween ==
    \A B \in Bytes : \A v \in B :
        v \in voice_mask_pending <=> IF B \in todo THEN v \in voice_mask ELSE v \in target

(* What is not being changed is in force. *)
InForce == todo = {} /\ ~voice_mask_updating => voice_mask = target

(* The histories, at any time and between the two loads.                   *)
HistoriesHold ==
    /\ steady \subseteq voice_mask \cap target
    /\ silent \cap voice_mask = {}
    /\ left # Both => steady \subseteq playing
    /\ left = {"pending"} => playing \cap silent = {}

\* The inductive invariant of the voice mask.
MaskInv == MaskTypeOK /\ PendingBetween /\ InForce /\ HistoriesHold

(* Every voice is in one byte and no other. *)
LEMMA ByteOfVoice == /\ \A v \in Slots : \E B \in Bytes : v \in B
                     /\ \A B \in Bytes : B \subseteq Slots
                     /\ \A B, C \in Bytes : \A v \in B : v \in C => B = C
BY BytesAssumption

(* A voice that both masks have is in the pending one, too. *)
LEMMA MeantIsPending == MaskInv => voice_mask \cap target \subseteq voice_mask_pending
BY ByteOfVoice DEF MaskInv, MaskTypeOK, PendingBetween

\* When every byte is written, what is pending is what was meant.
LEMMA PendingIsTarget == MaskInv /\ todo = {} => voice_mask_pending = target
<1> SUFFICES ASSUME MaskInv, todo = {}
             PROVE  \A v \in Slots : v \in voice_mask_pending <=> v \in target
  BY DEF MaskInv, MaskTypeOK
<1> TAKE v \in Slots
<1>1. PICK B \in Bytes : v \in B
  BY ByteOfVoice
<1> QED BY <1>1 DEF MaskInv, PendingBetween

\* Nothing is being changed at the start.
LEMMA MaskInvInit == MaskInit => MaskInv
BY DEF MaskInit, MaskInv, MaskTypeOK, PendingBetween, InForce, HistoriesHold, Both

(* The firmware's steps leave playing alone, and the histories only shrink *)
(* to what is still true.                                                  *)
LEMMA RememberHolds ==
    ASSUME MaskInv, Remember, UNCHANGED loads,
           voice_mask' \subseteq Slots
    PROVE  /\ HistoriesHold'
           /\ steady' \subseteq Slots /\ silent' \subseteq Slots
BY DEF MaskInv, MaskTypeOK, HistoriesHold, Remember, loads, Both

\* Neither a write of a byte nor a load of a mask undoes it.
LEMMA MaskInvStep == MaskInv /\ [MaskNext]_maskVars => MaskInv'
<1> SUFFICES ASSUME MaskInv, [MaskNext]_maskVars PROVE MaskInv'
  OBVIOUS
<1> USE DEF MaskInv
<1>1. ASSUME NEW mask \in SUBSET Slots, Begin(mask) PROVE MaskInv'
  <2>1. voice_mask = target /\ voice_mask_pending = target
    BY <1>1, PendingIsTarget DEF Begin, InForce
  <2>2. MaskTypeOK'
    BY <1>1, RememberHolds DEF Begin, MaskTypeOK, masks, loads
  <2>3. PendingBetween'
    BY <1>1, <2>1 DEF Begin, PendingBetween, masks
  <2>4. InForce'
    <3> SUFFICES ASSUME todo' = {} PROVE voice_mask' = target'
      BY DEF InForce
    <3> QED BY <1>1, ByteOfVoice DEF Begin, masks, MaskTypeOK
  <2> QED BY <1>1, <2>2, <2>3, <2>4, RememberHolds DEF Begin, MaskTypeOK, masks
<1>2. ASSUME NEW B \in Bytes, WriteByte(B) PROVE MaskInv'
  <2>1. MaskTypeOK'
    BY <1>2, ByteOfVoice, RememberHolds DEF WriteByte, MaskTypeOK, loads
  <2>2. PendingBetween'
    <3> SUFFICES ASSUME NEW C \in Bytes, NEW v \in C
                 PROVE  v \in voice_mask_pending' <=>
                           IF C \in todo' THEN v \in voice_mask' ELSE v \in target'
      BY DEF PendingBetween
    <3>1. CASE C = B
      BY <1>2, <3>1 DEF WriteByte
    <3>2. CASE C # B
      <4>1. v \notin B
        BY <3>2, ByteOfVoice
      <4> QED BY <1>2, <3>2, <4>1 DEF WriteByte, PendingBetween
    <3> QED BY <3>1, <3>2
  <2>3. InForce'
    BY <1>2 DEF WriteByte, InForce
  <2> QED BY <1>2, <2>1, <2>2, <2>3, RememberHolds DEF WriteByte, MaskTypeOK
<1>3. ASSUME Apply PROVE MaskInv'
  <2>1. voice_mask_pending = target
    BY <1>3, PendingIsTarget DEF Apply
  <2>2. voice_mask' \subseteq Slots
    BY <1>3 DEF Apply, MaskTypeOK
  <2>3. MaskTypeOK'
    BY <1>3, <2>2, RememberHolds DEF Apply, MaskTypeOK, firmware, loads
  <2>4. PendingBetween'
    BY <1>3 DEF Apply, PendingBetween, firmware
  <2>5. InForce'
    BY <1>3, <2>1 DEF Apply, InForce, firmware
  <2> QED BY <1>3, <2>2, <2>3, <2>4, <2>5, RememberHolds DEF Apply
<1>4. ASSUME NEW which \in Both, Load(which) PROVE MaskInv'
  <2>1. MaskTypeOK'
    BY <1>4 DEF Load, Loaded, Watch, MaskTypeOK, masks, firmware, Both
  <2>2. PendingBetween' /\ InForce'
    BY <1>4 DEF Load, PendingBetween, InForce, masks, firmware
  <2>3. voice_mask \cap target \subseteq Loaded(which)
    BY MeantIsPending DEF Loaded
  <2>4. HistoriesHold'
    <3>1. CASE left = Both
      BY <1>4, <2>3, <3>1 DEF Load, Loaded, Watch, HistoriesHold, masks, firmware, Both, MaskTypeOK
    <3>2. CASE left # Both
      <4>1. left' = {}
        BY <1>4, <3>2 DEF Load, MaskTypeOK, Both
      <4> QED BY <1>4, <2>3, <3>2, <4>1 DEF Load, Watch, HistoriesHold, masks, firmware
    <3> QED BY <3>1, <3>2
  <2> QED BY <2>1, <2>2, <2>4
<1>5. ASSUME EndUpdate PROVE MaskInv'
  BY <1>5 DEF EndUpdate, MaskTypeOK, PendingBetween, InForce, HistoriesHold, masks, firmware, Both
<1>6. ASSUME UNCHANGED maskVars PROVE MaskInv'
  BY <1>6 DEF maskVars, masks, firmware, loads, MaskTypeOK, PendingBetween, InForce, HistoriesHold
<1> QED BY <1>1, <1>2, <1>3, <1>4, <1>5, <1>6 DEF MaskNext, MaskChanges, MaskLoads

\* The inductive invariant of the voice mask (PCM_Write, PCM_Update).
THEOREM MaskInvHolds == MaskSpec => []MaskInv
<1> QED BY MaskInvInit, MaskInvStep, PTL DEF MaskSpec

(* With nothing left to write and to apply, both masks are the one the     *)
(* firmware meant, however the bytes of the mask were ordered.             *)
THEOREM MaskAlwaysSettles == MaskSpec => []MaskSettles
<1>1. MaskInv => MaskSettles
  BY PendingIsTarget DEF MaskInv, InForce, MaskSettles
<1> QED BY <1>1, MaskInvHolds, PTL

(* No run of frames leaves out a voice that goes on or plays one that was  *)
(* never in force, in whichever order the two masks are loaded.            *)
THEOREM FramesPlayWhatWasMeant == MaskSpec => FramePlaysWhatWasMeant
<1> DEFINE Meant == left # {} /\ left' = {} =>
                       steady \subseteq playing' /\ playing' \cap silent = {}
<1>1. MaskInv /\ [MaskNext]_maskVars => [Meant]_maskVars
  <2> SUFFICES ASSUME MaskInv, MaskNext, left # {}, left' = {}
               PROVE  steady \subseteq playing' /\ playing' \cap silent = {}
    OBVIOUS
  <2>1. PICK which \in Both : Load(which)
    <3>1. ~EndUpdate
      BY DEF EndUpdate
    <3>2. ~MaskChanges
      BY DEF MaskChanges, Begin, WriteByte, Apply, loads
    <3> QED BY <3>1, <3>2 DEF MaskNext, MaskLoads
  <2>2. left = {which}
    BY <2>1 DEF Load
  <2>3. playing' = playing \cap Loaded(which)
    BY <2>1, <2>2 DEF Load, Both
  <2>4. steady \subseteq playing'
    BY <2>2, <2>3, MeantIsPending DEF MaskInv, HistoriesHold, Loaded, Both
  <2>5. playing' \cap silent = {}
    BY <2>2, <2>3 DEF MaskInv, HistoriesHold, Loaded, Both
  <2> QED BY <2>4, <2>5
<1> QED BY <1>1, MaskInvHolds, PTL DEF MaskSpec, FramePlaysWhatWasMeant
-----------------------------------------------------------------------------
(* The arithmetic of the MCU.  A step that involves a product is a lemma   *)
(* of its own over Nat, where the solver finds it.                         *)

\* The two operand sizes.
Sizes == {"byte", "word"}

\* A byte has 256 values, a word 65536.
LEMMA Widths == /\ Width("byte") = 256 /\ Width("word") = 65536
                /\ \A siz \in Sizes : Width(siz) \in {256, 65536}
BY DEF Width, BYTE, WORD, Sizes

\* Quotient and remainder of a number that is off by at most one turn, as
\* the sums and differences of two operands are.
LEMMA Wraps ==
  \A d \in Int, n \in Nat : n > 0 /\ -n <= d /\ d < 2 * n =>
    /\ d \div n = IF d < 0 THEN -1 ELSE IF d < n THEN 0 ELSE 1
    /\ d % n = IF d < 0 THEN d + n ELSE IF d < n THEN d ELSE d - n
BY Z3

\* The carry is the lowest bit of such a quotient.
LEMMA Parity == \A k \in {-1, 0, 1} : k % 2 = 1 <=> k # 0
OBVIOUS

\* What the size leaves of an operand that fits, and its two readings.
LEMMA CutSmall ==
  ASSUME NEW siz \in Sizes, NEW x \in 0 .. Width(siz) - 1
  PROVE  /\ Cut(x, siz) = x
         /\ Negative(x, siz) <=> 2 * x >= Width(siz)
         /\ Signed(x, siz) = IF 2 * x >= Width(siz) THEN x - Width(siz) ELSE x
<1>1. Cut(x, siz) = x
  <2>1. CASE siz = "byte"
    BY <2>1, Widths DEF Cut
  <2>2. CASE siz = "word"
    BY <2>2, Widths DEF Cut
  <2> QED BY <2>1, <2>2 DEF Sizes
<1> QED BY <1>1 DEF Negative, Signed

\* What the flags of a difference say: Z that the operands are equal, C that
\* a borrow was taken, N # V that the first is less as a signed number.
LEMMA SubFlags ==
  ASSUME NEW siz \in Sizes, NEW x \in 0 .. Width(siz) - 1, NEW y \in 0 .. Width(siz) - 1,
         NEW f, f = Sub(x, y, 0, siz).f
  PROVE  /\ f.N \in BOOLEAN /\ f.Z \in BOOLEAN /\ f.V \in BOOLEAN /\ f.C \in BOOLEAN
         /\ f.Z <=> x = y
         /\ f.C <=> x < y
         /\ f.N # f.V <=> Signed(x, siz) < Signed(y, siz)
<1> DEFINE d == Cut(x, siz) - Cut(y, siz) - 0
           sd == Signed(x, siz) - Signed(y, siz) - 0
<1>1. f = [N |-> Negative(d, siz), Z |-> Cut(d, siz) = 0,
              V |-> ~FitsSigned(sd, siz), C |-> (d \div Width(siz)) % 2 = 1]
  BY DEF Sub
<1>2. /\ f.N = Negative(d, siz) /\ f.Z = (Cut(d, siz) = 0) /\ f.V = ~FitsSigned(sd, siz)
      /\ f.C = ((d \div Width(siz)) % 2 = 1)
  <2> HIDE DEF d, sd
  <2> QED BY <1>1
<1>3. d = x - y
  BY CutSmall
<1>4. Signed(x, siz) = (IF 2 * x >= Width(siz) THEN x - Width(siz) ELSE x)
  BY CutSmall
<1>5. Signed(y, siz) = (IF 2 * y >= Width(siz) THEN y - Width(siz) ELSE y)
  BY CutSmall
<1>6. (Cut(d, siz) = 0 <=> x = y) /\ ((d \div Width(siz)) % 2 = 1 <=> x < y)
  <2> DEFINE n == Width(siz)
             q == d \div n
  <2>1. n \in Nat /\ n > 0 /\ d = x - y /\ x \in 0 .. n - 1 /\ y \in 0 .. n - 1
    BY <1>3, Widths
  <2> HIDE DEF n, d
  <2>2. d \in Int /\ -n < d /\ d < n
    BY <2>1
  <2>3. /\ q = IF d < 0 THEN -1 ELSE 0
        /\ d % n = IF d < 0 THEN d + n ELSE d
    BY <2>1, <2>2, Wraps
  <2>4. q \in {-1, 0, 1} /\ (q # 0 <=> d < 0)
    BY <2>3
  <2> HIDE DEF q
  <2>5. q % 2 = 1 <=> d < 0
    BY <2>4, Parity
  <2>6. d % n = 0 <=> d = 0
    BY <2>1, <2>2, <2>3
  <2>7. (d < 0 <=> x < y) /\ (d = 0 <=> x = y)
    BY <2>1
  <2> QED BY <2>5, <2>6, <2>7 DEF n, q, Cut
<1>7. (Negative(d, siz) <=> FitsSigned(sd, siz)) <=> Signed(x, siz) < Signed(y, siz)
  <2>1. CASE siz = "byte"
    BY <1>3, <1>4, <1>5, <2>1, Widths DEF Negative, Cut, FitsSigned
  <2>2. CASE siz = "word"
    BY <1>3, <1>4, <1>5, <2>2, Widths DEF Negative, Cut, FitsSigned
  <2> QED BY <2>1, <2>2 DEF Sizes
<1>8. Negative(d, siz) \in BOOLEAN /\ FitsSigned(sd, siz) \in BOOLEAN
  BY DEF Negative, FitsSigned
<1> HIDE DEF d, sd
<1> QED BY <1>2, <1>6, <1>7, <1>8

\* After CMP or SUB the conditional branches order the operands: BHI, BLS,
\* BCC, BCS, BNE, BEQ as unsigned numbers, BGE, BLT, BGT, BLE as signed ones
\* (MCU_SUB_Common, MCU_Jump_Bcc), whatever the operands and their size.
THEOREM BranchesCompare ==
  ASSUME NEW siz \in Sizes, NEW x \in 0 .. Width(siz) - 1, NEW y \in 0 .. Width(siz) - 1,
         NEW f, f = Sub(x, y, 0, siz).f
  PROVE  /\ Condition(f, 2) <=> x > y
         /\ Condition(f, 3) <=> x <= y
         /\ Condition(f, 4) <=> x >= y
         /\ Condition(f, 5) <=> x < y
         /\ Condition(f, 6) <=> x # y
         /\ Condition(f, 7) <=> x = y
         /\ Condition(f, 12) <=> Signed(x, siz) >= Signed(y, siz)
         /\ Condition(f, 13) <=> Signed(x, siz) < Signed(y, siz)
         /\ Condition(f, 14) <=> Signed(x, siz) > Signed(y, siz)
         /\ Condition(f, 15) <=> Signed(x, siz) <= Signed(y, siz)
<1>1. /\ f.N \in BOOLEAN /\ f.Z \in BOOLEAN /\ f.V \in BOOLEAN /\ f.C \in BOOLEAN
      /\ f.Z <=> x = y
      /\ f.C <=> x < y
      /\ f.N # f.V <=> Signed(x, siz) < Signed(y, siz)
  BY SubFlags
<1>2. /\ Condition(f, 2) <=> ~(f.C \/ f.Z)
      /\ Condition(f, 3) <=> f.C \/ f.Z
      /\ Condition(f, 4) <=> ~f.C
      /\ Condition(f, 5) <=> f.C
      /\ Condition(f, 6) <=> ~f.Z
      /\ Condition(f, 7) <=> f.Z
  BY <1>1 DEF Condition
<1>3. /\ Condition(f, 12) <=> f.N = f.V
      /\ Condition(f, 13) <=> f.N # f.V
      /\ Condition(f, 14) <=> ~f.Z /\ f.N = f.V
      /\ Condition(f, 15) <=> ~(~f.Z /\ f.N = f.V)
  BY <1>1 DEF Condition
<1>4. /\ Signed(x, siz) \in Int /\ Signed(y, siz) \in Int
      /\ Signed(x, siz) = Signed(y, siz) <=> x = y
  BY CutSmall, Widths
<1>5. x \in Int /\ y \in Int
  BY Widths
<1> QED BY <1>1, <1>2, <1>3, <1>4, <1>5

\* A sum with a carry in, its value and its carry out, loses nothing.
ExactSum(r, x, y, b, siz) ==
  /\ r.v \in Nat /\ r.v < Width(siz) /\ AsBit(r.f.C) \in {0, 1}
  /\ Width(siz) * AsBit(r.f.C) + r.v = x + y + b

LEMMA SumExact ==
  ASSUME NEW siz \in Sizes, NEW x \in 0 .. Width(siz) - 1, NEW y \in 0 .. Width(siz) - 1,
         NEW b \in {0, 1}, NEW r, r = Add(x, y, b, siz)
  PROVE  ExactSum(r, x, y, b, siz)
<1> DEFINE n == Width(siz)
           s == Cut(x, siz) + Cut(y, siz) + b
           q == s \div n
           ss == Signed(x, siz) + Signed(y, siz) + b
<1>1. r = [v |-> s % n,
           f |-> [N |-> Negative(s, siz), Z |-> Cut(s, siz) = 0,
                  V |-> ~FitsSigned(ss, siz), C |-> q % 2 = 1]]
  BY DEF Add
<1>2. n \in {256, 65536} /\ s = x + y + b
  BY Widths, CutSmall
<1> HIDE DEF n, s, ss
<1>3. r.v = s % n /\ r.f.C = (q % 2 = 1)
  <2> HIDE DEF q
  <2> QED BY <1>1
<1>4. n \in Nat /\ n > 0 /\ s \in Int /\ 0 <= s /\ s < 2 * n
  BY <1>2 DEF n
<1>5. q = (IF s < n THEN 0 ELSE 1) /\ s % n = IF s < n THEN s ELSE s - n
  BY <1>4, Wraps
<1>6. q \in {-1, 0, 1} /\ (q # 0 <=> s >= n)
  BY <1>4, <1>5
<1> HIDE DEF q
<1>7. r.f.C <=> s >= n
  BY <1>3, <1>6, Parity
<1>8. AsBit(r.f.C) = IF s >= n THEN 1 ELSE 0
  BY <1>7 DEF AsBit
<1>9. r.v \in Nat /\ r.v < n /\ n * AsBit(r.f.C) + r.v = s
  BY <1>3, <1>4, <1>5, <1>8
<1> QED BY <1>2, <1>8, <1>9 DEF n, ExactSum

\* Two sums, the second with the carry of the first, as one long sum.
LEMMA Carried ==
  \A n, xh, xl, yh, yl, c, bl, bh, vl, vh \in Nat :
    n * bl + vl = xl + yl + c /\ n * bh + vh = xh + yh + bl =>
      n * (n * bh + vh) + vl = (n * xh + xl) + (n * yh + yl) + c
BY Z3

\* ADD of the low halves and ADDX of the high ones (MCU_ADD_Common) add
\* numbers of twice the width exactly, carry in and carry out included.
THEOREM LongSum ==
  ASSUME NEW siz \in Sizes, NEW c \in {0, 1},
         NEW xh \in 0 .. Width(siz) - 1, NEW xl \in 0 .. Width(siz) - 1,
         NEW yh \in 0 .. Width(siz) - 1, NEW yl \in 0 .. Width(siz) - 1,
         NEW low, low = Add(xl, yl, c, siz),
         NEW high, high = Add(xh, yh, AsBit(low.f.C), siz)
  PROVE  Width(siz) * (Width(siz) * AsBit(high.f.C) + high.v) + low.v
         = (Width(siz) * xh + xl) + (Width(siz) * yh + yl) + c
<1>1. /\ low.v \in Nat /\ AsBit(low.f.C) \in {0, 1}
      /\ Width(siz) * AsBit(low.f.C) + low.v = xl + yl + c
  <2>1. ExactSum(low, xl, yl, c, siz)
    BY SumExact, Zenon
  <2> QED BY <2>1 DEF ExactSum
<1>2. /\ high.v \in Nat /\ AsBit(high.f.C) \in {0, 1}
      /\ Width(siz) * AsBit(high.f.C) + high.v = xh + yh + AsBit(low.f.C)
  <2>1. AsBit(low.f.C) \in {0, 1}
    BY <1>1
  <2>2. ExactSum(high, xh, yh, AsBit(low.f.C), siz)
    BY <2>1, SumExact, Zenon
  <2> QED BY <2>2 DEF ExactSum
<1>3. PICK n \in Nat : n = Width(siz)
  BY Widths
<1>4. PICK bl \in Nat, bh \in Nat : bl = AsBit(low.f.C) /\ bh = AsBit(high.f.C)
  BY <1>1, <1>2
<1>5. PICK vl \in Nat, vh \in Nat : vl = low.v /\ vh = high.v
  BY <1>1, <1>2
<1>6. c \in Nat /\ xh \in Nat /\ xl \in Nat /\ yh \in Nat /\ yl \in Nat
  BY Widths
<1>7. n * bl + vl = xl + yl + c /\ n * bh + vh = xh + yh + bl
  BY <1>1, <1>2, <1>3, <1>4, <1>5
<1>8. n * (n * bh + vh) + vl = (n * xh + xl) + (n * yh + yl) + c
  BY <1>6, <1>7, Carried
<1> QED BY <1>3, <1>4, <1>5, <1>8

\* A difference with a borrow in, its value and its borrow out, loses nothing.
ExactDifference(r, x, y, b, siz) ==
  /\ r.v \in Nat /\ r.v < Width(siz) /\ AsBit(r.f.C) \in {0, 1}
  /\ r.v - Width(siz) * AsBit(r.f.C) = x - y - b

LEMMA DifferenceExact ==
  ASSUME NEW siz \in Sizes, NEW x \in 0 .. Width(siz) - 1, NEW y \in 0 .. Width(siz) - 1,
         NEW b \in {0, 1}, NEW r, r = Sub(x, y, b, siz)
  PROVE  ExactDifference(r, x, y, b, siz)
<1> DEFINE n == Width(siz)
           s == Cut(x, siz) - Cut(y, siz) - b
           q == s \div n
           ss == Signed(x, siz) - Signed(y, siz) - b
<1>1. r = [v |-> s % n,
           f |-> [N |-> Negative(s, siz), Z |-> Cut(s, siz) = 0,
                  V |-> ~FitsSigned(ss, siz), C |-> q % 2 = 1]]
  BY DEF Sub
<1>2. n \in {256, 65536} /\ s = x - y - b
  BY Widths, CutSmall
<1> HIDE DEF n, s, ss
<1>3. r.v = s % n /\ r.f.C = (q % 2 = 1)
  <2> HIDE DEF q
  <2> QED BY <1>1
<1>4. n \in Nat /\ n > 0 /\ s \in Int /\ -n <= s /\ s < n
  BY <1>2 DEF n
<1>5. q = (IF s < 0 THEN -1 ELSE 0) /\ s % n = IF s < 0 THEN s + n ELSE s
  BY <1>4, Wraps
<1>6. q \in {-1, 0, 1} /\ (q # 0 <=> s < 0)
  BY <1>4, <1>5
<1> HIDE DEF q
<1>7. r.f.C <=> s < 0
  BY <1>3, <1>6, Parity
<1>8. AsBit(r.f.C) = IF s < 0 THEN 1 ELSE 0
  BY <1>7 DEF AsBit
<1>9. r.v \in Nat /\ r.v < n /\ r.v - n * AsBit(r.f.C) = s
  BY <1>3, <1>4, <1>5, <1>8
<1> QED BY <1>2, <1>8, <1>9 DEF n, ExactDifference

\* Two differences, the second with the borrow of the first, as one.
LEMMA Borrowed ==
  \A n, xh, xl, yh, yl, c, bl, bh, vl, vh \in Nat :
    vl - n * bl = xl - yl - c /\ vh - n * bh = xh - yh - bl =>
      (n * vh + vl) - n * (n * bh) = (n * xh + xl) - (n * yh + yl) - c
BY Z3

\* SUB of the low halves and SUBX of the high ones (MCU_SUB_Common) subtract
\* numbers of twice the width exactly, borrow in and borrow out included.
THEOREM LongDifference ==
  ASSUME NEW siz \in Sizes, NEW c \in {0, 1},
         NEW xh \in 0 .. Width(siz) - 1, NEW xl \in 0 .. Width(siz) - 1,
         NEW yh \in 0 .. Width(siz) - 1, NEW yl \in 0 .. Width(siz) - 1,
         NEW low, low = Sub(xl, yl, c, siz),
         NEW high, high = Sub(xh, yh, AsBit(low.f.C), siz)
  PROVE  (Width(siz) * high.v + low.v) - Width(siz) * (Width(siz) * AsBit(high.f.C))
         = (Width(siz) * xh + xl) - (Width(siz) * yh + yl) - c
<1>1. /\ low.v \in Nat /\ AsBit(low.f.C) \in {0, 1}
      /\ low.v - Width(siz) * AsBit(low.f.C) = xl - yl - c
  <2>1. ExactDifference(low, xl, yl, c, siz)
    BY DifferenceExact, Zenon
  <2> QED BY <2>1 DEF ExactDifference
<1>2. /\ high.v \in Nat /\ AsBit(high.f.C) \in {0, 1}
      /\ high.v - Width(siz) * AsBit(high.f.C) = xh - yh - AsBit(low.f.C)
  <2>1. AsBit(low.f.C) \in {0, 1}
    BY <1>1
  <2>2. ExactDifference(high, xh, yh, AsBit(low.f.C), siz)
    BY <2>1, DifferenceExact, Zenon
  <2> QED BY <2>2 DEF ExactDifference
<1>3. PICK n \in Nat : n = Width(siz)
  BY Widths
<1>4. PICK bl \in Nat, bh \in Nat : bl = AsBit(low.f.C) /\ bh = AsBit(high.f.C)
  BY <1>1, <1>2
<1>5. PICK vl \in Nat, vh \in Nat : vl = low.v /\ vh = high.v
  BY <1>1, <1>2
<1>6. c \in Nat /\ xh \in Nat /\ xl \in Nat /\ yh \in Nat /\ yl \in Nat
  BY Widths
<1>7. vl - n * bl = xl - yl - c /\ vh - n * bh = xh - yh - bl
  BY <1>1, <1>2, <1>3, <1>4, <1>5
<1>8. (n * vh + vl) - n * (n * bh) = (n * xh + xl) - (n * yh + yl) - c
  BY <1>6, <1>7, Borrowed
<1> QED BY <1>3, <1>4, <1>5, <1>8

\* Quotient and remainder, over Nat.
LEMMA Divides ==
  \A x, t \in Nat : t > 0 => /\ x = t * (x \div t) + (x % t) /\ (x % t) < t
                             /\ (x % t) \in Nat /\ (x \div t) \in Nat
BY Z3

\* A word is made of its two bytes.
LEMMA Halves ==
  \A x \in Nat : x < WORD =>
    \E l \in Nat, h \in Nat : LowByte(x) = l /\ HighByte(x) = h /\ l < 256 /\ h < 256 /\ x = 256 * h + l
<1> TAKE x \in Nat
<1> HAVE x < WORD
<1>1. x < 65536
  BY DEF WORD
<1>2. (x % 65536) = x
  BY <1>1, Z3
<1>3. LowByte(x) = (x % 256) /\ HighByte(x) = (x \div 256)
  BY <1>2 DEF LowByte, HighByte, BYTE, WORD
<1>4. x = 256 * (x \div 256) + (x % 256) /\ (x \div 256) \in Nat /\ (x % 256) \in Nat /\ (x % 256) < 256
  BY Divides
<1>5. (x \div 256) < 256
  BY <1>1, <1>4
<1> QED BY <1>3, <1>4, <1>5

\* A product by halves of the second factor.
LEMMA ProductByHalves == \A x, a, h \in Nat : x * (256 * h + a) = 256 * (x * h) + x * a /\ x * h \in Nat /\ x * a \in Nat
BY Z3

\* The bound of such a half.
LEMMA HalfProductBound == \A x, a \in Nat : x <= 65535 /\ a <= 255 => x * a <= 65535 * 255
BY Z3

\* The byte of a number and what is above it.
LEMMA Div256 == \A w \in Nat : \E q \in Nat, r \in Nat : r < 256 /\ w = 256 * q + r /\ (w \div 256) = q /\ (w % 256) = r
<1> TAKE w \in Nat
<1>1. w = 256 * (w \div 256) + (w % 256) /\ (w \div 256) \in Nat /\ (w % 256) \in Nat /\ (w % 256) < 256
  BY Divides
<1> QED BY <1>1

\* The sum of the two half products, put together from its bytes.
LEMMA Recombine == \A u, q, r, v, s \in Nat : 
   u <= 65535 * 255 /\ 256 * q + r <= 65535 * 255 /\ r < 256 /\ s < 256 /\ u + q = 256 * v + s =>
   v <= 65535 /\ s * 256 + r <= 65535 /\ 65536 * v + (s * 256 + r) = 256 * u + (256 * q + r)
OBVIOUS
\* A division by bytes, put together.
LEMMA QuotientByBytes == \A t, h, lh, ll, q1, r1, q0, r0 \in Nat :
   /\ t > 0 /\ h < t /\ lh < 256 /\ ll < 256 
   /\ h * 256 + lh = t * q1 + r1 /\ r1 < t 
   /\ r1 * 256 + ll = t * q0 + r0 /\ r0 < t
   => t * (q1 * 256 + q0) + r0 = 65536 * h + (256 * lh + ll)
<1> TAKE t, h, lh, ll, q1, r1, q0, r0 \in Nat
<1> DEFINE a == t * q1
           b == t * q0
<1>1. a \in Nat /\ b \in Nat /\ t * (q1 * 256 + q0) = 256 * a + b
  BY Z3
<1> HIDE DEF a, b
<1> QED BY <1>1 DEF a, b
\* A byte of the quotient is a byte, when the remainder before it was one of
\* the divisor.
LEMMA QuotientByte == \A t, h, l, q, r \in Nat : t > 0 /\ h < t /\ l < 256 /\ h * 256 + l = t * q + r => q < 256
<1> SUFFICES ASSUME NEW t \in Nat, NEW h \in Nat, NEW l \in Nat, NEW q \in Nat, NEW r \in Nat,
                    t > 0, h < t, l < 256, h * 256 + l = t * q + r, q >= 256
             PROVE FALSE
  OBVIOUS
<1>1. t * q >= t * 256
  BY Z3
<1>2. t * q \in Nat
  BY Z3
<1> QED BY <1>1, <1>2

\* MULXU of two words is exact: the pair of registers it leaves is the whole
\* product, though no step of it is wider than 31 bits.
THEOREM ProductExact ==
  ASSUME NEW x \in Nat, x < WORD, NEW y \in Nat, y < WORD
  PROVE  /\ Product(x, y)[1] \in Nat /\ Product(x, y)[1] < WORD /\ Product(x, y)[2] \in Nat /\ Product(x, y)[2] < WORD
         /\ WORD * Product(x, y)[1] + Product(x, y)[2] = x * y
<1>1. PICK a \in Nat, h \in Nat : LowByte(y) = a /\ HighByte(y) = h /\ a < 256 /\ h < 256 /\ y = 256 * h + a
  BY Halves
<1>2. PICK p0 \in Nat, u \in Nat : p0 = x * a /\ u = x * h /\ x * y = 256 * u + p0
  BY <1>1, ProductByHalves
<1>3. p0 <= 65535 * 255 /\ u <= 65535 * 255
  BY <1>1, <1>2, HalfProductBound DEF WORD
<1>4. PICK q \in Nat, r \in Nat : r < 256 /\ p0 = 256 * q + r /\ (p0 \div 256) = q /\ (p0 % 256) = r
  BY Div256
<1>5. PICK p1 \in Nat : p1 = u + q
  OBVIOUS
<1>6. PICK v \in Nat, s \in Nat : s < 256 /\ p1 = 256 * v + s /\ (p1 \div 256) = v /\ (p1 % 256) = s
  BY Div256
<1>7. Product(x, y) = <<v, s * 256 + r>>
  BY <1>1, <1>2, <1>4, <1>5, <1>6 DEF Product, BYTE
<1>8. v <= 65535 /\ s * 256 + r <= 65535 /\ 65536 * v + (s * 256 + r) = 256 * u + p0
  BY <1>3, <1>4, <1>5, <1>6, Recombine
<1>9. v < WORD /\ s * 256 + r < WORD /\ WORD * v + (s * 256 + r) = x * y
  BY <1>2, <1>8 DEF WORD
<1>10. s * 256 + r \in Nat
  OBVIOUS
<1> QED BY <1>7, <1>9, <1>10

\* DIVXU of a pair by a word is exact when the high word is below the
\* divisor (otherwise the quotient does not fit a word and only V is set): the
\* quotient fits a word and the remainder is below the divisor.
THEOREM QuotientExact ==
  ASSUME NEW t \in Nat, 0 < t, t < WORD, NEW high \in Nat, high < t, NEW low \in Nat, low < WORD
  PROVE  LET d == Quotient(high, low, t)
         IN  /\ d.q \in Nat /\ d.q < WORD /\ d.r \in Nat /\ d.r < t
             /\ t * d.q + d.r = WORD * high + low
<1>1. PICK ll \in Nat, lh \in Nat :
         LowByte(low) = ll /\ HighByte(low) = lh /\ ll < 256 /\ lh < 256 /\ low = 256 * lh + ll
  BY Halves
<1>2. t \in Nat /\ t > 0 /\ high \in Nat /\ high < t
  OBVIOUS
<1>3. PICK n1 \in Nat : n1 = high * 256 + lh
  BY <1>2
<1>4. PICK q1 \in Nat, r1 \in Nat : (n1 \div t) = q1 /\ (n1 % t) = r1 /\ n1 = t * q1 + r1 /\ r1 < t
  BY <1>2, Divides
<1>5. PICK n0 \in Nat : n0 = r1 * 256 + ll
  OBVIOUS
<1>6. PICK q0 \in Nat, r0 \in Nat : (n0 \div t) = q0 /\ (n0 % t) = r0 /\ n0 = t * q0 + r0 /\ r0 < t
  BY <1>2, Divides
<1>7. Quotient(high, low, t) = [q |-> q1 * 256 + q0, r |-> r0]
  BY <1>1, <1>3, <1>4, <1>5, <1>6 DEF Quotient, BYTE
<1>8. t * (q1 * 256 + q0) + r0 = 65536 * high + low
  BY <1>1, <1>2, <1>3, <1>4, <1>5, <1>6, QuotientByBytes
<1>9. q1 < 256 /\ q0 < 256
  BY <1>1, <1>2, <1>3, <1>4, <1>5, <1>6, QuotientByte
<1>10. q1 * 256 + q0 \in Nat /\ q1 * 256 + q0 < WORD /\ r0 < t
  BY <1>6, <1>9 DEF WORD
<1>11. t * (q1 * 256 + q0) + r0 = WORD * high + low
  BY <1>8 DEF WORD
<1> QED BY <1>7, <1>10, <1>11

-----------------------------------------------------------------------------
(* The context of an interrupt: what StartVector pushes is what RTE pops.  *)

\* The fields of the machine (mcu_t).
IsMachine(m) ==
  m = [image |-> m.image, r |-> m.r, pc |-> m.pc, cp |-> m.cp, sr |-> m.sr, dp |-> m.dp,
       ep |-> m.ep, tp |-> m.tp, br |-> m.br, sleep |-> m.sleep, ex_ignore |-> m.ex_ignore,
       trapa |-> m.trapa, mem |-> m.mem, dev |-> m.dev, pcm |-> m.pcm, lcd |-> m.lcd]

\* The firmware has the RAM of the chip switched on (RAME).
RamEnabled(m) == Register(m.dev, DEV_RAME) >= 128

\* The addresses of the RAM of the chip.
InRamRange(a) == a \in Nat /\ 64384 <= a /\ a < 65408

\* The cells of the RAM and the words made of them, high byte first.
RamCell(a) == <<"ram", a - 64384>>
RamWord(f, a) == Cell(f, RamCell(a)) * BYTE + Cell(f, RamCell(a + 1))
PutWord(f, a, x) == Put(Put(f, RamCell(a), HighByte(x)), RamCell(a + 1), LowByte(x))

\* A cell reads as what was written there last.
LEMMA CellOfPut ==
  ASSUME NEW f, NEW a, NEW b, NEW x
  PROVE  Cell(Put(f, a, x), b) = IF a = b THEN x ELSE Cell(f, b)
BY DEF Cell, Put

\* An address of the enabled RAM is a cell of the RAM.
LEMMA RamCellOf ==
  ASSUME NEW m, RamEnabled(m), NEW a, InRamRange(a)
  PROVE  MemoryCell(m, 0, a) = RamCell(a)
<1>1. InRam(m, a) /\ ~(a < 57344)
  BY DEF InRam, RamEnabled, InRamRange
<1>2. StoreOf(0) = "none"
  BY DEF StoreOf
<1> HIDE DEF InRam
<1> QED BY <1>1, <1>2 DEF MemoryCell, RamCell

\* The stack is in page 0.
LEMMA Page0 == 0 % 16 = 0
BY Z3

\* A read of the RAM gives its cell and changes nothing.
LEMMA RamRead ==
  ASSUME NEW m, RamEnabled(m), NEW a, InRamRange(a)
  PROVE  MCU_Read(m, 0, a) = [m |-> m, v |-> Cell(m.mem, RamCell(a))]
<1>1. MemoryCell(m, 0, a) = RamCell(a) /\ RamCell(a)[1] = "ram"
  BY RamCellOf DEF RamCell
<1>2. ~CardProbe(m, 0, a)
  BY DEF CardProbe
<1>3. ~(a < 32768)
  BY DEF InRamRange
<1>4. 0 \notin 1..4 /\ "ram" # "none"
  OBVIOUS
<1> QED BY <1>1, <1>2, <1>3, <1>4, Page0 DEF MCU_Read

\* A byte is its own low byte.
LEMMA ByteOfByte == \A x \in Nat : x < 256 => x % BYTE = x
BY Z3 DEF BYTE

\* A write to the RAM changes its cell and nothing else.
LEMMA RamWrite ==
  ASSUME NEW m, RamEnabled(m), NEW a, InRamRange(a), NEW x \in Nat, x < 256
  PROVE  MCU_Write(m, 0, a, x) = [m EXCEPT !.mem = Put(@, RamCell(a), x)]
<1>1. MemoryCell(m, 0, a) = RamCell(a) /\ RamCell(a)[1] = "ram"
  BY RamCellOf DEF RamCell
<1>2. x % BYTE = x
  BY ByteOfByte
<1>3. PICK c : c = MemoryCell(m, 0, a)
  OBVIOUS
<1>4. 0 \in {0, 10, 12, 14} /\ c[1] # "none"
  BY <1>1, <1>3
<1>5. PICK y : y = x % BYTE
  OBVIOUS
<1>6. a # 62465 /\ a # 62466 /\ a \notin 62468..62469 /\ ~(61440 <= a /\ a < 62464)
  BY DEF InRamRange
<1>7. MCU_Write(m, 0, a, x) = [m EXCEPT !.mem = Put(@, c, y)]
  BY <1>3, <1>4, <1>5, <1>6, Page0 DEF MCU_Write
<1> QED BY <1>1, <1>2, <1>3, <1>5, <1>7

\* A word at an even address lies there.
LEMMA EvenSame == \A a \in Nat : a % 2 = 0 => Even(a) = a
BY DEF Even

\* A word of the RAM, read.
LEMMA RamRead16 ==
  ASSUME NEW m, RamEnabled(m), NEW a, InRamRange(a), InRamRange(a + 1), a % 2 = 0
  PROVE  Read16(m, 0, a) = [m |-> m, v |-> RamWord(m.mem, a)]
<1>1. Even(a) = a
  BY EvenSame DEF InRamRange
<1>2. MCU_Read(m, 0, a) = [m |-> m, v |-> Cell(m.mem, RamCell(a))]
  BY RamRead
<1>3. MCU_Read(m, 0, a + 1) = [m |-> m, v |-> Cell(m.mem, RamCell(a + 1))]
  BY RamRead
<1> QED BY <1>1, <1>2, <1>3 DEF Read16, ReadBehind, Joined, RamWord

\* A word of the RAM, written.
LEMMA RamWrite16 ==
  ASSUME NEW m, IsMachine(m), RamEnabled(m), NEW a, InRamRange(a), InRamRange(a + 1), a % 2 = 0,
         NEW x \in Nat, x < WORD
  PROVE  Write16(m, 0, a, x) = [m EXCEPT !.mem = PutWord(@, a, x)]
<1>1. Even(a) = a
  BY EvenSame DEF InRamRange
<1>2. PICK l \in Nat, h \in Nat : LowByte(x) = l /\ HighByte(x) = h /\ l < 256 /\ h < 256
  BY Halves
<1>3. PICK m1 : m1 = [m EXCEPT !.mem = Put(@, RamCell(a), h)]
  OBVIOUS
<1>4. MCU_Write(m, 0, a, h) = m1
  BY <1>2, <1>3, RamWrite
<1>5. m1.dev = m.dev /\ m1.mem = Put(m.mem, RamCell(a), h)
  BY <1>3 DEF IsMachine
<1>6. RamEnabled(m1)
  BY <1>5 DEF RamEnabled
<1>7. MCU_Write(m1, 0, a + 1, l) = [m1 EXCEPT !.mem = Put(@, RamCell(a + 1), l)]
  BY <1>2, <1>6, RamWrite
<1>8. [m1 EXCEPT !.mem = Put(@, RamCell(a + 1), l)] = [m EXCEPT !.mem = Put(Put(@, RamCell(a), h), RamCell(a + 1), l)]
  BY <1>3, <1>5 DEF IsMachine
<1> QED BY <1>1, <1>2, <1>4, <1>7, <1>8 DEF Write16, PutWord

\* A word reads as it was written, and the other words as before.
LEMMA WordOfPut ==
  ASSUME NEW f, NEW a \in Nat, a % 2 = 0, NEW b \in Nat, b % 2 = 0, NEW x \in Nat, x < WORD
  PROVE  RamWord(PutWord(f, a, x), b) = IF a = b THEN x ELSE RamWord(f, b)
<1>1. PICK l \in Nat, h \in Nat : LowByte(x) = l /\ HighByte(x) = h /\ x = 256 * h + l
  BY Halves
<1>2. /\ RamCell(a) # RamCell(a + 1) /\ RamCell(b) # RamCell(a + 1) /\ RamCell(b + 1) # RamCell(a)
      /\ RamCell(a) = RamCell(b) <=> a = b
      /\ RamCell(a + 1) = RamCell(b + 1) <=> a = b
  BY DEF RamCell
<1>3. /\ Cell(PutWord(f, a, x), RamCell(b)) = IF a = b THEN h ELSE Cell(f, RamCell(b))
      /\ Cell(PutWord(f, a, x), RamCell(b + 1)) = IF a = b THEN l ELSE Cell(f, RamCell(b + 1))
  BY <1>1, <1>2, CellOfPut DEF PutWord
<1> QED BY <1>1, <1>3 DEF RamWord, BYTE

\* The machine has its stack pointer at a, and the RAM is on.
StackAt(m, a) ==
  /\ IsMachine(m) /\ RamEnabled(m)
  /\ m.r \in [0..7 -> Nat] /\ m.r[7] = a

\* A place the stack pointer can have while the stack is in the RAM.
InStack(a) == a \in Nat /\ a % 2 = 0 /\ 64384 <= a /\ a <= 65408
IsWord(x)  == x \in Nat /\ x < WORD

\* A word pushed at a, and the pointer moved back above a popped one.
Under(m, a, x) == [m EXCEPT !.r = [@ EXCEPT ![7] = a - 2], !.mem = PutWord(@, a - 2, x)]
Above(m, a)    == [m EXCEPT !.r = [@ EXCEPT ![7] = a + 2]]

\* The stack pointer does not wrap on its way down.
LEMMA Lowered ==
  \A a \in Nat : 2 <= a /\ a < WORD => (a + (-2)) % WORD = a - 2
<1>1. \A a \in Nat : a < 65536 => a % 65536 = a
  BY Z3
<1> QED BY <1>1 DEF WORD

\* The stack pointer does not wrap on its way up.
LEMMA Raised == \A a \in Nat : a + 2 < WORD => (a + 2) % WORD = a + 2
<1>1. \A a \in Nat : a < 65536 => a % 65536 = a
  BY Z3
<1> QED BY <1>1 DEF WORD

\* The three words between the two ends of a context are in the stack.
LEMMA ContextInStack ==
  \A a : InStack(a) /\ InStack(a - 6) =>
    /\ InStack(a - 2) /\ InStack(a - 4)
    /\ (a - 2) - 2 = a - 4 /\ (a - 4) - 2 = a - 6
    /\ (a - 6) + 2 = a - 4 /\ (a - 4) + 2 = a - 2 /\ (a - 2) + 2 = a /\ (a - 6) + 4 = a - 2
<1>1. \A a \in Nat : a % 2 = 0 => (a - 2) % 2 = 0 /\ (a - 4) % 2 = 0
  BY Z3
<1> QED BY <1>1 DEF InStack

\* A push lowers the pointer by two and stores the word there.
LEMMA PushWord ==
  ASSUME NEW m, NEW a, InStack(a), InStack(a - 2), StackAt(m, a), NEW x, IsWord(x)
  PROVE  Push(m, x) = Under(m, a, x) /\ StackAt(Under(m, a, x), a - 2)
<1>1. m.r[7] = a /\ (a + (-2)) % WORD = a - 2
  BY Lowered DEF StackAt, InStack, WORD
<1>2. PICK m1 : m1 = AddReg(m, 7, -2)
  BY Zenon
<1>3. m1 = [m EXCEPT !.r[7] = a - 2]
  BY <1>1, <1>2 DEF AddReg
<1>4. m1.mem = m.mem /\ m1.dev = m.dev /\ m1.r = [m.r EXCEPT ![7] = a - 2] /\ IsMachine(m1)
  BY <1>3 DEF StackAt, IsMachine
<1>5. m1.r[7] = a - 2 /\ m1.r \in [0..7 -> Nat] /\ RamEnabled(m1)
  BY <1>4 DEF StackAt, RamEnabled, InStack
<1>6. InRamRange(a - 2) /\ InRamRange((a - 2) + 1) /\ a - 2 \in Nat /\ (a - 2) % 2 = 0
  BY DEF InRamRange, InStack
<1>7. Push(m, x) = [m1 EXCEPT !.mem = PutWord(@, a - 2, x)]
  <2>1. Push(m, x) = Write16(m1, 0, a - 2, x)
    BY <1>2, <1>5 DEF Push, Top
  <2>2. x \in Nat /\ x < WORD
    BY DEF IsWord
  <2> QED BY <2>1, <2>2, <1>4, <1>5, <1>6, RamWrite16
<1>8. Push(m, x) = Under(m, a, x)
  BY <1>3, <1>4, <1>7 DEF StackAt, IsMachine, Under
<1>9. PICK p : p = Push(m, x)
  BY Zenon
<1>10. p.r = m1.r /\ p.dev = m1.dev /\ IsMachine(p)
  BY <1>4, <1>7, <1>9 DEF IsMachine
<1>11. StackAt(p, a - 2)
  BY <1>5, <1>10 DEF StackAt, RamEnabled
<1> QED BY <1>8, <1>9, <1>11

\* A pop gives the word under the pointer and raises it by two.
LEMMA PopWord ==
  ASSUME NEW h, NEW a, InStack(a), InStack(a + 2), StackAt(h, a)
  PROVE  Pop(h) = [m |-> Above(h, a), v |-> RamWord(h.mem, a)] /\ StackAt(Above(h, a), a + 2)
<1>1. InRamRange(a) /\ InRamRange(a + 1) /\ a % 2 = 0
  BY DEF InRamRange, InStack
<1>2. h.r[7] = a /\ RamEnabled(h)
  BY DEF StackAt
<1>3. Read16(h, 0, a) = [m |-> h, v |-> RamWord(h.mem, a)]
  BY <1>1, <1>2, RamRead16
<1>4. (a + 2) % WORD = a + 2 /\ a \in Nat
  BY Raised DEF WORD, InStack
<1>5. PICK h1 : h1 = Above(h, a)
  BY Zenon
<1>6. AddReg(h, 7, 2) = h1
  BY <1>2, <1>4, <1>5 DEF AddReg, StackAt, IsMachine, Above
<1>7. Pop(h) = [m |-> h1, v |-> RamWord(h.mem, a)]
  BY <1>2, <1>3, <1>6 DEF Pop, Popped
<1>8. h1.r = [h.r EXCEPT ![7] = a + 2] /\ h1.dev = h.dev /\ IsMachine(h1)
  BY <1>5 DEF StackAt, IsMachine, Above
<1>9. h1.r[7] = a + 2 /\ h1.r \in [0..7 -> Nat]
  BY <1>4, <1>8 DEF StackAt
<1>10. StackAt(h1, a + 2)
  BY <1>2, <1>8, <1>9 DEF StackAt, RamEnabled
<1> QED BY <1>5, <1>7, <1>10

\* The words at a, a + 2 and a + 4 are a context.
InContext(f, a, at, cp, sr) ==
  RamWord(f, a) = sr /\ RamWord(f, a + 2) = cp /\ RamWord(f, a + 4) = at

\* PushContext leaves sr, cp and pc in three words, sr on top, and changes
\* neither the status register nor a register of the devices.
LEMMA ContextPushed ==
  ASSUME NEW m, NEW a, InStack(a), InStack(a - 6), StackAt(m, a),
         IsWord(m.pc), IsWord(m.cp), IsWord(m.sr)
  PROVE  /\ StackAt(PushContext(m), a - 6)
         /\ InContext(PushContext(m).mem, a - 6, m.pc, m.cp, m.sr)
         /\ PushContext(m).sr = m.sr /\ PushContext(m).dev = m.dev
<1>0. InStack(a - 2) /\ InStack(a - 4) /\ (a - 2) - 2 = a - 4 /\ (a - 4) - 2 = a - 6
  BY ContextInStack, Zenon
<1>1. PICK m1 : m1 = Under(m, a, m.pc)
  BY Zenon
<1>2. Push(m, m.pc) = m1 /\ StackAt(m1, a - 2)
  BY <1>0, <1>1, PushWord, Zenon
<1>3. m1.cp = m.cp /\ m1.sr = m.sr /\ m1.dev = m.dev /\ m1.mem = PutWord(m.mem, a - 2, m.pc)
  BY <1>1 DEF StackAt, IsMachine, Under
<1>4. PICK m2 : m2 = Under(m1, a - 2, m.cp)
  BY Zenon
<1>5. Push(m1, m.cp) = m2 /\ StackAt(m2, (a - 2) - 2)
  BY <1>0, <1>2, <1>4, PushWord, Zenon
<1>6. m2.sr = m1.sr /\ m2.dev = m1.dev /\ m2.mem = PutWord(m1.mem, (a - 2) - 2, m.cp)
  BY <1>2, <1>4 DEF StackAt, IsMachine, Under
<1>8. PICK m3 : m3 = Under(m2, a - 4, m.sr)
  BY Zenon
<1>9. StackAt(m2, a - 4)
  BY <1>0, <1>5, Zenon
<1>10. Push(m2, m.sr) = m3 /\ StackAt(m3, (a - 4) - 2)
  BY <1>0, <1>8, <1>9, PushWord, Zenon
<1>11. m3.sr = m2.sr /\ m3.dev = m2.dev /\ m3.mem = PutWord(m2.mem, (a - 4) - 2, m.sr)
  BY <1>8, <1>9 DEF StackAt, IsMachine, Under
<1>12. PushContext(m) = m3
  BY <1>2, <1>3, <1>5, <1>6, <1>10, Zenon DEF PushContext
<1>13. PICK f0, f1, f2, f3 :
         f0 = m.mem /\ f1 = PutWord(f0, a - 2, m.pc) /\ f2 = PutWord(f1, a - 4, m.cp) /\ f3 = PutWord(f2, a - 6, m.sr)
  BY Zenon
<1>14. m3.mem = f3
  BY <1>0, <1>3, <1>6, <1>11, <1>13, Zenon
<1>15. InContext(f3, a - 6, m.pc, m.cp, m.sr)
  <2>1. PICK at \in Nat, cp \in Nat, sr \in Nat :
          at = m.pc /\ cp = m.cp /\ sr = m.sr /\ at < WORD /\ cp < WORD /\ sr < WORD
    BY DEF IsWord
  <2>2. PICK a2 \in Nat, a4 \in Nat, a6 \in Nat :
          /\ a2 = a - 2 /\ a4 = a - 4 /\ a6 = a - 6
          /\ a2 % 2 = 0 /\ a4 % 2 = 0 /\ a6 % 2 = 0
          /\ a2 # a4 /\ a2 # a6 /\ a4 # a6 /\ a6 + 2 = a4 /\ a6 + 4 = a2
    BY <1>0 DEF InStack
  <2>3. f1 = PutWord(f0, a2, at) /\ f2 = PutWord(f1, a4, cp) /\ f3 = PutWord(f2, a6, sr)
    BY <1>13, <2>1, <2>2, Zenon
  <2>4. RamWord(f1, a2) = at
    BY <2>1, <2>2, <2>3, WordOfPut
  <2>5. RamWord(f2, a2) = at /\ RamWord(f2, a4) = cp
    BY <2>1, <2>2, <2>3, <2>4, WordOfPut
  <2>6. RamWord(f3, a2) = at /\ RamWord(f3, a4) = cp /\ RamWord(f3, a6) = sr
    BY <2>1, <2>2, <2>3, <2>5, WordOfPut
  <2> QED BY <2>1, <2>2, <2>6 DEF InContext
<1>16. m3.sr = m.sr /\ m3.dev = m.dev
  BY <1>3, <1>6, <1>11, Zenon
<1> QED BY <1>0, <1>10, <1>12, <1>14, <1>15, <1>16, Zenon

\* What StartVector does after the push leaves the stack and the devices
\* alone; a level other than -1 becomes the mask.
LEMMA VectorKeepsContext ==
  ASSUME NEW m, NEW v, NEW level, NEW a, StackAt(PushContext(m), a)
  PROVE  /\ StackAt(StartVector(m, v, level), a)
         /\ StartVector(m, v, level).mem = PushContext(m).mem
         /\ StartVector(m, v, level).dev = PushContext(m).dev
         /\ level >= 0 => StartVector(m, v, level).sr = WithMask(WithoutTrace(PushContext(m).sr), level)
<1>1. PICK k, c, p, j : k = PushContext(m) /\ c = VectorPage(m, v) /\ p = VectorPc(m, v) /\ j = JumpTo(k, c, p)
  BY Zenon
<1>2. StackAt(k, a)
  BY <1>1
<1>3. j.mem = k.mem /\ j.r = k.r /\ j.dev = k.dev /\ j.sr = k.sr /\ IsMachine(j)
  BY <1>1, <1>2 DEF JumpTo, StackAt, IsMachine
<1>4. PICK q : q = IF level >= 0 THEN WithMask(WithoutTrace(j.sr), level) ELSE WithoutTrace(j.sr)
  BY Zenon
<1>5. StartVector(m, v, level) = [j EXCEPT !.sleep = FALSE, !.sr = q]
  BY <1>1, <1>3, <1>4 DEF StartVector, IsMachine
<1>6. PICK s : s = StartVector(m, v, level)
  BY Zenon
<1>7. s.mem = j.mem /\ s.r = j.r /\ s.dev = j.dev /\ s.sr = q /\ IsMachine(s)
  BY <1>3, <1>5, <1>6 DEF IsMachine
<1>8. StackAt(s, a)
  BY <1>2, <1>3, <1>7 DEF StackAt, RamEnabled
<1>9. level >= 0 => s.sr = WithMask(WithoutTrace(k.sr), level)
  BY <1>3, <1>4, <1>7, Zenon
<1> QED BY <1>1, <1>3, <1>6, <1>7, <1>8, <1>9, Zenon

\* The machine that goes on with a context.
Resumed(h, a, at, cp, sr) ==
  [h EXCEPT !.pc = at, !.cp = cp, !.sr = sr, !.r = [@ EXCEPT ![7] = a], !.ex_ignore = TRUE]

\* RTE takes the three words back in the opposite order.
LEMMA ContextPopped ==
  ASSUME NEW h, NEW a, InStack(a), InStack(a - 6), StackAt(h, a - 6),
         NEW at, NEW cp, NEW sr, IsWord(at), IsWord(sr), cp \in Nat, cp < BYTE,
         InContext(h.mem, a - 6, at, cp, sr)
  PROVE  RTE(h) = Resumed(h, a, at, cp, sr)
<1>0. /\ InStack(a - 2) /\ InStack(a - 4)
      /\ (a - 6) + 2 = a - 4 /\ (a - 4) + 2 = a - 2 /\ (a - 2) + 2 = a /\ (a - 6) + 4 = a - 2
  BY ContextInStack, Zenon
<1>1. RamWord(h.mem, a - 6) = sr /\ RamWord(h.mem, a - 4) = cp /\ RamWord(h.mem, a - 2) = at
  BY <1>0, Zenon DEF InContext
<1>2. PICK h0, h1 : h0 = Above(h, a - 6) /\ h1 = [h0 EXCEPT !.sr = sr]
  BY Zenon
<1>3. Pop(h) = [m |-> h0, v |-> sr] /\ StackAt(h0, a - 4)
  BY <1>0, <1>1, <1>2, PopWord, Zenon
<1>4. h0.mem = h.mem
  BY <1>2 DEF StackAt, IsMachine, Above
<1>5. PopStatus(Pop(h)) = h1
  <2>1. Pop(h).m = h0 /\ Pop(h).v = sr
    BY <1>3
  <2> QED BY <1>2, <2>1, Zenon DEF PopStatus
<1>6. StackAt(h1, a - 4) /\ h1.mem = h0.mem
  <2>1. h1.dev = h0.dev /\ h1.mem = h0.mem /\ h1.r = h0.r /\ IsMachine(h1)
    BY <1>2, <1>3 DEF StackAt, IsMachine
  <2> QED BY <1>3, <2>1 DEF StackAt, RamEnabled
<1>7. PICK h2, h3 : h2 = Above(h1, a - 4) /\ h3 = Above(h2, a - 2)
  BY Zenon
<1>8. Pop(h1) = [m |-> h2, v |-> cp] /\ StackAt(h2, a - 2)
  BY <1>0, <1>1, <1>4, <1>6, <1>7, PopWord, Zenon
<1>9. h2.mem = h1.mem
  BY <1>6, <1>7 DEF StackAt, IsMachine, Above
<1>10. Pop(h2) = [m |-> h3, v |-> at]
  <2>1. RamWord(h2.mem, a - 2) = at
    BY <1>1, <1>4, <1>6, <1>9
  <2> QED BY <1>0, <1>7, <1>8, <2>1, PopWord, Zenon
<1>11. LowByte(cp) = cp
  BY ByteOfByte DEF LowByte, BYTE
<1>12. at % WORD = at
  <2>1. \A b \in Nat : b < 65536 => b % 65536 = b
    BY Z3
  <2> QED BY <2>1 DEF IsWord, WORD
<1>13. PopReturn(h1) = [h3 EXCEPT !.cp = cp, !.pc = at]
  <2>1. PopReturn(h1) = ReturnTo(Pop(h1), Pop(h2))
    BY <1>8 DEF PopReturn, PopSecond
  <2>2. ReturnTo(Pop(h1), Pop(h2)) = JumpTo(h3, LowByte(cp), at)
    BY <1>8, <1>10 DEF ReturnTo
  <2> QED BY <1>11, <1>12, <2>1, <2>2, Zenon DEF JumpTo
<1>14. RTE(h) = [[h3 EXCEPT !.cp = cp, !.pc = at] EXCEPT !.ex_ignore = TRUE]
  BY <1>5, <1>13, Zenon DEF RTE
<1>15. /\ h0 = [h EXCEPT !.r = [@ EXCEPT ![7] = a - 4]]
       /\ h2 = [h1 EXCEPT !.r = [@ EXCEPT ![7] = a - 2]]
       /\ h3 = [h2 EXCEPT !.r = [@ EXCEPT ![7] = a]]
  BY <1>0, <1>2, <1>7, Zenon DEF Above
<1>16. h1.r = [h.r EXCEPT ![7] = a - 4] /\ h2.r = [h.r EXCEPT ![7] = a - 2] /\ h3.r = [h.r EXCEPT ![7] = a]
  BY <1>2, <1>15 DEF StackAt, IsMachine
<1>17. h3 = [h EXCEPT !.r = h3.r, !.sr = sr]
  BY <1>2, <1>15 DEF StackAt, IsMachine
<1>18. PICK q : q = [h.r EXCEPT ![7] = a]
  BY Zenon
<1>19. h3 = [h EXCEPT !.r = q, !.sr = sr]
  BY <1>16, <1>17, <1>18, Zenon
<1>20. RTE(h) = [h EXCEPT !.pc = at, !.cp = cp, !.sr = sr, !.r = q, !.ex_ignore = TRUE]
  BY <1>14, <1>19 DEF StackAt, IsMachine
<1> QED BY <1>18, <1>20, Zenon DEF Resumed

\* The three words of the context are as they were.
SameWords(f, g, a) == \A b \in {a, a + 2, a + 4} : RamWord(f, b) = RamWord(g, b)

\* Whatever is interrupted, and at whatever level: when the handler leaves
\* the stack pointer and the three words of its context as
\* MCU_Interrupt_StartVector left them, MCU_Jump_RTE gives back the program
\* counter, the page, the whole status register (mask and flags) and the stack
\* pointer of the interrupted program, and changes nothing else.
THEOREM ContextComesBack ==
  ASSUME NEW m, NEW a, InStack(a), InStack(a - 6), StackAt(m, a),
         IsWord(m.pc), IsWord(m.sr), m.cp \in Nat, m.cp < BYTE,
         NEW v, NEW level,
         NEW h, StackAt(h, StartVector(m, v, level).r[7]),
         SameWords(h.mem, StartVector(m, v, level).mem, h.r[7])
  PROVE  RTE(h) = Resumed(h, m.r[7], m.pc, m.cp, m.sr)
<1> DEFINE s == StartVector(m, v, level)
           k == PushContext(m)
<1>1. IsWord(m.cp)
  BY DEF IsWord, BYTE, WORD
<1>2. StackAt(k, a - 6) /\ InContext(k.mem, a - 6, m.pc, m.cp, m.sr)
  BY <1>1, ContextPushed
<1>3. StackAt(s, a - 6) /\ s.mem = k.mem
  BY <1>2, VectorKeepsContext
<1> HIDE DEF s, k
<1>4. s.r[7] = a - 6 /\ m.r[7] = a
  BY <1>3 DEF StackAt
<1>5. StackAt(h, a - 6) /\ h.r[7] = a - 6
  BY <1>4 DEF StackAt, s
<1>6. InContext(h.mem, a - 6, m.pc, m.cp, m.sr)
  <2>1. SameWords(h.mem, k.mem, a - 6)
    BY <1>3, <1>5 DEF s
  <2> QED BY <2>1, <1>2 DEF SameWords, InContext
<1>7. PICK at, cp, sr : at = m.pc /\ cp = m.cp /\ sr = m.sr
  BY Zenon
<1>8. IsWord(at) /\ IsWord(sr) /\ cp \in Nat /\ cp < BYTE /\ InContext(h.mem, a - 6, at, cp, sr)
  BY <1>6, <1>7, Zenon
<1>9. StackAt(h, a - 6)
  BY <1>5, Zenon
<1>10. RTE(h) = Resumed(h, a, at, cp, sr)
  BY <1>8, <1>9, ContextPopped, Zenon
<1> QED BY <1>4, <1>7, <1>10, Zenon
-----------------------------------------------------------------------------
(* What is answered is masked until its handler lowers the mask.           *)

\* The priority registers hold numbers, and the same ones in two devices.
Priorities == {DEV_IPRA, DEV_IPRB, DEV_IPRC, DEV_IPRD}
PrioritiesTyped(d) == \A reg \in Priorities : Register(d, reg) \in Nat
SamePriorities(d, e) == \A reg \in Priorities : Register(d, reg) = Register(e, reg)

\* Every source has a group of three bits in one of the four registers.
LEMMA GroupOfSource ==
  ASSUME NEW i \in 1 .. Len(Sources)
  PROVE  PriorityOf[Sources[i]][1] \in Priorities /\ PriorityOf[Sources[i]][2] \in {1, 16}
<1>1. i \in {1, 2, 3, 4, 5, 6, 7, 8}
  BY DEF Sources
<1>2. Sources[i] \in {"IRQ0", "FRT0_OCIA", "FRT1_OCIA", "FRT2_OCIA", "TIMER_CMIA", "ANALOG",
                      "UART_RX", "UART_TX"}
  BY <1>1 DEF Sources
<1> QED BY <1>2 DEF PriorityOf, Priorities

\* So its level has three bits, and depends on the priorities alone.
LEMMA LevelOfSource ==
  ASSUME NEW i \in 1 .. Len(Sources), NEW d, PrioritiesTyped(d)
  PROVE  /\ Level(d, Sources[i]) \in Nat /\ Level(d, Sources[i]) < 8
         /\ \A e : SamePriorities(e, d) => Level(e, Sources[i]) = Level(d, Sources[i])
<1>1. PICK reg \in Priorities, unit \in {1, 16} :
        PriorityOf[Sources[i]][1] = reg /\ PriorityOf[Sources[i]][2] = unit
  BY GroupOfSource
<1>2. PICK r \in Nat : Register(d, reg) = r
  BY DEF PrioritiesTyped
<1>3. \A e : Level(e, Sources[i]) = (Register(e, reg) \div unit) % 8
  BY <1>1 DEF Level
<1>4. (r \div 1) % 8 \in 0 .. 7 /\ (r \div 16) % 8 \in 0 .. 7
  BY Z3
<1>5. \A e : SamePriorities(e, d) => Register(e, reg) = r
  BY <1>2 DEF SamePriorities
<1>6. (Register(d, reg) \div unit) % 8 \in 0 .. 7
  BY <1>2, <1>4
<1> QED BY <1>2, <1>3, <1>5, <1>6

\* A level put in the place of the mask is the mask.
LEMMA MaskOfWithMask ==
  ASSUME NEW sr \in Nat, NEW level \in Nat, level < 8
  PROVE  MaskOf(WithMask(WithoutTrace(sr), level)) = level
<1>1. PICK x \in Nat : x = WithoutTrace(sr)
  BY Z3 DEF WithoutTrace
<1>2. PICK q \in Nat, l \in Nat : x = 256 * q + l /\ l < 256 /\ q = x \div 256
  BY Z3
<1>3. PICK k \in Nat, mask \in Nat : q = 8 * k + mask /\ mask < 8 /\ mask = q % 8
  BY Z3
<1>4. WithMask(x, level) = 256 * (8 * k + level) + l
  BY <1>2, <1>3 DEF WithMask, MaskOf
<1>5. \A n \in Nat : (256 * n + l) \div 256 = n
  BY <1>2, Z3
<1>6. (8 * k + level) % 8 = level
  BY Z3
<1>7. (256 * (8 * k + level) + l) \div 256 = 8 * k + level
  <2>1. PICK n \in Nat : n = 8 * k + level
    OBVIOUS
  <2> QED BY <1>5, <2>1, Zenon
<1>8. MaskOf(WithMask(x, level)) = level
  BY <1>4, <1>6, <1>7, Zenon DEF MaskOf
<1> QED BY <1>1, <1>8

\* The first of the sources that may be answered is one of them.
LEMMA FirstIsOne ==
  ASSUME NEW K \in SUBSET Nat, K # {}
  PROVE  First(K) \in K
<1> DEFINE Less == {pair \in Nat \X Nat : pair[1] < pair[2]}
<1>1. IsWellFoundedOn(Less, Nat)
  BY NatLessThanWellFounded DEF OpToRel
<1> HIDE DEF Less
<1>2. PICK i \in K : \A j \in K : <<j, i>> \notin Less
  BY <1>1, WFMin
<1>3. \A j \in K : j \in Nat /\ i \in Nat /\ ~ (j < i)
  BY <1>2 DEF Less
<1>4. \A j \in K : i <= j
  BY <1>3
<1> QED BY <1>4 DEF First

\* When MCU_Interrupt_Handle answers a source, whichever that is, the mask
\* rises to its level, and as long as the mask is not lowered below that and
\* the priority registers stay, the source is not answered again, although
\* its request stays up (mcu.cpp:577 and mcu.h:605).
THEOREM AnsweredStaysOut ==
  ASSUME NEW m, NEW a, InStack(a), InStack(a - 6), StackAt(m, a),
         IsWord(m.pc), IsWord(m.sr), m.cp \in Nat, m.cp < BYTE,
         PrioritiesTyped(m.dev),
         m.trapa \cap 0..8 = {}, Acceptable(m.dev, MaskOf(m.sr)) # {},
         NEW d, SamePriorities(d, m.dev),
         NEW mask \in Nat, mask >= MaskOf(Interrupt_Handle(m).sr)
  PROVE  /\ Interrupt_Handle(m).dev = m.dev
         /\ MaskOf(Interrupt_Handle(m).sr) > MaskOf(m.sr)
         /\ First(Acceptable(m.dev, MaskOf(m.sr))) \in Acceptable(m.dev, MaskOf(m.sr))
         /\ First(Acceptable(m.dev, MaskOf(m.sr))) \notin Acceptable(d, mask)
<1> DEFINE ready == Acceptable(m.dev, MaskOf(m.sr))
           i == First(ready)
           level == Level(m.dev, Sources[i])
           s == StartVector(m, Vector[Sources[i]], level)
<1>1. i \in ready
  <2>1. ready \in SUBSET Nat /\ ready # {}
    BY DEF Acceptable
  <2> HIDE DEF ready
  <2> QED BY <2>1, FirstIsOne
<1>2. i \in 1 .. Len(Sources) /\ level > MaskOf(m.sr)
  BY <1>1 DEF Acceptable
<1>3. Interrupt_Handle(m) = s
  BY DEF Interrupt_Handle, Answer, Take
<1> HIDE DEF ready, i
<1>4. level \in Nat /\ level < 8 /\ Level(d, Sources[i]) = level
  BY <1>2, LevelOfSource
<1> HIDE DEF level
<1>5. IsWord(m.cp)
  BY DEF IsWord, BYTE, WORD
<1>6. StackAt(PushContext(m), a - 6) /\ PushContext(m).sr = m.sr /\ PushContext(m).dev = m.dev
  BY <1>5, ContextPushed, Zenon
<1>7. s.dev = m.dev /\ s.sr = WithMask(WithoutTrace(m.sr), level)
  <2>1. level >= 0
    BY <1>4
  <2>2. s.dev = PushContext(m).dev /\ (level >= 0 => s.sr = WithMask(WithoutTrace(PushContext(m).sr), level))
    BY <1>6, VectorKeepsContext, Zenon
  <2> QED BY <1>6, <2>1, <2>2, Zenon
<1> HIDE DEF s
<1>8. MaskOf(s.sr) = level
  BY <1>4, <1>7, MaskOfWithMask DEF IsWord
<1>9. i \notin Acceptable(d, mask)
  <2>1. ~(Level(d, Sources[i]) > mask)
    BY <1>3, <1>4, <1>8
  <2> QED BY <2>1 DEF Acceptable
<1>10. s.dev = m.dev /\ MaskOf(s.sr) > MaskOf(m.sr)
  BY <1>2, <1>7, <1>8 DEF level
<1> QED BY <1>1, <1>3, <1>9, <1>10 DEF ready, i
=============================================================================
