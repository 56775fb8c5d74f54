------------------------------- MODULE McuCpu -------------------------------
(***************************************************************************)
(* The emulated MCU: its memory map (MCU_Read, MCU_Write), its registers,  *)
(* the handling of interrupts (mcu.cpp, mcu.h) and its instructions        *)
(* (mcu_opcodes.cpp).                                                      *)
(*                                                                         *)
(* A state of the machine is a record m.  Instruction(m) is the machine    *)
(* after the instruction at cp:pc; a read gives the value together with    *)
(* the machine, as reading a device may change it.  MCU_ErrorTrap only     *)
(* writes a line of the log, and nothing reads exception_pending: both are *)
(* left out, and an instruction that traps does nothing more.              *)
(***************************************************************************)
EXTENDS McuDevices, McuLcd, PcmRegisters

CONSTANTS
  Rom1, Rom2,     \* the firmware images: for each image, its bytes by address
  CYCLES          \* cycles of an instruction

Byte(f, a) == IF a \in DOMAIN f THEN f[a] ELSE 0
-----------------------------------------------------------------------------
(* The memory map: 16 pages of 64 KB.  Page 0 holds the first ROM, RAM and *)
(* the devices, pages 1 to 4 the second ROM, the others battery backed     *)
(* memory and the card.  mem keeps the cells by <<store, offset>>.         *)

InRam(m, a) == 64384 <= a /\ a < 65408 /\ Register(m.dev, DEV_RAME) >= 128
Half(a) == a % 32768

StoreOf(page) == CASE page \in {10, 11} -> "sram" [] page \in {12, 13} -> "nvram"
                   [] page \in {14, 15} -> "card" [] OTHER -> "none"

\* The memory cell of an address, if it is one.
MemoryCell(m, page, a) ==
  CASE page = 0 /\ InRam(m, a)                  -> <<"ram", a - 64384>>
    [] page = 0 /\ 32768 <= a /\ a < 57344      -> <<"sram", Half(a)>>
    [] StoreOf(page) # "none"                   -> <<StoreOf(page), Half(a)>>
    [] OTHER                                    -> <<"none", 0>>

\* The routine of the firmware that probes for a card always finds the same.
CardProbe(m, page, a) ==
  page \in {14, 15} /\ Half(a) \in {0, 32767} /\ m.cp = 0 /\ m.pc = 14115

\* The devices behind page 0; of the rest an address reads as 255.
AfterDevice(m, got) == [m |-> [m EXCEPT !.dev = got.d], v |-> got.v]
AfterPcm(m, got) ==
  [m |-> [m EXCEPT !.pcm = got.p, !.dev = IF got.release THEN SetGAInt(@, 5, FALSE) ELSE @],
   v |-> got.v]

DeviceAt(m, a) ==
  LET Gives(m1, x) == [m |-> m1, v |-> x]
  IN  CASE a >= 65408 -> AfterDevice(m, DeviceRead(m.dev, a % 128))
        [] 61440 <= a /\ a < 62464 -> AfterPcm(m, PCM_Read(m.pcm, a % 64))
        [] a = 62466 -> Gives([m EXCEPT !.dev = TakeTrigger(@)], m.dev.ga_int_trigger)
        [] OTHER -> Gives(m, 255)

MCU_Read(m, address, a) ==
  LET page == address % 16
      cell == MemoryCell(m, page, a)
      Gives(x) == [m |-> m, v |-> x]
  IN  CASE page = 0 /\ a < 32768 -> Gives(Byte(Rom1[m.image], a))
        [] page \in 1..4         -> Gives(Byte(Rom2[m.image], (page % 4) * WORD + a))
        [] CardProbe(m, page, a) -> Gives(83)
        [] ~CardProbe(m, page, a) /\ cell[1] # "none" -> Gives(Cell(m.mem, cell))
        [] page = 0 /\ a >= 32768 /\ cell[1] = "none" -> DeviceAt(m, a)
        [] OTHER                 -> Gives(255)

\* Only the even pages of the stores can be written.
MCU_Write(m, address, a, value) ==
  LET page == address % 16
      cell == MemoryCell(m, page, a)
      x    == value % BYTE
  IN  CASE cell[1] # "none" /\ page \in {0, 10, 12, 14} -> [m EXCEPT !.mem = Put(@, cell, x)]
        [] page = 0 /\ cell[1] = "none" /\ a >= 65408 ->
             [m EXCEPT !.dev = DeviceWrite(@, a % 128, x, m.pc)]
        [] page = 0 /\ a \in 62468..62469 -> [m EXCEPT !.lcd = LCD_Write(@, a % 2, x)]
        [] page = 0 /\ a = 62465 ->
             [m EXCEPT !.dev.io_sd = x, !.lcd = LCD_Enable(@, x % 2 = 0)]
        [] page = 0 /\ a = 62466 -> [m EXCEPT !.dev.ga_int_enable = 2 * x]
        [] page = 0 /\ 61440 <= a /\ a < 62464 -> [m EXCEPT !.pcm = PCM_Write(@, a % 64, x)]
        [] OTHER -> m

\* Words lie at even addresses, high byte first.
Even(a) == a - (a % 2)

Joined(high, low) == [m |-> low.m, v |-> high.v * BYTE + low.v]
ReadBehind(high, page, a) == Joined(high, MCU_Read(high.m, page, a))
Read16(m, page, a) == ReadBehind(MCU_Read(m, page, Even(a)), page, Even(a) + 1)

Write16(m, page, a, x) ==
  MCU_Write(MCU_Write(m, page, Even(a), HighByte(x)), page, Even(a) + 1, LowByte(x))

Read(m, page, a, siz)     == IF siz = "word" THEN Read16(m, page, a) ELSE MCU_Read(m, page, a)
Write(m, page, a, x, siz) == IF siz = "word" THEN Write16(m, page, a, x) ELSE MCU_Write(m, page, a, x)
-----------------------------------------------------------------------------
(* Fetching, registers, the stack.                                         *)

\* The k-th byte and word of the code from here on, and the machine past n.
CodeAt(m, k) ==
  LET pc == (m.pc + k) % WORD
  IN  IF m.cp = 0 THEN Byte(Rom1[m.image], pc) ELSE Byte(Rom2[m.image], (m.cp % 4) * WORD + pc)
CodeWord(m, k) == CodeAt(m, k) * BYTE + CodeAt(m, k + 1)
Past(m, n) == [m EXCEPT !.pc = (@ + n) % WORD]

SetReg(m, k, x, siz) == [m EXCEPT !.r[k] = Merge(@, x, siz)]
AddReg(m, k, x) == [m EXCEPT !.r[k] = (@ + x) % WORD]

SetFlags(m, f) == [m EXCEPT !.sr = WithFlags(@, f)]
SetZ(m, on) == SetFlags(m, [FlagsOf(m.sr) EXCEPT !.Z = on])
ClearC(m) == SetFlags(m, [FlagsOf(m.sr) EXCEPT !.C = FALSE])
StatusFor(m, x, siz) == SetFlags(m, StatusCommon(FlagsOf(m.sr), x, siz))

PageFor(m, k) == IF k >= 6 THEN m.tp ELSE IF k >= 4 THEN m.ep ELSE m.dp

\* The stack lies in page 0 and grows downwards.
Top(m, x) == Write16(m, 0, m.r[7], x)
Push(m, x) == Top(AddReg(m, 7, -2), x)

Popped(top) == [m |-> AddReg(top.m, 7, 2), v |-> top.v]
Pop(m) == Popped(Read16(m, 0, m.r[7]))

JumpTo(m, cp, pc) == [m EXCEPT !.cp = cp, !.pc = pc % WORD]
-----------------------------------------------------------------------------
(* Reset and interrupts.                                                   *)

VectorPage(m, v) == Byte(Rom1[m.image], 4 * v + 1)
VectorPc(m, v) == Byte(Rom1[m.image], 4 * v + 2) * BYTE + Byte(Rom1[m.image], 4 * v + 3)

\* SC55_Reset: memory and the display's controller stay as they are.
SC55_Reset(m) ==
  [m EXCEPT !.r = [k \in 0..7 |-> 0], !.sr = 1792, !.dp = 0, !.ep = 0, !.tp = 0, !.br = 0,
            !.sleep = FALSE, !.ex_ignore = FALSE, !.trapa = {},
            !.cp = VectorPage(m, 0), !.pc = VectorPc(m, 0),
            !.dev = DevicesReset(m.dev.led_state), !.pcm = PcmReset]

\* The context goes to the stack; a level other than -1 becomes the mask.
PushContext(m) == Push(Push(Push(m, m.pc), m.cp), m.sr)

\* Mutant: the level of what is answered does not become the mask.
StartVectorUnmasked(m, v, level) ==
  [JumpTo(PushContext(m), VectorPage(m, v), VectorPc(m, v)) EXCEPT
     !.sleep = FALSE, !.sr = WithoutTrace(@)]

StartVector(m, v, level) ==
  [JumpTo(PushContext(m), VectorPage(m, v), VectorPc(m, v)) EXCEPT
     !.sleep = FALSE,
     !.sr = IF level >= 0 THEN WithMask(WithoutTrace(@), level) ELSE WithoutTrace(@)]

\* Traps first, then the first source in order whose level is above the mask.
TakeTrap(m, trap) == StartVector([m EXCEPT !.trapa = @ \ {trap}], 16 + trap, -1)
Take(m, source)   == StartVector(m, Vector[source], Level(m.dev, source))
First(numbers)    == CHOOSE i \in numbers : \A j \in numbers : i <= j

Answer(m, traps, sources) ==
  CASE traps # {} -> TakeTrap(m, First(traps))
    [] traps = {} /\ sources # {} -> Take(m, Sources[First(sources)])
    [] OTHER -> m

Interrupt_Handle(m) == Answer(m, m.trapa \cap 0..8, Acceptable(m.dev, MaskOf(m.sr)))

\* The control registers SR, CCR, BR, EP, DP, TP; any other one resets.
ControlRegisterRead(m, k, siz) ==
  LET Gives(x) == [m |-> m, v |-> x]
      one(x) == Gives(IF siz = "word" THEN x * BYTE + x ELSE x)
  IN  CASE k = 0 /\ siz = "word" -> Gives(SrMasked(m.sr))
        [] k = 1 /\ siz = "byte" -> Gives(LowByte(SrMasked(m.sr)))
        [] k = 3                 -> one(m.br)
        [] k = 4                 -> one(m.ep)
        [] k = 5                 -> one(m.dp)
        [] k = 7 /\ siz = "byte" -> Gives(m.tp)
        [] OTHER                 -> [m |-> SC55_Reset(m), v |-> 0]

ControlRegisterWrite(m, k, siz, x) ==
  CASE k = 0 /\ siz = "word" -> [m EXCEPT !.sr = SrMasked(x % WORD)]
    [] k = 1 /\ siz = "byte" -> [m EXCEPT !.sr = SrMasked(Merge(@, x, "byte"))]
    [] k = 3                 -> [m EXCEPT !.br = LowByte(x)]
    [] k = 4                 -> [m EXCEPT !.ep = LowByte(x)]
    [] k = 5                 -> [m EXCEPT !.dp = LowByte(x)]
    [] k = 7 /\ siz = "byte" -> [m EXCEPT !.tp = LowByte(x)]
    [] OTHER                 -> SC55_Reset(m)
=============================================================================
