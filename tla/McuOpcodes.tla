----------------------------- MODULE McuOpcodes -----------------------------
(***************************************************************************)
(* The instructions of the emulated MCU (mcu_opcodes.cpp).  One half of    *)
(* them is a single byte with arguments behind it, the other half an       *)
(* addressing mode followed by an operation (MCU_Operand_General).         *)
(***************************************************************************)
EXTENDS McuCpu

-----------------------------------------------------------------------------
(* Moving registers to and from the stack, calls and jumps.                *)

TopTo(top, k) == SetReg(top.m, k, top.v, "word")

\* From register 0 to 7 a word is popped for each bit of the list; the one
\* for the stack pointer itself is dropped.
LDM(m) ==
  LET list == Bits(CodeAt(m, 0))
      loaded[k \in 0..8] ==
        IF k = 0 THEN Past(m, 1)
        ELSE IF k - 1 \notin list THEN loaded[k - 1]
        ELSE IF k = 8 THEN Pop(loaded[7]).m ELSE TopTo(Pop(loaded[k - 1]), k - 1)
  IN  loaded[8]

\* Mutant: the registers go to the stack in the order in which LDM takes them.
STMUpwards(m) ==
  LET list == Bits(CodeAt(m, 0))
      saved[k \in 0..8] ==
        IF k = 0 THEN Past(m, 1)
        ELSE IF k - 1 \in list THEN Push(saved[k - 1], saved[k - 1].r[k - 1]) ELSE saved[k - 1]
  IN  saved[8]

STM(m) ==
  LET list == Bits(CodeAt(m, 0))
      Save(m1, k) == Push(m1, IF k = 7 THEN (m1.r[7] - 2) % WORD ELSE m1.r[k])
      saved[k \in 0..8] ==
        IF k = 8 THEN Past(m, 1)
        ELSE IF k \in list THEN Save(saved[k + 1], k) ELSE saved[k + 1]
  IN  saved[0]

TRAPA(m) ==
  LET x == CodeAt(m, 0)
  IN  [Past(m, 1) EXCEPT !.trapa = IF x \div 16 = 1 THEN @ \cup {x % 16} ELSE @]

\* The form with a displacement of 16 bits only traps.
NewFrame(m, size) == AddReg(SetReg(m, 6, m.r[7], "word"), 7, size)
LINK(m, b) ==
  IF b = 23 THEN NewFrame(Push(Past(m, 1), m.r[6]), Signed(CodeAt(m, 0), "byte")) ELSE Past(m, 2)

UNLK(m) == TopTo(Pop(SetReg(m, 7, m.r[6], "word")), 6)

PushReturn(m) == Push(Push(m, m.pc), m.cp)

ReturnTo(cp, pc) == JumpTo(pc.m, LowByte(cp.v), pc.v)
PopSecond(cp) == ReturnTo(cp, Pop(cp.m))
PopReturn(m) == PopSecond(Pop(m))

PJSR(m) == JumpTo(PushReturn(Past(m, 3)), CodeAt(m, 0), CodeWord(m, 1))
PJMP(m) == JumpTo(m, CodeAt(m, 0), CodeWord(m, 1))
JSR(m)  == JumpTo(Push(Past(m, 2), Past(m, 2).pc), m.cp, CodeWord(m, 0))

NearReturn(top) == JumpTo(top.m, top.m.cp, top.v)
RTS(m) == NearReturn(Pop(m))

\* The form with a displacement of 16 bits only returns.
RTD(m, b) ==
  AddReg(RTS(Past(m, 1)), 7, IF b = 20 THEN Signed(CodeAt(m, 0), "byte") ELSE 0)

\* The instruction after a return from an interrupt is always executed.
PopStatus(top) == [top.m EXCEPT !.sr = top.v]
RTE(m) == [PopReturn(PopStatus(Pop(m))) EXCEPT !.ex_ignore = TRUE]

Condition(f, cond) ==
  LET base == CASE cond \div 2 = 0 -> TRUE
                [] cond \div 2 = 1 -> ~(f.C \/ f.Z)
                [] cond \div 2 = 2 -> ~f.C
                [] cond \div 2 = 3 -> ~f.Z
                [] cond \div 2 = 4 -> ~f.V
                [] cond \div 2 = 5 -> ~f.N
                [] cond \div 2 = 6 -> f.N = f.V
                [] cond \div 2 = 7 -> ~f.Z /\ f.N = f.V
  IN  base = (cond % 2 = 0)

\* Displacements of one byte (signed) or one word, told apart by the opcode.
Bcc(m, b) ==
  LET long == Bit(b, 4)
      m1   == Past(m, IF long THEN 2 ELSE 1)
      disp == IF long THEN CodeWord(m, 0) ELSE Signed(CodeAt(m, 0), "byte")
  IN  IF Condition(FlagsOf(m.sr), b % 16) THEN Past(m1, disp) ELSE m1

BSR(m, b) ==
  LET long == b # 14
      m1   == Past(m, IF long THEN 2 ELSE 1)
      disp == IF long THEN CodeWord(m, 0) ELSE Signed(CodeAt(m, 0), "byte")
  IN  Past(Push(m1, m1.pc), disp)

\* The target is read when the return address is on the stack already.
FarCall(m, cp, k) == JumpTo(m, cp, m.r[k])

\* The jumps that opcode 11 leads in: through registers, and the far return.
JumpIndirect(m) ==
  LET x   == CodeAt(m, 0)
      m1  == Past(m, 1)
      k   == x % 8
      op  == x \div 8
      pair == Even(k)
      next == IF k = 7 THEN m1.pc ELSE m.r[k + 1]    \* pc lies behind the array
  IN  CASE x = 25  -> PopReturn(m1)
        [] op = 24 -> JumpTo(m1, LowByte(m.r[k]), next)
        [] op = 25 -> FarCall(PushReturn(m1), LowByte(m.r[pair]), pair + 1)
        [] op = 26 -> JumpTo(m1, m.cp, m.r[k])
        [] op = 27 -> FarCall(Push(m1, m1.pc), m.cp, k)
        [] op = 28 -> JumpTo(m1, m.cp, m.r[k] + CodeAt(m, 1))
        [] op = 30 -> JumpTo(m1, m.cp, m.r[k] + CodeWord(m, 1))
        [] OTHER   -> m1

\* SCB: a loop that ends when the register passes below zero; two forms look
\* at the Z flag first.
SCB(m, b) ==
  LET x    == CodeAt(m, 0)
      z    == FlagsOf(m.sr).Z
      runs == CASE b = 1 -> TRUE [] b = 6 -> z [] b = 7 -> ~z
      less == AddReg(Past(m, 2), x % 8, -1)
  IN  CASE x \div 8 # 23          -> Past(m, 1)
        [] x \div 8 = 23 /\ ~runs -> Past(m, 2)
        [] OTHER -> IF m.r[x % 8] = 0 THEN less ELSE Past(less, Signed(CodeAt(m, 1), "byte"))

JMP(m) == JumpTo(m, m.cp, CodeWord(m, 0))
-----------------------------------------------------------------------------
(* The short forms of moves and compares.                                  *)

MOVE(m, k) == StatusFor(SetReg(Past(m, 1), k, CodeAt(m, 0), "byte"), CodeAt(m, 0), "byte")
MOVI(m, k) == StatusFor(SetReg(Past(m, 2), k, CodeWord(m, 0), "word"), CodeWord(m, 0), "word")

SizeBit(b) == IF Bit(b, 3) THEN "word" ELSE "byte"

\* Between a register and a place near the frame pointer.  The bit of the
\* size means the opposite of what it means elsewhere; such a byte is read as
\* a word, all of whose bits end up in the register.
MOVF(m, b) ==
  LET k     == b % 8
      m1    == Past(m, 1)
      a     == (m.r[6] + Signed(CodeAt(m, 0), "byte")) % WORD
      byte  == Bit(b, 3)
      old   == m.r[k]
      MixedIn(got) == [got.m EXCEPT !.r[k] = BitOr(old - LowByte(old), got.v)]
      AsByte(got)  == StatusFor(MixedIn(got), got.v, "byte")
      AsWord(got)  == StatusFor(SetReg(got.m, k, got.v, "word"), got.v, "word")
  IN  CASE ~Bit(b, 4) /\ byte  -> AsByte(Read16(m1, m.tp, a))
        [] ~Bit(b, 4) /\ ~byte -> AsWord(MCU_Read(m1, m.tp, a))
        [] Bit(b, 4) /\ byte   -> StatusFor(MCU_Write(m1, m.tp, a, old), old, "byte")
        [] Bit(b, 4) /\ ~byte  -> StatusFor(Write16(m1, m.tp, a, old), old, "word")

\* Between a register and the page of page 0 that BR points to.
NearAddress(m) == m.br * BYTE + CodeAt(m, 0)

LoadReg(got, k, siz) == StatusFor(SetReg(got.m, k, got.v, siz), got.v, siz)
MOVL(m, b) == LoadReg(Read(Past(m, 1), 0, NearAddress(m), SizeBit(b)), b % 8, SizeBit(b))

MOVS(m, b) ==
  LET x == m.r[b % 8]
  IN  StatusFor(Write(Past(m, 1), 0, NearAddress(m), x, SizeBit(b)), x, SizeBit(b))

ShortCMP(m, b) ==
  LET siz == SizeBit(b)
      x   == IF siz = "word" THEN CodeWord(m, 0) ELSE CodeAt(m, 0)
  IN  SetFlags(Past(m, IF siz = "word" THEN 2 ELSE 1), Sub(m.r[b % 8], x, 0, siz).f)
-----------------------------------------------------------------------------
(* An operand: a register, a place in memory or an immediate value.        *)

Operand(type, siz, k, page, a, x) ==
  [type |-> type, siz |-> siz, reg |-> k, ep |-> page, ea |-> a, data |-> x]

IsMemory(o) == o.type \in {"indirect", "absolute"}

OperandRead(m, o) ==
  CASE o.type = "direct"    -> [m |-> m, v |-> Cut(m.r[o.reg], o.siz)]
    [] o.type = "immediate" -> [m |-> m, v |-> o.data]
    [] IsMemory(o)          -> Read(m, o.ep, o.ea, o.siz)

OperandWrite(m, o, x) ==
  CASE o.type = "direct"    -> SetReg(m, o.reg, x, o.siz)
    [] o.type = "immediate" -> m
    [] IsMemory(o)          -> Write(m, o.ep, o.ea, x % WORD, o.siz)

\* The modes: what they consume, how they move the register, where they point.
Mode(m, b) ==
  LET siz  == SizeBit(b)
      k    == b % 8
      high == b \div 16
      step == IF siz = "word" \/ k = 7 THEN 2 ELSE 1
      size == CASE high = 14 -> 1 [] high = 15 -> 2 [] high = 1 -> 2
                [] high = 0 -> IF k = 4 /\ siz = "word" THEN 2 ELSE 1 [] OTHER -> 0
      disp == CASE high = 14 -> Signed(CodeAt(m, 0), "byte") [] high = 15 -> CodeWord(m, 0)
                [] OTHER -> 0
      m1   == Past(m, size)
      m2   == CASE high = 11 -> AddReg(m1, k, -step) [] high = 12 -> AddReg(m1, k, step)
                [] OTHER -> m1
      base == IF high = 11 THEN m2.r[k] ELSE m.r[k]
  IN  [m |-> m2,
       o |-> CASE high = 10 -> Operand("direct", siz, k, 0, 0, 0)
               [] high = 0 /\ k = 4 ->
                    Operand("immediate", siz, k, 0, 0, IF siz = "word" THEN CodeWord(m, 0) ELSE CodeAt(m, 0))
               [] high = 0 /\ k # 4 -> Operand("absolute", siz, k, 0, m.br * BYTE + CodeAt(m, 0), 0)
               [] high = 1 -> Operand("absolute", siz, k, m.dp, CodeWord(m, 0), 0)
               [] OTHER -> Operand("indirect", siz, k, PageFor(m, k), (base + disp) % WORD, 0)]
-----------------------------------------------------------------------------
(* The operations on an operand.                                           *)

\* Opcode 0 writes or compares an immediate value behind the opcode.
MOVG_Write(m, o, x, siz) == StatusFor(OperandWrite(Past(m, siz), o, x), x, o.siz)
MOVG_Compare(got, o, x, siz) == SetFlags(Past(got.m, siz), Sub(got.v, x, 0, o.siz).f)

MOVG_Immediate(m, o, k) ==
  LET near == Signed(CodeAt(m, 0), "byte")
      word == CodeWord(m, 0)
  IN  CASE ~IsMemory(o) \/ k \notin 4..7 -> m
        [] IsMemory(o) /\ k \in {6, 7} -> MOVG_Write(m, o, IF k = 6 THEN near ELSE word, k - 5)
        [] IsMemory(o) /\ k \in {4, 5} ->
             MOVG_Compare(OperandRead(m, o), o, IF k = 4 THEN near ELSE word, k - 3)

\* A bit operation leaves in Z whether the bit was clear.
Changed(x, bit, kind) ==
  CASE kind = "set"   -> PutBit(x, bit, TRUE)
    [] kind = "clear" -> PutBit(x, bit, FALSE)
    [] kind = "flip"  -> PutBit(x, bit, ~Bit(x, bit))

BitOfValue(got, o, bit, kind) ==
  LET m1 == SetZ(got.m, ~Bit(got.v, bit))
  IN  IF kind = "test" THEN m1 ELSE OperandWrite(m1, o, Changed(got.v, bit, kind))

BitOperation(m, o, bit, kind) ==
  IF o.type = "immediate" THEN m ELSE BitOfValue(OperandRead(m, o), o, bit, kind)

BitByRegister(m, o, k, kind) == BitOperation(m, o, m.r[k] % 16, kind)
BitByNumber(m, o, op, k) ==
  BitOperation(m, o, k + 8 * (op % 2),
               CASE op \in {24, 25} -> "set" [] op \in {26, 27} -> "clear"
                 [] op \in {28, 29} -> "flip" [] op \in {30, 31} -> "test")

\* ORC and ANDC change a control register; no interrupt is taken before the
\* next instruction is done.
ControlResult(m, o, k, new) ==
  LET m1 == ControlRegisterWrite(m, k, o.siz, new)
  IN  [(IF k >= 2 THEN StatusFor(m1, new, o.siz) ELSE m1) EXCEPT !.ex_ignore = TRUE]
ORC(old, o, k)  == ControlResult(old.m, o, k, BitOr(old.v, o.data))
ANDC(old, o, k) == ControlResult(old.m, o, k, BitAnd(old.v, o.data))

BSET_ORC(m, o, k) ==
  IF o.type = "immediate" THEN ORC(ControlRegisterRead(m, k, o.siz), o, k)
  ELSE BitByRegister(m, o, k, "set")

\* Mutant: an interrupt may come between the change of the mask and SLEEP.
BCLR_ANDC_Interruptible(m, o, k) ==
  IF o.type = "immediate"
  THEN [ANDC(ControlRegisterRead(m, k, o.siz), o, k) EXCEPT !.ex_ignore = FALSE]
  ELSE BitByRegister(m, o, k, "clear")

BCLR_ANDC(m, o, k) ==
  IF o.type = "immediate" THEN ANDC(ControlRegisterRead(m, k, o.siz), o, k)
  ELSE BitByRegister(m, o, k, "clear")

\* Opcode 2 holds the operations without a second operand: NEG, NOT, TST on
\* a value, SWAP, EXTS, EXTU on a register.
OnValue(got, o, k) ==
  LET diff == Sub(0, got.v, 0, o.siz)
  IN  CASE k = 4 -> SetFlags(OperandWrite(got.m, o, diff.v), diff.f)
        [] k = 5 -> StatusFor(OperandWrite(got.m, o, -1 - got.v), -1 - got.v, o.siz)
        [] k = 6 -> ClearC(StatusFor(got.m, got.v, o.siz))

OnRegister(m, o, k) ==
  LET r == m.r[o.reg]
      swapped == LowByte(r) * BYTE + HighByte(r)
      Set(x) == SetReg(m, o.reg, x, "word")
  IN  CASE k = 0 -> StatusFor(Set(swapped), swapped, "word")
        [] k = 1 -> StatusFor(Set(Signed(r, "byte")), r, "word")
        [] k = 2 -> SetFlags(Set(LowByte(r)), [NoFlags EXCEPT !.Z = LowByte(r) = 0])

CLR(m, o, k) ==
  CASE o.type # "immediate" /\ k = 3 -> SetFlags(OperandWrite(m, o, 0), [NoFlags EXCEPT !.Z = TRUE])
    [] o.type # "immediate" /\ k \in 4..6 -> OnValue(OperandRead(m, o), o, k)
    [] o.type = "direct" /\ o.siz = "byte" /\ k \in 0..2 -> OnRegister(m, o, k)
    [] OTHER -> m

\* A word from or to the code of EP with register 7 stands for EP and DP.
BothPages(o, k) == o.reg = 7 /\ k = 4
Sized(o, k) == IF BothPages(o, k) THEN [o EXCEPT !.siz = "word"] ELSE o

LDC(got, o, k) ==
  LET m1 == IF BothPages(o, k) THEN [got.m EXCEPT !.ep = LowByte(got.v), !.dp = HighByte(got.v)]
            ELSE ControlRegisterWrite(got.m, k, o.siz, got.v)
  IN  [m1 EXCEPT !.ex_ignore = TRUE]

STC(m, o, k) ==
  LET got == IF BothPages(o, k) THEN [m |-> m, v |-> m.dp * BYTE + m.ep]
             ELSE ControlRegisterRead(m, k, o.siz)
  IN  OperandWrite(got.m, Sized(o, k), got.v)

MOVGLoad(got, o, k) == LoadReg(got, k, o.siz)

\* To a register it is an exchange, of words only.
MOVGStore(m, o, k) ==
  CASE o.type # "direct" -> StatusFor(OperandWrite(m, o, m.r[k]), m.r[k], o.siz)
    [] o.type = "direct" /\ o.siz = "word" -> [m EXCEPT !.r[k] = m.r[o.reg], !.r[o.reg] = m.r[k]]
    [] o.type = "direct" /\ o.siz = "byte" -> m

ADDQ(got, o, k) ==
  LET t2  == CASE k = 0 -> 1 [] k = 1 -> 2 [] k = 4 -> -1 [] k = 5 -> -2 [] OTHER -> 0
      sum == Add(got.v, t2, 0, o.siz)
  IN  OperandWrite(SetFlags(got.m, sum.f), o, sum.v)

\* Register and operand; OR and XOR take the operand into the whole register.
Arithmetic(got, o, op, k) ==
  LET t    == got.v
      r    == got.m.r[k]
      c    == AsBit(FlagsOf(got.m.sr).C)
      Put2(res) == SetFlags(SetReg(got.m, k, res.v, o.siz), res.f)
      Logic(x)  == [got.m EXCEPT !.r[k] = x]
      sumx == Add(r, t, c, o.siz)
      near == IF o.siz = "word" THEN t ELSE Signed(t, "byte")
      and  == Merge(r, BitAnd(r, t), o.siz)
  IN  CASE op = "ADD"  -> Put2(Add(r, t, 0, o.siz))
        [] op = "SUB"  -> Put2(Sub(r, t, 0, o.siz))
        [] op = "ADDX" -> Put2([sumx EXCEPT !.f.Z = @ /\ FlagsOf(got.m.sr).Z])
        [] op = "SUBX" -> Put2(Sub(r, t, c, o.siz))
        [] op = "CMP"  -> SetFlags(got.m, Sub(r, t, 0, o.siz).f)
        [] op = "ADDS" -> AddReg(got.m, k, near)
        [] op = "SUBS" -> AddReg(got.m, k, -near)
        [] op = "OR"   -> StatusFor(Logic(BitOr(r, t)), BitOr(r, t), o.siz)
        [] op = "XOR"  -> StatusFor(Logic(BitXor(r, t)), BitXor(r, t), o.siz)
        [] op = "AND"  -> StatusFor(Logic(and), and, o.siz)

Shifting(got, o, k) ==
  LET res == Shift(k, got.v, FlagsOf(got.m.sr), o.siz)
  IN  IF o.type = "immediate" THEN got.m ELSE SetFlags(OperandWrite(got.m, o, res.v), res.f)

\* A product of words fills an even and an odd register.
MULXU(got, o, k) ==
  LET pair == Even(k)
      p    == Product(got.v, Cut(got.m.r[k], o.siz))
      Flags(n, z) == [NoFlags EXCEPT !.N = n, !.Z = z]
  IN  IF o.siz = "word"
      THEN SetFlags([got.m EXCEPT !.r[pair] = p[1], !.r[pair + 1] = p[2]],
                    Flags(Negative(p[1], "word"), p = <<0, 0>>))
      ELSE SetFlags(SetReg(got.m, k, p[2], "word"), Flags(Negative(p[2], "word"), p[2] = 0))

\* A quotient that does not fit leaves V and the registers; a divisor of zero
\* leaves Z.
DIVXU(got, o, k) ==
  LET t    == got.v
      pair == Even(k)
      high == IF o.siz = "word" THEN got.m.r[pair] ELSE HighByte(got.m.r[k])
      wq   == Quotient(got.m.r[pair], got.m.r[pair + 1], t)
      bq   == Cut(got.m.r[k] \div t, "byte")
      div  == IF o.siz = "word" THEN [got.m EXCEPT !.r[pair] = wq.r, !.r[pair + 1] = wq.q]
              ELSE SetReg(got.m, k, (got.m.r[k] % t) * BYTE + bq, "word")
  IN  CASE t = 0 -> SetFlags(got.m, [NoFlags EXCEPT !.Z = TRUE])
        [] t # 0 /\ high >= t -> SetFlags(got.m, [NoFlags EXCEPT !.V = TRUE])
        [] OTHER -> ClearC(StatusFor(div, IF o.siz = "word" THEN wq.q ELSE bq, o.siz))
-----------------------------------------------------------------------------
(* The two tables.                                                         *)

Arithmetics == [op \in {4, 5, 6, 7, 8, 10, 12, 14, 20, 22} |->
  CASE op = 4 -> "ADD" [] op = 5 -> "ADDS" [] op = 6 -> "SUB" [] op = 7 -> "SUBS" [] op = 8 -> "OR"
    [] op = 10 -> "AND" [] op = 12 -> "XOR" [] op = 14 -> "CMP" [] op = 20 -> "ADDX" [] op = 22 -> "SUBX"]

\* MCU_Opcode_Table.  These operations take the value of their operand:
OfValue == {1, 3, 16, 17, 21, 23} \cup DOMAIN Arithmetics

ValueOperation(got, o, op, k) ==
  CASE op = 1  -> ADDQ(got, o, k)
    [] op = 3  -> Shifting(got, o, k)
    [] op = 16 -> MOVGLoad(got, o, k)
    [] op = 17 -> LDC(got, o, k)
    [] op = 21 -> MULXU(got, o, k)
    [] op = 23 -> DIVXU(got, o, k)
    [] op \in DOMAIN Arithmetics -> Arithmetic(got, o, Arithmetics[op], k)

\* extended tells that a zero stood before the opcode.
Operation(m, o, op, k, extended) ==
  CASE op \in {16, 18} /\ extended -> m
    [] op \in OfValue /\ ~(op = 16 /\ extended) ->
         ValueOperation(OperandRead(m, IF op = 17 THEN Sized(o, k) ELSE o), o, op, k)
    [] op = 0  -> MOVG_Immediate(m, o, k)
    [] op = 2  -> CLR(m, o, k)
    [] op = 9  -> BSET_ORC(m, o, k)
    [] op = 11 -> BCLR_ANDC(m, o, k)
    [] op = 15 -> BitByRegister(m, o, k, "test")
    [] op = 18 /\ ~extended -> MOVGStore(m, o, k)
    [] op = 19 -> STC(m, o, k)
    [] op \in 24..31 -> BitByNumber(m, o, op, k)
    [] OTHER -> m

\* MCU_Operand_General: the mode, then the operation on what it points to.
OnOperand(m, o, extended) ==
  LET x == CodeAt(m, IF extended THEN 1 ELSE 0)
  IN  Operation(Past(m, IF extended THEN 2 ELSE 1), o, x \div 8, x % 8, extended)
AtMode(mode) == OnOperand(mode.m, mode.o, CodeAt(mode.m, 0) = 0)
General(m, b) == AtMode(Mode(m, b))

\* The first quarter of MCU_Operand_Table: jumps, calls and the stack.
ControlOperation(m, b) ==
  CASE b \in {1, 6, 7} -> SCB(m, b)
    [] b = 2  -> LDM(m)
    [] b = 3  -> PJSR(m)
    [] b = 8  -> TRAPA(m)
    [] b = 10 -> RTE(m)
    [] b \in {14, 30} -> BSR(m, b)
    [] b = 15 -> UNLK(m)
    [] b = 16 -> JMP(m)
    [] b = 17 -> JumpIndirect(m)
    [] b = 18 -> STM(m)
    [] b = 19 -> PJMP(m)
    [] b \in {20, 28} -> RTD(m, b)
    [] b \in {23, 31} -> LINK(m, b)
    [] b = 24 -> JSR(m)
    [] b = 25 -> RTS(m)
    [] b = 26 -> [m EXCEPT !.sleep = TRUE]
    [] b \in 32..63 -> Bcc(m, b)
    [] OTHER -> m

\* The short moves and compares.
ShortOperation(m, b) ==
  CASE b \in 64..79   -> ShortCMP(m, b)
    [] b \in 80..87   -> MOVE(m, b % 8)
    [] b \in 88..95   -> MOVI(m, b % 8)
    [] b \in 96..111  -> MOVL(m, b)
    [] b \in 112..127 -> MOVS(m, b)
    [] b \in 128..159 -> MOVF(m, b)

\* Everything else has a mode.
Decoded(m, b) ==
  CASE b \in {4, 5, 12, 13, 21, 29} \cup 160..255    -> General(m, b)
    [] b \in (0..63) \ {4, 5, 12, 13, 21, 29}        -> ControlOperation(m, b)
    [] b \in 64..159                                 -> ShortOperation(m, b)

Instruction(m) == Decoded(Past(m, 1), CodeAt(m, 0))

\* One round of the loop of core 2.
Interruptible(m) == IF m.ex_ignore THEN [m EXCEPT !.ex_ignore = FALSE] ELSE Interrupt_Handle(m)
Executed(m) == IF m.sleep THEN m ELSE Instruction(m)

Round(m) == [Executed(Interruptible(m)) EXCEPT !.dev = DevicesClock(@, CYCLES)]
=============================================================================
