----------------------------- MODULE McuPrograms -----------------------------
(***************************************************************************)
(* Firmware images for McuMachine, written with a small assembler, and for *)
(* each what its results have to be: the reference is plain arithmetic on  *)
(* the inputs, not the operators the machine is built from.                *)
(***************************************************************************)
EXTENDS McuMachine, TLC

(* The assembler: operands, then operations. *)
Two(x) == <<x \div 256, x % 256>>
W(siz) == IF siz = "word" THEN 8 ELSE 0
Abs(siz, a) == <<21 + W(siz)>> \o Two(a)
Imm(x)  == <<12>> \o Two(x)
ImmB(x) == <<4, x>>
Reg(siz, k) == <<160 + W(siz) + k>>
Dec(siz, k) == <<176 + W(siz) + k>>
Inc(siz, k) == <<192 + W(siz) + k>>
At(siz, k)  == <<208 + W(siz) + k>>
Near(siz, k, d) == <<224 + W(siz) + k, d % 256>>
Far(siz, k, d)  == <<240 + W(siz) + k>> \o Two(d)

Do(operand, op, k) == operand \o <<8 * op + k>>
ADDQ1(operand) == Do(operand, 1, 0)
Load(operand, k)  == Do(operand, 16, k)
Save(operand, k)  == Do(operand, 18, k)
SetByte(a, x) == Do(Abs("byte", a), 0, 6) \o <<x>>
LoadDP(x) == Do(ImmB(x), 17, 5)
MoveI(k, x) == <<88 + k>> \o Two(x)
SaveCCR(a) == Do(Abs("byte", a), 19, 1)
Unmask == Do(Imm(63743), 11, 0)         \* ANDC.W #0xf8ff,SR
Mask7  == Do(Imm(1792), 9, 0)           \* ORC.W #0x0700,SR
Sleep  == <<26>>
Halt   == Mask7 \o Sleep
Branch(cond, d) == <<32 + cond, d % 256>>
LongBranch(cond, d) == <<48 + cond>> \o Two(d % 65536)
Rte == <<10>>
Rts == <<25>>

\* Runs body over and over until it jumps out.
Forever(body) == body \o Branch(0, -(Len(body) + 2))
\* Skips body when the condition holds.
Unless(cond, body) == Branch(cond, Len(body)) \o body

StackTop == 65280
P1CR == 65532
IPRA == 65520
IPRB == 65521
IPRC == 65522
IPRD == 65523
SCR == 65498
SSR == 65500
RDR == 65501
ADCSR == 65512
GateArray == 62466

\* The encoder's line through the gate array to IRQ0, at level 3.
TakeTurns == SetByte(P1CR, 32) \o SetByte(IPRA, 48) \o SetByte(GateArray, 4)
Begin == MoveI(7, StackTop) \o TakeTurns \o Unmask

\* A handler that uses registers, and pages, of its own.
Handler(body) ==
  <<18, 63>> \o Do(Reg("byte", 0), 19, 5) \o LoadDP(0) \o body
  \o Do(Reg("byte", 0), 17, 5) \o <<2, 63>> \o Rte

OnTurn == Handler(Load(Abs("byte", GateArray), 1) \o MoveI(2, 65535))
NoHandler == Rte

\* A ROM: vectors, and code at fixed places.
Placed(code, at, a) == IF at <= a /\ a < at + Len(code) THEN code[a - at + 1] ELSE 0
VectorsTo == (2 :> 1) @@ (66 :> 6) @@ (130 :> 4) @@ (150 :> 5) @@ (194 :> 5) @@ (214 :> 5)
Rom(main, turn, other, trap) ==
  LET size == 1792
  IN  [a \in 0..size - 1 |->
         CASE a < 256 -> IF a \in DOMAIN VectorsTo THEN VectorsTo[a] ELSE 0
           [] a \in 256..1023 -> Placed(main, 256, a)
           [] a \in 1024..1279 -> Placed(turn, 1024, a)
           [] a \in 1280..1535 -> Placed(other, 1280, a)
           [] OTHER -> Placed(trap, 1536, a)]

\* The NVRAM with some words at the beginning.
Words(ws) ==
  [c \in {<<"nvram", i>> : i \in 0..2 * Len(ws) - 1} |->
     IF c[2] % 2 = 0 THEN ws[c[2] \div 2 + 1] \div 256 ELSE ws[c[2] \div 2 + 1] % 256]
WordAt(mm, a) == Cell(mm.mem, <<"nvram", a>>) * 256 + Cell(mm.mem, <<"nvram", a + 1>>)
ByteOf(mm, a) == Cell(mm.mem, <<"nvram", a>>)
FlagC(x) == x % 2 = 1
FlagZ(x) == (x \div 4) % 2 = 1
FlagV(x) == (x \div 2) % 2 = 1
FlagN(x) == (x \div 8) % 2 = 1
Int16(x) == IF x >= 32768 THEN x - 65536 ELSE x
-----------------------------------------------------------------------------
(* Sums and differences of 32 bits, in two steps with the carry between.   *)

SumMain ==
  Begin \o LoadDP(12)
  \o Load(Abs("word", 0), 0) \o Load(Abs("word", 2), 1)
  \o Do(Abs("word", 6), 4, 1) \o Do(Abs("word", 4), 20, 0)
  \o SaveCCR(24) \o Save(Abs("word", 16), 0) \o Save(Abs("word", 18), 1)
  \o Load(Abs("word", 0), 2) \o Load(Abs("word", 2), 3)
  \o Do(Abs("word", 6), 6, 3) \o Do(Abs("word", 4), 22, 2)
  \o SaveCCR(25) \o Save(Abs("word", 20), 2) \o Save(Abs("word", 22), 3) \o Halt

SumInputs ==
  {Words(ws) : ws \in
    {<<0, 65535, 0, 1>>, <<32767, 65535, 0, 1>>, <<0, 1, 0, 2>>, <<32768, 0, 0, 1>>,
     <<65535, 65535, 65535, 65535>>, <<5, 0, 4, 65535>>}}

SumRight(mm) ==
  LET x == <<WordAt(mm, 0), WordAt(mm, 2)>>
      y == <<WordAt(mm, 4), WordAt(mm, 6)>>
      low  == x[2] + y[2]
      high == x[1] + y[1] + (low \div 65536)
      less == x[1] < y[1] \/ (x[1] = y[1] /\ x[2] < y[2])
      below == Int16(x[1]) < Int16(y[1]) \/ (x[1] = y[1] /\ x[2] < y[2])
  IN  /\ WordAt(mm, 16) = high % 65536 /\ WordAt(mm, 18) = low % 65536
      /\ FlagC(ByteOf(mm, 24)) = (high >= 65536)
      /\ FlagZ(ByteOf(mm, 24)) = (WordAt(mm, 16) = 0 /\ WordAt(mm, 18) = 0)
      /\ (WordAt(mm, 22) + y[2]) % 65536 = x[2]
      /\ (WordAt(mm, 20) + y[1] + ((WordAt(mm, 22) + y[2]) \div 65536)) % 65536 = x[1]
      /\ FlagC(ByteOf(mm, 25)) = less
      /\ (FlagN(ByteOf(mm, 25)) # FlagV(ByteOf(mm, 25))) = below
-----------------------------------------------------------------------------
(* A product and a remainder put together and taken apart again.           *)

ProductMain ==
  Begin \o LoadDP(12)
  \o Load(Abs("word", 0), 3) \o Do(Abs("word", 2), 21, 3)
  \o Do(Abs("word", 4), 4, 3) \o Do(Imm(0), 20, 2)
  \o Save(Abs("word", 16), 2) \o Save(Abs("word", 18), 3)
  \o Do(Abs("word", 2), 23, 2) \o SaveCCR(24)
  \o Save(Abs("word", 20), 2) \o Save(Abs("word", 22), 3)
  \o Load(Abs("byte", 1), 4) \o Do(Reg("byte", 4), 2, 2)
  \o Do(Abs("byte", 3), 21, 4) \o Do(Abs("byte", 3), 23, 4) \o Save(Abs("word", 26), 4) \o Halt

ProductInputs ==
  {Words(ws) : ws \in
    {<<65535, 65535, 65534>>, <<258, 259, 258>>, <<7, 0, 0>>, <<0, 9, 8>>, <<32769, 2, 1>>}}

\* The dividend was x * y + z with z < y, unless y is zero.
ProductRight(mm) ==
  LET x == WordAt(mm, 0)  y == WordAt(mm, 2)  z == WordAt(mm, 4)
  IN  /\ y # 0 => WordAt(mm, 20) = z /\ WordAt(mm, 22) = x
      /\ y = 0 => /\ FlagZ(ByteOf(mm, 24))
                  /\ WordAt(mm, 20) = WordAt(mm, 16) /\ WordAt(mm, 22) = WordAt(mm, 18)
      /\ y % 256 # 0 => WordAt(mm, 26) = x % 256
-----------------------------------------------------------------------------
(* A compare and every branch that can follow it, short and long ones.     *)

Tried(cond) ==
  LET note == Do(Imm(2^(cond - 1)), 5, 5)
  IN  (IF cond % 3 = 0 THEN LongBranch(cond, 2) ELSE Branch(cond, 2)) \o Branch(0, Len(note)) \o note
RECURSIVE TriedFrom(_)
TriedFrom(cond) == IF cond > 15 THEN <<>> ELSE Tried(cond) \o TriedFrom(cond + 1)

BranchMain ==
  Begin \o LoadDP(12) \o Load(Abs("word", 0), 0) \o MoveI(5, 0) \o Do(Abs("word", 2), 14, 0)
  \o TriedFrom(2) \o Save(Abs("word", 16), 5) \o Halt

BranchInputs ==
  {Words(ws) : ws \in {<<3, 3>>, <<3, 4>>, <<65535, 1>>, <<1, 65535>>, <<32768, 1>>, <<1, 32768>>}}

BranchRight(mm) ==
  LET x == WordAt(mm, 0)  y == WordAt(mm, 2)
      took(cond) == (WordAt(mm, 16) \div 2^(cond - 1)) % 2 = 1
  IN  /\ took(2) = (x > y)  /\ took(3) = (x <= y) /\ took(4) = (x >= y) /\ took(5) = (x < y)
      /\ took(6) = (x # y)  /\ took(7) = (x = y)
      /\ took(8) # took(9)  /\ took(10) # took(11)
      /\ took(11) = ((x + 65536 - y) % 65536 >= 32768)
      /\ took(12) = (Int16(x) >= Int16(y)) /\ took(13) = (Int16(x) < Int16(y))
      /\ took(14) = (Int16(x) > Int16(y))  /\ took(15) = (Int16(x) <= Int16(y))
-----------------------------------------------------------------------------
(* Shifts of 32 bits through the carry, logic, and single bits.            *)

Word0 == Abs("word", 0)
Word2 == Abs("word", 2)
Both == Load(Word0, 0) \o Load(Word2, 1)
SaveBoth(a) == Save(Abs("word", a), 0) \o Save(Abs("word", a + 2), 1)
R(k)  == Reg("word", k)
RB(k) == Reg("byte", k)
CopyBit(i) == Do(Abs("byte", 3), 30, i) \o Unless(7, Do(RB(4), 24, i))

ShiftMain ==
  Begin \o LoadDP(12)
  \o Both \o Do(R(1), 3, 2) \o Do(R(0), 3, 6) \o SaveBoth(16)
  \o Both \o Do(R(0), 3, 3) \o Do(R(1), 3, 7) \o SaveBoth(20)
  \o Both \o Do(R(0), 3, 1) \o Do(R(1), 3, 7) \o SaveBoth(24)
  \o Both \o Do(R(1), 3, 4) \o Do(R(1), 3, 4) \o Do(R(1), 3, 5) \o Do(R(0), 2, 5) \o Do(R(0), 2, 4)
  \o SaveBoth(28)
  \o Load(Abs("byte", 3), 2) \o Do(RB(2), 2, 1) \o Save(Abs("word", 32), 2)
  \o Do(RB(2), 3, 0) \o Do(RB(2), 2, 0) \o Save(Abs("word", 34), 2)
  \o MoveI(4, 0) \o CopyBit(0) \o CopyBit(7) \o Do(RB(4), 28, 3) \o Do(RB(4), 26, 0)
  \o Save(Abs("byte", 36), 4)
  \o Load(Word0, 2) \o Do(Word2, 10, 2) \o Save(Abs("word", 38), 2)
  \o Load(Word0, 2) \o Do(Word2, 8, 2) \o Save(Abs("word", 40), 2)
  \o Load(Word0, 2) \o Do(Word2, 12, 2) \o Save(Abs("word", 42), 2)
  \o Do(Abs("word", 42), 2, 6) \o SaveCCR(44) \o Do(Abs("word", 42), 2, 3) \o Halt

ShiftInputs == {Words(ws) : ws \in {<<32769, 32896>>, <<1, 255>>, <<65535, 65535>>, <<21845, 43690>>}}

\* What the emulated SHAR makes of a word: it halves a number that is not
\* negative; of a negative one it halves the fifteen bits below the sign, which
\* an arithmetic shift (Int16(x) \div 2) would not.
SharOf(x) == IF x < 32768 THEN x \div 2 ELSE 32768 + (x - 32768) \div 2

ShiftRight(mm) ==
  LET hi == WordAt(mm, 0)  lo == WordAt(mm, 2)  byte == lo % 256
      and == WordAt(mm, 38)  or == WordAt(mm, 40)  xor == (or + 65536 - and) % 65536
      ext == IF byte >= 128 THEN byte + 65280 ELSE byte
      high == ext \div 256
      odd  == IF hi % 2 = 1 THEN 32768 ELSE 0
  IN  /\ WordAt(mm, 16) = (2 * hi + (lo \div 32768)) % 65536 /\ WordAt(mm, 18) = (2 * lo) % 65536
      /\ WordAt(mm, 20) = hi \div 2 /\ WordAt(mm, 22) = (lo \div 2) + odd
      /\ WordAt(mm, 24) = SharOf(hi) /\ WordAt(mm, 26) = WordAt(mm, 22)
      /\ WordAt(mm, 28) = (hi + 1) % 65536
      /\ WordAt(mm, 30) = ((2 * lo) % 65536) + (lo \div 32768)
      /\ WordAt(mm, 32) = ext
      /\ WordAt(mm, 34) = ((2 * byte) % 256) * 256 + high
      /\ ByteOf(mm, 36) = (byte \div 128) * 128 + 8
      /\ and + or = hi + lo /\ and <= hi /\ and <= lo
      /\ FlagZ(ByteOf(mm, 44)) = (xor = 0) /\ FlagN(ByteOf(mm, 44)) = (xor >= 32768)
      /\ WordAt(mm, 42) = 0
-----------------------------------------------------------------------------
(* Subroutines: a frame, saved registers, a loop over a list, a call into  *)
(* another page, an argument that the return takes off the stack.          *)

FarCode == 65568
FarRoutine == Do(R(1), 18, 2) \o <<17, 25>>

ListLoop ==
  LET body == Load(Inc("word", 1), 0) \o Save(Dec("word", 2), 0)
  IN  body \o <<1, 187, (-(Len(body) + 3)) % 256>>

FrameSub ==
  <<23, 252>> \o <<18, 31>> \o LoadDP(12)
  \o MoveI(1, 0) \o MoveI(2, 22) \o MoveI(3, 2) \o ListLoop
  \o <<144, 252>> \o <<132, 252>> \o Save(Abs("word", 24), 4)
  \o <<3, 1>> \o Two(FarCode % 65536) \o Save(Abs("word", 26), 1) \o Save(Abs("word", 28), 2)
  \o Do(ImmB(252), 17, 3) \o <<122, 16>> \o <<108, 16>> \o Save(Abs("word", 30), 4)
  \o Load(Near("word", 6, 4), 4) \o Save(Abs("word", 32), 4)
  \o LoadDP(0) \o <<2, 31>> \o <<15>> \o <<20, 2>>

FrameMain ==
  LET before == Begin \o MoveI(4, 4660) \o MoveI(6, 17185) \o Save(Dec("word", 7), 4)
      after  == LoadDP(12) \o Save(Abs("word", 34), 4) \o Save(Abs("word", 36), 6)
                \o Save(Abs("word", 38), 7) \o Halt
  IN  before \o <<14, Len(after)>> \o after \o FrameSub

FrameInputs == {Words(<<1, 515, 43981>>)}

FrameRight(mm) ==
  /\ \A i \in 0..2 : WordAt(mm, 16 + 2 * i) = WordAt(mm, 4 - 2 * i)
  /\ WordAt(mm, 24) = WordAt(mm, 4) \div 256
  /\ WordAt(mm, 26) = 16 /\ WordAt(mm, 28) = 6 /\ WordAt(mm, 30) = 6
  /\ WordAt(mm, 32) = 4660 /\ WordAt(mm, 34) = 4660 /\ WordAt(mm, 36) = 17185
  /\ WordAt(mm, 38) = StackTop
-----------------------------------------------------------------------------
(* Every kind of jump and call, each over an end of the program that must  *)
(* not be reached; the loops that look at Z first; moves near the frame;   *)
(* both pages through the stack.                                           *)

Jumps(at) ==
  LET over(n) == Two(at + n + Len(Halt))
      sub(n)  == Two(at + n + 2)
      body    == Branch(0, 1) \o Rts
      MoveTo(k, target) == <<88 + k>> \o target
  IN  <<<<16>> \o over(3) \o Halt,
        <<19, 0>> \o over(4) \o Halt,
        MoveTo(0, over(5)) \o <<17, 208>> \o Halt,
        MoveTo(0, Two(at + 6)) \o <<17, 224, Len(Halt)>> \o Halt,
        MoveTo(0, Two(at + 7)) \o <<17, 240>> \o Two(Len(Halt)) \o Halt,
        MoveI(0, 0) \o MoveTo(1, over(8)) \o <<17, 192>> \o Halt,
        MoveI(2, 0) \o MoveTo(3, sub(8)) \o <<17, 202>> \o Branch(0, 2) \o <<17, 25>>,
        MoveTo(0, sub(5)) \o <<17, 216>> \o body,
        <<24>> \o sub(3) \o body,
        <<30>> \o Two(2) \o body>>

JumpsMain ==
  LET n == Len(Jumps(0))
      AfterJump(before, i) == before \o Jumps(256 + Len(before))[i] \o Do(R(5), 1, 0)
      code[i \in 0..n] ==
        IF i = 0 THEN Begin \o MoveI(5, 0) ELSE AfterJump(code[i - 1], i)
  IN  code[n] \o <<80, 77>> \o MoveI(6, 34816) \o Do(ImmB(0), 17, 7)
      \o MoveI(1, 3) \o MoveI(2, 3) \o <<7, 185, 253>> \o <<6, 186, 253>>
      \o <<152, 2>> \o MoveI(3, 4096) \o <<155, 3>> \o <<139, 2>>
      \o LoadDP(5) \o Do(Dec("word", 7), 19, 4) \o LoadDP(0) \o Do(Inc("word", 7), 17, 4)
      \o Do(RB(4), 19, 5) \o LoadDP(12) \o Save(Abs("word", 16), 5) \o Halt

JumpsRight(mm) ==
  /\ WordAt(mm, 16) = 10 /\ mm.r[7] = StackTop
  /\ mm.r[1] = 65535 /\ mm.r[2] = 3
  /\ LowByte(mm.r[0]) = 77 /\ mm.r[3] = 4096 + 77 * 256
  /\ LowByte(mm.r[4]) = 5
-----------------------------------------------------------------------------
(* Sleeping until the handler of the serial port has something.            *)

Count == 32768
Done  == 32769
Queue == 32784

OnByte ==
  Handler(Load(Abs("byte", SSR), 1) \o Load(Abs("byte", RDR), 2) \o Do(Abs("byte", SSR), 26, 6)
          \o MoveI(3, 0) \o Load(Abs("byte", Count), 3) \o Save(Far("byte", 3, Queue), 2)
          \o ADDQ1(Abs("byte", Count)))

WaitMain ==
  LET done == ADDQ1(Abs("byte", Done)) \o Do(Abs("byte", Done), 0, 4) \o <<2>> \o Unless(6, Halt)
      body == Mask7 \o Load(Abs("byte", Count), 1) \o Do(Abs("byte", Done), 14, 1)
              \o Unless(6, Unmask \o Sleep) \o Unless(7, done)
  IN  MoveI(7, StackTop) \o TakeTurns \o SetByte(IPRD, 64) \o SetByte(SCR, 48)
      \o Load(Abs("byte", SCR), 0) \o SetByte(SCR, 112) \o Forever(body)

WaitRight(mm) ==
  \A i \in 1..2 : Cell(mm.mem, <<"sram", Queue + i - 1 - 32768>>) = Bytes.wait[i]
-----------------------------------------------------------------------------
(* A request that stays up; two timers and a trap; the display, the sound  *)
(* chip, the converter and the keys; a reset by the program itself.        *)

OnStorm == Handler(MoveI(2, 65535))
StormMain ==
  LET body == Do(R(1), 1, 1)
  IN  Begin \o MoveI(0, 2) \o body \o <<1, 184, (-(Len(body) + 3)) % 256>> \o Halt
StormRight(mm) == mm.r[0] = 65535 /\ mm.r[1] = 6

OnTick == Handler(Load(Abs("byte", 65425), 1) \o SetByte(65425, 0) \o ADDQ1(Abs("byte", Count)))
OnTrap == Handler(ADDQ1(Abs("byte", Done)))
TickMain ==
  Begin \o SetByte(IPRB, 80) \o SetByte(65428, 0) \o SetByte(65429, 12) \o SetByte(65424, 32)
  \o <<8, 16>> \o Forever(Do(Abs("byte", Count), 0, 4) \o <<2>> \o Unless(5, SetByte(65424, 0) \o Halt))
TickRight(mm) ==
  Cell(mm.mem, <<"sram", 0>>) >= 2 /\ Cell(mm.mem, <<"sram", 1>>) = 1

LcdCommand(x) == SetByte(62468, x)
LcdData(x)    == SetByte(62469, x)
Pcm(a, x) == SetByte(61440 + a, x)
FromPcm(a, k) == Load(Abs("byte", 61440 + a), k)
Keep1(at, k) == LoadDP(12) \o Save(Abs("byte", at), k) \o LoadDP(0)

\* Reads a row of keys until one of it is down.
RowDown(row) ==
  LET read == SetByte(62465, row) \o Load(Abs("byte", 65422), 1) \o <<65, 255>>
  IN  read \o Branch(7, -(Len(read) + 2))

DisplayMain ==
  MoveI(7, StackTop)
  \o LcdCommand(56) \o LcdCommand(14) \o LcdCommand(64) \o LcdData(21) \o LcdCommand(1) \o LcdCommand(6)
  \o LcdCommand(194) \o LcdData(65) \o LcdData(66) \o LcdCommand(167) \o LcdData(67) \o LcdData(68) \o Halt

DisplayRight(mm) ==
  /\ Shown(mm.lcd) = [i \in 0..1 |-> [j \in 0..23 |-> CASE i = 1 /\ j = 2 -> 65 [] i = 1 /\ j = 3 -> 66 [] OTHER -> 32]]
  /\ mm.lcd.font[0] = 21 /\ mm.lcd.data[39] = 67 /\ CursorAt(mm.lcd) = {}

SoundMain ==
  MoveI(7, StackTop)
  \o Pcm(62, 5) \o Pcm(5, 10) \o Pcm(6, 188) \o Pcm(7, 222) \o Pcm(62, 6) \o Pcm(16, 18) \o Pcm(17, 52)
  \o Pcm(62, 5) \o FromPcm(5, 0) \o FromPcm(57, 1) \o Keep1(16, 1) \o FromPcm(58, 1) \o Keep1(17, 1)
  \o FromPcm(59, 1) \o Keep1(18, 1) \o Pcm(62, 6) \o FromPcm(16, 0) \o FromPcm(58, 1) \o Keep1(19, 1)
  \o Pcm(0, 255) \o Pcm(3, 7) \o FromPcm(60, 1) \o Keep1(20, 1) \o FromPcm(0, 0) \o FromPcm(60, 1)
  \o Keep1(21, 1) \o Pcm(33, 32) \o Pcm(34, 0) \o Pcm(35, 9) \o FromPcm(63, 1) \o Keep1(22, 1) \o Halt

SoundRight(mm) ==
  /\ [i \in 16..22 |-> ByteOf(mm, i)] =
       (16 :> 10) @@ (17 :> 188) @@ (18 :> 222) @@ (19 :> 18) @@ (20 :> 32) @@ (21 :> 0) @@ (22 :> 77)
  /\ mm.pcm.mask = 15 * 2^24 + 7

PanelMain ==
  MoveI(7, StackTop) \o RowDown(251) \o Keep1(16, 1) \o RowDown(239) \o Keep1(17, 1)
  \o SetByte(ADCSR, 33)
  \o Do(Abs("byte", ADCSR), 30, 7) \o Branch(7, -6) \o Load(Abs("byte", 65506), 1) \o Keep1(18, 1) \o Halt

PanelRight(mm) ==
  LET at(i) == 255 - ByteOf(mm, i)
  IN  at(16) = 2 /\ at(17) = 4 /\ ByteOf(mm, 18) = 672 \div 4

ResetMain ==
  Begin \o Do(Abs("byte", Done), 0, 4) \o <<1>>
  \o Unless(7, SetByte(Done, 1) \o MoveI(4, 4660) \o LoadDP(3) \o Do(ImmB(1), 17, 6)) \o Halt
ResetRight(mm) == Cell(mm.mem, <<"sram", 1>>) = 1 /\ mm.r[4] = 0 /\ mm.dp = 0
-----------------------------------------------------------------------------
(* The instance.                                                           *)

MCImages ==
  {"sum", "product", "branch", "shift", "frame", "jumps", "wait", "storm", "tick", "display", "sound",
   "panel", "reset"}
MCRom1 ==
  [sum     |-> Rom(SumMain, OnTurn, NoHandler, NoHandler),
   product |-> Rom(ProductMain, OnTurn, NoHandler, NoHandler),
   branch  |-> Rom(BranchMain, OnTurn, NoHandler, NoHandler),
   shift   |-> Rom(ShiftMain, OnTurn, NoHandler, NoHandler),
   frame   |-> Rom(FrameMain, OnTurn, NoHandler, NoHandler),
   jumps   |-> Rom(JumpsMain, OnTurn, NoHandler, NoHandler),
   wait    |-> Rom(WaitMain, OnTurn, OnByte, NoHandler),
   storm   |-> Rom(StormMain, OnStorm, NoHandler, NoHandler),
   tick    |-> Rom(TickMain, OnTurn, OnTick, OnTrap),
   display |-> Rom(DisplayMain, OnTurn, NoHandler, NoHandler),
   sound   |-> Rom(SoundMain, OnTurn, NoHandler, NoHandler),
   panel   |-> Rom(PanelMain, OnTurn, NoHandler, NoHandler),
   reset   |-> Rom(ResetMain, OnTurn, NoHandler, NoHandler)]
MCRom2 ==
  [i \in MCImages |-> [a \in FarCode .. FarCode + Len(FarRoutine) - 1 |-> FarRoutine[a - FarCode + 1]]]
MCInputs ==
  [i \in MCImages |->
     CASE i = "sum" -> SumInputs [] i = "product" -> ProductInputs [] i = "branch" -> BranchInputs
       [] i = "shift" -> ShiftInputs [] i = "frame" -> FrameInputs [] OTHER -> {Words(<<0>>)}]
MCTurns == [i \in MCImages |-> IF i \in {"tick", "wait"} THEN 2 ELSE 1]
MCBytes == [i \in MCImages |-> IF i = "wait" THEN <<10, 20>> ELSE <<>>]
MCKeys  == [i \in MCImages |-> IF i = "panel" THEN <<1, 12>> ELSE <<>>]
MCWave  == (<<"wave2", 9>> :> 77)

\* Every image ends with the right results, however interrupts fall into it:
\* carries, borrows and flags between two instructions, a product taken apart
\* again, branches after a compare, a frame on the stack, the bytes of the
\* serial port in order, what a device gives back.
ResultsCorrect ==
  Halted => CASE m.image = "sum"     -> SumRight(m)
              [] m.image = "product" -> ProductRight(m)
              [] m.image = "branch"  -> BranchRight(m)
              [] m.image = "shift"   -> ShiftRight(m)
              [] m.image = "frame"   -> FrameRight(m)
              [] m.image = "jumps"   -> JumpsRight(m)
              [] m.image = "wait"    -> WaitRight(m)
              [] m.image = "storm"   -> StormRight(m)
              [] m.image = "tick"    -> TickRight(m)
              [] m.image = "display" -> DisplayRight(m)
              [] m.image = "sound"   -> SoundRight(m)
              [] m.image = "panel"   -> PanelRight(m)
              [] m.image = "reset"   -> ResetRight(m)
=============================================================================
