------------------------------- MODULE McuAlu -------------------------------
(***************************************************************************)
(* The arithmetic of the emulated MCU: the two operand sizes, the flags of *)
(* the status register and what the common routines of mcu_opcodes.cpp     *)
(* compute.  All of it is pure: an operation takes numbers and gives a     *)
(* value together with the flags it leaves.                                *)
(***************************************************************************)
EXTENDS Integers

BYTE == 256
WORD == 65536

\* The number of values of an operand; "word" is siz # 0 in the code.
Width(siz) == IF siz = "word" THEN WORD ELSE BYTE

Cut(x, siz) == x % Width(siz)

\* The sign bit, and the value as a number in two's complement.
Negative(x, siz) == 2 * Cut(x, siz) >= Width(siz)
Signed(x, siz) == IF Negative(x, siz) THEN Cut(x, siz) - Width(siz) ELSE Cut(x, siz)

LowByte(x)  == x % BYTE
HighByte(x) == (x % WORD) \div BYTE

\* A register after a write of the given size: a byte leaves the high half.
Merge(old, x, siz) == IF siz = "word" THEN x % WORD ELSE (old - LowByte(old)) + LowByte(x)
-----------------------------------------------------------------------------
(* Bits.                                                                   *)

Bit(x, k) == (x \div 2^k) % 2 = 1
Bits(x) == {k \in 0..15 : Bit(x, k)}

\* The number whose bits are the members of S.
FromBits(S) ==
  LET sum[k \in 0..16] ==
        IF k = 0 THEN 0 ELSE sum[k - 1] + (IF k - 1 \in S THEN 2^(k - 1) ELSE 0)
  IN  sum[16]

BitAnd(x, y) == FromBits(Bits(x) \cap Bits(y))
BitOr(x, y)  == FromBits(Bits(x) \cup Bits(y))
BitXor(x, y) == FromBits((Bits(x) \cup Bits(y)) \ (Bits(x) \cap Bits(y)))

PutBit(x, k, on) == IF Bit(x, k) = on THEN x ELSE IF on THEN x + 2^k ELSE x - 2^k
-----------------------------------------------------------------------------
(* The status register: T, the interrupt mask and N, Z, V, C in the last   *)
(* four bits.                                                              *)

FlagsOf(sr) == [N |-> Bit(sr, 3), Z |-> Bit(sr, 2), V |-> Bit(sr, 1), C |-> Bit(sr, 0)]

FlagValue(f) ==
  (IF f.N THEN 8 ELSE 0) + (IF f.Z THEN 4 ELSE 0) + (IF f.V THEN 2 ELSE 0) + (IF f.C THEN 1 ELSE 0)

WithFlags(sr, f) == (sr - (sr % 16)) + FlagValue(f)

MaskOf(sr) == (sr \div 256) % 8
WithMask(sr, level) == sr - 256 * MaskOf(sr) + 256 * level
WithoutTrace(sr) == sr % 32768

\* sr_mask: the bits that exist.
SrMasked(x) == BitAnd(x, 34575)

\* What a value leaves behind: N and Z of it, no overflow, the carry as it was.
StatusCommon(f, val, siz) ==
  [f EXCEPT !.N = Negative(val, siz), !.Z = Cut(val, siz) = 0, !.V = FALSE]

NoFlags == [N |-> FALSE, Z |-> FALSE, V |-> FALSE, C |-> FALSE]
-----------------------------------------------------------------------------
(* Sums and differences.                                                   *)

FitsSigned(x, siz) == -Width(siz) <= 2 * x /\ 2 * x < Width(siz)

\* Mutant: the borrow of the operation before is not taken.
SubWithoutBorrow(t1, t2, c, siz) ==
  LET d  == Cut(t1, siz) - Cut(t2, siz)
      sd == Signed(t1, siz) - Signed(t2, siz)
  IN  [v |-> d % Width(siz),
       f |-> [N |-> Negative(d, siz), Z |-> Cut(d, siz) = 0,
              V |-> ~FitsSigned(sd, siz), C |-> (d \div Width(siz)) % 2 = 1]]

Sub(t1, t2, c, siz) ==
  LET d  == Cut(t1, siz) - Cut(t2, siz) - c
      sd == Signed(t1, siz) - Signed(t2, siz) - c
  IN  [v |-> d % Width(siz),
       f |-> [N |-> Negative(d, siz), Z |-> Cut(d, siz) = 0,
              V |-> ~FitsSigned(sd, siz), C |-> (d \div Width(siz)) % 2 = 1]]

Add(t1, t2, c, siz) ==
  LET s  == Cut(t1, siz) + Cut(t2, siz) + c
      ss == Signed(t1, siz) + Signed(t2, siz) + c
  IN  [v |-> s % Width(siz),
       f |-> [N |-> Negative(s, siz), Z |-> Cut(s, siz) = 0,
              V |-> ~FitsSigned(ss, siz), C |-> (s \div Width(siz)) % 2 = 1]]
-----------------------------------------------------------------------------
(* Shifts: which bit goes in, which comes out into the carry.              *)

TopBit(siz) == Width(siz) \div 2
AsBit(b) == IF b THEN 1 ELSE 0

\* opcode_reg tells SHAL, SHAR, SHLL, SHLR, ROTL, ROTR, ROTXL, ROTXR apart.
ShiftsLeft == {0, 2, 4, 6}

\* SHAR takes the sign away before it shifts and puts it back afterwards, so
\* that the place below the sign is always empty: the sign is not copied down.
ShiftedRight(kind, x, siz) ==
  IF kind = 1 THEN (x % TopBit(siz)) \div 2 ELSE Cut(x, siz) \div 2

Shift(kind, x, f, siz) ==
  LET top   == Negative(x, siz)
      low   == x % 2 = 1
      out   == IF kind \in ShiftsLeft THEN top ELSE low
      in    == CASE kind \in {0, 2, 3} -> FALSE
                 [] kind = 1           -> top
                 [] kind \in {4, 5}    -> out
                 [] kind \in {6, 7}    -> f.C
      moved == IF kind \in ShiftsLeft
               THEN Cut(2 * x, siz) + AsBit(in)
               ELSE ShiftedRight(kind, x, siz) + AsBit(in) * TopBit(siz)
  IN  [v |-> moved, f |-> StatusCommon([f EXCEPT !.C = out], moved, siz)]
-----------------------------------------------------------------------------
(* Products and quotients.  A 32-bit number is a pair of words, high first,*)
(* so that no intermediate result needs more than 31 bits.                 *)

Product(x, y) ==
  LET p0 == x * LowByte(y)
      p1 == x * HighByte(y) + (p0 \div BYTE)
  IN  <<p1 \div BYTE, (p1 % BYTE) * BYTE + (p0 % BYTE)>>

\* The pair <<high, low>> divided by t: quotient and remainder, high < t.
Quotient(high, low, t) ==
  LET n1 == high * BYTE + HighByte(low)
      n0 == (n1 % t) * BYTE + LowByte(low)
  IN  [q |-> (n1 \div t) * BYTE + (n0 \div t), r |-> n0 % t]
=============================================================================
