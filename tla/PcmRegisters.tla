---------------------------- MODULE PcmRegisters ----------------------------
(***************************************************************************)
(* The register file of the sound chip as the firmware sees it             *)
(* (PCM_Write, PCM_Read in pcm.cpp): wide registers are written and read   *)
(* through a latch of 20 bits a byte at a time, and a voice mask that was  *)
(* written takes effect when it is read.                                   *)
(***************************************************************************)
EXTENDS McuAlu

CONSTANT WaveRom      \* bytes of the sample ROMs: a function of <<chip, offset>>

PcmReset ==
  [ram1 |-> [v \in 0..31 |-> [k \in {} |-> 0]], ram2 |-> [v \in 0..31 |-> [k \in {} |-> 0]],
   channel |-> 0, mask |-> 0, mask_pending |-> 0, mask_updating |-> FALSE,
   write_latch |-> 0, read_latch |-> 0, wave_address |-> 0, wave_byte |-> 0,
   c3c |-> 0, c3d |-> 0, irq_channel |-> 0, irq_assert |-> FALSE]

\* Number x with its k-th byte replaced.
ByteAt(x, k) == (x \div BYTE^k) % BYTE
WithByte(x, k, b) == x + (b - ByteAt(x, k)) * BYTE^k

Kept(f, k) == IF k \in DOMAIN f THEN f[k] ELSE 0
Keep(f, k, x) == [c \in DOMAIN f \cup {k} |-> IF c = k THEN x ELSE f[c]]

\* PCM_ReadROM: the address selects the chip; the expansion has four parts.
ReadROM(address) ==
  LET bank   == (address \div 2^21) % 8
      offset == address % 2^21
      chip   == CASE bank = 0 -> "wave1" [] bank = 1 -> "wave2" [] bank = 2 -> "card"
                  [] bank \in 3..6 -> "exp" [] OTHER -> "none"
      at     == <<chip, IF chip = "exp" THEN offset + (bank - 3) * 2^21 ELSE offset>>
  IN  IF chip = "none" THEN 0 ELSE Kept(WaveRom, at)

\* The registers of 20 bits (ram1) lie at 4..15 and 36..47, four addresses
\* each, those of 16 bits (ram2) at 16..31 and 48..55, two addresses each.
IsWide(a)  == a \in 4..15 \/ a \in 36..47
IsShort(a) == a \in 16..31 \/ a \in 48..55
WideIndex(a) ==
  (IF a >= 32 THEN 1 ELSE 0) + (IF Bit(a, 3) THEN 0 ELSE 4) + (IF Bit(a, 2) THEN 0 ELSE 2)
ShortIndex(a) == ((a \div 2) % 8) + (IF a >= 32 THEN 8 ELSE 0)

PCM_Write(p, a, x) ==
  LET k    == 3 - (a % 4)
      wide == IF k = 3 THEN p.write_latch
              ELSE WithByte(p.write_latch, k, IF k = 2 THEN x % 16 ELSE x)
      short == WithByte(p.write_latch, 1 - (a % 2), x)
      address == IF k = 3 THEN p.wave_address ELSE WithByte(p.wave_address, k, x)
  IN  CASE a < 4 -> [p EXCEPT !.mask_pending = WithByte(@, k, IF k = 3 THEN x % 16 ELSE x),
                              !.mask_updating = TRUE]
        [] a \in 32..35 -> [p EXCEPT !.wave_address = address,
                                     !.wave_byte = IF k = 0 THEN ReadROM(address) ELSE @]
        [] a = 60 -> [p EXCEPT !.c3c = x]
        [] a = 61 -> [p EXCEPT !.c3d = x]
        [] a = 62 -> [p EXCEPT !.channel = x % 32]
        [] IsWide(a) ->
             [p EXCEPT !.write_latch = wide,
                       !.ram1[p.channel] = IF k = 0 THEN Keep(@, WideIndex(a), wide) ELSE @]
        [] IsShort(a) ->
             [p EXCEPT !.write_latch = short,
                       !.ram2[p.channel] =
                          IF a % 2 = 1 THEN Keep(@, ShortIndex(a), short % WORD) ELSE @]
        [] OTHER -> p

\* A read gives the byte, the next state, and whether the line to the gate
\* array is let go.
PCM_Read(p, a) ==
  LET Gives(p1, v) == [p |-> p1, v |-> v, release |-> FALSE]
      status == p.irq_channel + (IF p.mask_updating THEN 32 ELSE 0)
  IN  CASE a < 4 -> Gives([p EXCEPT !.mask = IF p.mask_updating THEN p.mask_pending ELSE @,
                                    !.mask_updating = FALSE], 0)
        [] a = 60 -> Gives(p, status)
        [] a = 62 -> [p |-> [p EXCEPT !.irq_assert = FALSE], v |-> status,
                      release |-> p.irq_assert]
        [] a = 63 -> Gives(p, p.wave_byte)
        [] IsWide(a) /\ a % 4 = 1 ->
             Gives([p EXCEPT !.read_latch = Kept(p.ram1[p.channel], WideIndex(a))], 0)
        [] IsShort(a) /\ a % 2 = 0 ->
             Gives([p EXCEPT !.read_latch = Kept(p.ram2[p.channel], ShortIndex(a))], 0)
        [] a \in 57..59 ->
             Gives(p, IF a = 57 THEN ByteAt(p.read_latch, 2) % 16
                      ELSE ByteAt(p.read_latch, 59 - a))
        [] OTHER -> Gives(p, 0)
=============================================================================
