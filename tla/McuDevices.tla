----------------------------- MODULE McuDevices -----------------------------
(***************************************************************************)
(* The devices on the chip of the emulated MCU (mcu.cpp): three free       *)
(* running timers, the 8-bit timer, the serial port, the converter, and    *)
(* outside of the chip the gate array that gathers interrupt lines.        *)
(*                                                                         *)
(* A state of the devices is a record d; a write or a clock gives the next *)
(* record, a read gives the byte together with it, since a read of a flag  *)
(* is what later allows the flag to be cleared.  Times are kept as what is *)
(* left of them, so that the cycle counter need not grow.                  *)
(***************************************************************************)
EXTENDS McuAlu, FiniteSets, Sequences

CONSTANTS
  UART_BUFFER_SIZE,   \* uart_buffer_size, 8192 in the code
  UART_DELAY,         \* cycles between two bytes of the serial port, 3000
  CONVERSION_TIME     \* cycles of a conversion, 200

ASSUME DevicesAssumption ==
  /\ UART_BUFFER_SIZE \in Nat /\ UART_BUFFER_SIZE > 1
  /\ UART_DELAY \in Nat
  /\ CONVERSION_TIME \in Nat

\* Memory and registers are arrays of bytes that start as zeroes; only the
\* cells that were written are kept.
Cell(f, a) == IF a \in DOMAIN f THEN f[a] ELSE 0
Put(f, a, x) == [c \in DOMAIN f \cup {a} |-> IF c = a THEN x ELSE f[c]]

DEV_P7DDR == 12
DEV_P7DR  == 14
DEV_SCR   == 90
DEV_SSR   == 92
DEV_RDR   == 93
DEV_ADDRAH == 96
DEV_ADCSR == 104
DEV_IPRA  == 112
DEV_IPRB  == 113
DEV_IPRC  == 114
DEV_IPRD  == 115
DEV_RAME  == 121
DEV_P1CR  == 124
DEV_P9DDR == 126
DEV_P9DR  == 127

Register(d, a) == Cell(d.reg, a)
Store(d, a, x) == [d EXCEPT !.reg = Put(@, a, x)]

FrtReset == [ocra |-> 0, frc |-> 0, ocfa |-> FALSE, ocfa_read |-> FALSE, ociea |-> FALSE]

\* SC55_Reset, MCU_DeviceReset and TIMER_Reset; the lamps are not reset.
DevicesReset(leds) ==
  [reg |-> [a \in {DEV_RAME, DEV_SSR} |-> 128],
   ssr_rd |-> 0, adf_rd |-> FALSE, io_sd |-> 0, button_pressed |-> 0, led_state |-> leds,
   midi_ready |-> FALSE, uart_buffer |-> [i \in {} |-> 0], write_ptr |-> 0, read_ptr |-> 0,
   rx_byte |-> 0, rx_wait |-> 0, tx_wait |-> 0,
   frt |-> [i \in 0..2 |-> FrtReset], tempreg |-> 0,
   timer8 |-> [enabled |-> FALSE, cmiea |-> FALSE, cmfa |-> FALSE],
   ga_int |-> {}, ga_int_enable |-> 0, ga_int_trigger |-> 0,
   pending |-> {}, phase |-> 0, converting |-> FALSE, convert_left |-> 0]
-----------------------------------------------------------------------------
(* Requests, in the order in which the handler looks at them; the sources  *)
(* that nothing ever requests are left out.                                *)

Sources == <<"IRQ0", "FRT0_OCIA", "FRT1_OCIA", "FRT2_OCIA", "TIMER_CMIA", "ANALOG",
             "UART_RX", "UART_TX">>
FrtSource == [i \in 0..2 |-> Sources[i + 2]]

SetRequest(d, source, on) ==
  [d EXCEPT !.pending = IF on THEN @ \cup {source} ELSE @ \ {source}]

Vector ==
  [IRQ0 |-> 32, FRT0_OCIA |-> 37, FRT1_OCIA |-> 41, FRT2_OCIA |-> 45, TIMER_CMIA |-> 48,
   ANALOG |-> 56, UART_RX |-> 53, UART_TX |-> 54]

\* Each priority register holds the levels of two groups of sources.
PriorityOf ==
  [IRQ0 |-> <<DEV_IPRA, 16>>, FRT0_OCIA |-> <<DEV_IPRB, 16>>, FRT1_OCIA |-> <<DEV_IPRB, 1>>,
   FRT2_OCIA |-> <<DEV_IPRC, 16>>, TIMER_CMIA |-> <<DEV_IPRC, 1>>, ANALOG |-> <<DEV_IPRD, 1>>,
   UART_RX |-> <<DEV_IPRD, 16>>, UART_TX |-> <<DEV_IPRD, 16>>]

Level(d, source) ==
  (Register(d, PriorityOf[source][1]) \div PriorityOf[source][2]) % 8

Requested(d, source) ==
  source \in d.pending /\ (source = "IRQ0" => Bit(Register(d, DEV_P1CR), 5))

Acceptable(d, mask) == {i \in 1..Len(Sources) : Requested(d, Sources[i]) /\ Level(d, Sources[i]) > mask}
-----------------------------------------------------------------------------
(* The gate array: a line that rises becomes the trigger, and IRQ0 asks as *)
(* long as there is one.                                                   *)

SetGAInt(d, line, on) ==
  LET trigger == IF on /\ line \notin d.ga_int /\ Bit(d.ga_int_enable, line)
                 THEN line ELSE d.ga_int_trigger
  IN  SetRequest([d EXCEPT !.ga_int_trigger = trigger,
                           !.ga_int = IF on THEN @ \cup {line} ELSE @ \ {line}],
                 "IRQ0", trigger # 0)

EncoderTrigger(d, dir) ==
  LET line == IF dir = 0 THEN 3 ELSE 4
  IN  SetGAInt(SetGAInt(d, line, FALSE), line, TRUE)

\* The read of 0xf402 takes the trigger.
TakeTrigger(d) == SetRequest([d EXCEPT !.ga_int_trigger = 0], "IRQ0", FALSE)
-----------------------------------------------------------------------------
(* The timers.                                                             *)

FrtWrite(d, i, at, x) ==
  CASE at = 0 -> [d EXCEPT !.frt[i].ociea = (x = 32)]
    [] at = 1 /\ ~Bit(x, 5) /\ d.frt[i].ocfa_read ->
         SetRequest([d EXCEPT !.frt[i].ocfa = FALSE, !.frt[i].ocfa_read = FALSE],
                    FrtSource[i], FALSE)
    [] at = 4 -> [d EXCEPT !.tempreg = x]
    [] at = 5 -> [d EXCEPT !.frt[i].ocra = d.tempreg * BYTE + x]
    [] OTHER  -> d

Timer8Write(d, at, x) ==
  CASE at = 0 -> [d EXCEPT !.timer8.enabled = Bit(x, 0), !.timer8.cmiea = x >= 64]
    [] at = 1 /\ ~Bit(x, 6) /\ d.timer8.cmfa ->
         SetRequest([d EXCEPT !.timer8.cmfa = FALSE], "TIMER_CMIA", FALSE)
    [] OTHER  -> d

FrtRead(d, i, at) ==
  IF at = 1
  THEN [d |-> [d EXCEPT !.frt[i].ocfa_read = @ \/ d.frt[i].ocfa], v |-> 113]
  ELSE [d |-> d, v |-> 255]

Timer8Read(d, at) ==
  [d |-> d, v |-> IF at # 1 THEN 255 ELSE IF d.timer8.cmfa THEN 224 ELSE 160]

FrtClock(d, i) ==
  LET match == (d.frt[i].frc \div 4) >= d.frt[i].ocra
      d1 == [d EXCEPT !.frt[i].frc = IF match THEN 0 ELSE (@ + 6) % WORD,
                      !.frt[i].ocfa = @ \/ match]
  IN  IF match /\ d.frt[i].ociea THEN SetRequest(d1, FrtSource[i], TRUE) ELSE d1

Timer8Clock(d) ==
  LET d1 == [d EXCEPT !.timer8.cmfa = TRUE]
  IN  IF ~(d.timer8.enabled /\ d.phase = 0) THEN d
      ELSE IF d.timer8.cmiea THEN SetRequest(d1, "TIMER_CMIA", TRUE) ELSE d1

TimerClock(d) == FrtClock(FrtClock(FrtClock(Timer8Clock(d), 0), 1), 2)
-----------------------------------------------------------------------------
(* The serial port.                                                        *)

PostUART(d, x) ==
  IF ~d.midi_ready THEN d
  ELSE [d EXCEPT !.uart_buffer = Put(@, d.write_ptr, x),
                 !.write_ptr = (@ + 1) % UART_BUFFER_SIZE]

UpdateUART_RX(d) ==
  IF \/ ~Bit(Register(d, DEV_SCR), 4)
     \/ d.write_ptr = d.read_ptr
     \/ Bit(Register(d, DEV_SSR), 6)
     \/ d.rx_wait > 0
  THEN d
  ELSE SetRequest(
         Store([d EXCEPT !.rx_byte = Cell(d.uart_buffer, d.read_ptr),
                         !.read_ptr = (@ + 1) % UART_BUFFER_SIZE],
               DEV_SSR, PutBit(Register(d, DEV_SSR), 6, TRUE)),
         "UART_RX", Bit(Register(d, DEV_SCR), 6))

UpdateUART_TX(d) ==
  IF ~Bit(Register(d, DEV_SCR), 5) \/ Bit(Register(d, DEV_SSR), 7) \/ d.tx_wait > 0
  THEN d
  ELSE SetRequest(Store(d, DEV_SSR, PutBit(Register(d, DEV_SSR), 7, TRUE)),
                  "UART_TX", Bit(Register(d, DEV_SCR), 7))

\* A flag that was read as set and is written as zero takes its request back;
\* what is stored is what was written.
StatusWrite(d, x) ==
  LET cleared(bit) == ~Bit(x, bit) /\ Bit(d.ssr_rd, bit)
      d1 == IF cleared(7) THEN SetRequest([d EXCEPT !.tx_wait = UART_DELAY], "UART_TX", FALSE) ELSE d
      d2 == IF cleared(6) THEN SetRequest([d1 EXCEPT !.rx_wait = UART_DELAY], "UART_RX", FALSE) ELSE d1
  IN  Store(d2, DEV_SSR, x)
-----------------------------------------------------------------------------
(* The converter: ten bits in two registers for each of four channels; pin *)
(* 1 is the battery.                                                       *)

AnalogReadPin(pin) == IF pin = 1 THEN 672 ELSE 1023

AnalogSample(d, channel) ==
  LET value == AnalogReadPin(channel)
      dest  == DEV_ADDRAH + 2 * (channel % 4)
  IN  Store(Store(d, dest, value \div 4), dest + 1, 64 * (value % 4))

UpdateAnalog(d) ==
  LET ctrl == Register(d, DEV_ADCSR)
      scan == Bit(ctrl, 4)
      base == (ctrl % 8) - (ctrl % 4)
      sampled[i \in -1 .. ctrl % 4] == IF i < 0 THEN d ELSE AnalogSample(sampled[i - 1], base + i)
      d1 == IF scan
            THEN [sampled[ctrl % 4] EXCEPT !.convert_left = CONVERSION_TIME]
            ELSE [AnalogSample(d, ctrl % 8) EXCEPT !.converting = FALSE, !.convert_left = 0]
      d2 == Store(d1, DEV_ADCSR, PutBit(IF scan THEN ctrl ELSE PutBit(ctrl, 5, FALSE), 7, TRUE))
  IN  CASE ~Bit(ctrl, 5)      -> [d EXCEPT !.converting = FALSE, !.convert_left = 0]
        [] Bit(ctrl, 5) /\ ~d.converting ->
             [d EXCEPT !.converting = TRUE, !.convert_left = CONVERSION_TIME]
        [] Bit(ctrl, 5) /\ d.converting /\ d.convert_left >= 0 -> d
        [] OTHER -> IF Bit(ctrl, 6) THEN SetRequest(d2, "ANALOG", TRUE) ELSE d2

ControlWrite(d, x) ==
  LET old  == Register(d, DEV_ADCSR)
      keep == Bit(old, 7) /\ ~(~Bit(x, 7) /\ d.adf_rd)
      off  == ~Bit(x, 6) \/ (~Bit(x, 7) /\ d.adf_rd)
      d1   == Store(d, DEV_ADCSR, (x % 128) + (IF keep THEN 128 ELSE 0))
  IN  IF off THEN SetRequest(d1, "ANALOG", FALSE) ELSE d1
-----------------------------------------------------------------------------
(* The ports: lamps, the three rows of the key matrix, pull-ups.           *)

LampsOf(x) == {4 - k : k \in {b \in 0..4 : Bit(x, b)}}

LampWrite(d, x, pc) ==
  LET left  == IF Bit(d.io_sd, 0) THEN {k \in Bits(d.led_state) : k < 5} ELSE LampsOf(x)
      right == IF Bit(d.io_sd, 1) THEN {k \in Bits(d.led_state) : k \in 5..9}
                                  ELSE {k + 5 : k \in LampsOf(x)}
      rest  == {k \in Bits(d.led_state) : k > 9}
  IN  IF HighByte(pc) = 54 THEN [d EXCEPT !.led_state = FromBits(left \cup right \cup rest)] ELSE d

\* io_sd selects a row by the one bit that is zero.
KeyRow == [row \in {251, 247, 239} |-> CASE row = 251 -> <<0, 32>> [] row = 247 -> <<5, 32>> [] row = 239 -> <<10, 16>>]

KeysRead(d) ==
  LET row == KeyRow[d.io_sd]
  IN  255 - ((d.button_pressed \div 2^row[1]) % row[2])

\* A pin that is an output reads its latch, an input reads one.
PinsRead(latch, dir) == BitOr(BitAnd(latch, dir), 255 - dir)

\* LCD_SendButton.
SendButton(d, button, down) == [d EXCEPT !.button_pressed = PutBit(@, button, down)]
-----------------------------------------------------------------------------
(* A register of the chip, written and read.                               *)

DeviceWrite(d, a, x, pc) ==
  CASE a \in 16..63      -> FrtWrite(d, (a \div 16) - 1, a % 16, x)
    [] a \in 80..84      -> Timer8Write(d, a - 80, x)
    [] a = DEV_P7DR      -> Store(LampWrite(d, x, pc), a, x)
    [] a = DEV_ADCSR     -> ControlWrite(d, x)
    [] a = DEV_SSR       -> StatusWrite(d, x)
    [] OTHER             -> Store(d, a, x)

DeviceRead(d, a) ==
  LET v == Register(d, a)
      Gives(d1, x) == [d |-> d1, v |-> x]
  IN  CASE a \in 16..63  -> FrtRead(d, (a \div 16) - 1, a % 16)
        [] a \in 80..84  -> Timer8Read(d, a - 80)
        [] a = DEV_ADCSR -> Gives([d EXCEPT !.adf_rd = Bit(v, 7)], v)
        [] a = DEV_SSR   -> Gives([d EXCEPT !.ssr_rd = v], v)
        [] a = DEV_RDR   -> Gives(d, d.rx_byte)
        [] a = 0         -> Gives(d, 255)
        [] a = DEV_P7DR /\ d.io_sd \in DOMAIN KeyRow -> Gives(d, KeysRead(d))
        [] a = DEV_P7DR /\ d.io_sd \notin DOMAIN KeyRow ->
             LET dir == Register(d, DEV_P7DDR)
             IN  Gives(d, PinsRead(v, IF d.io_sd = 255 /\ dir = 32 THEN 0 ELSE dir))
        [] a = DEV_P9DR  -> Gives(d, PinsRead(v, Register(d, DEV_P9DDR)))
        [] a = DEV_SCR   -> Gives([d EXCEPT !.midi_ready = @ \/ v = 48], v)
        [] OTHER         -> Gives(d, v)
-----------------------------------------------------------------------------
(* What happens to the devices while an instruction takes its cycles.      *)

Elapse(d, cycles) ==
  LET left(t) == IF t > cycles THEN t - cycles ELSE 0
  IN  [d EXCEPT !.phase = (@ + cycles) % 64, !.rx_wait = left(@), !.tx_wait = left(@),
                !.convert_left = IF d.converting THEN @ - cycles ELSE @]

DevicesClock(d, cycles) == UpdateAnalog(UpdateUART_TX(UpdateUART_RX(TimerClock(Elapse(d, cycles)))))
=============================================================================
