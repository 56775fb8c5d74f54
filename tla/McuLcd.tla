------------------------------- MODULE McuLcd -------------------------------
(***************************************************************************)
(* The controller of the synthesizer's own display (lcd.cpp): what a write *)
(* of the firmware to its two registers does, and which characters         *)
(* LCD_Update draws.  The dots of a character are not modelled.            *)
(***************************************************************************)
EXTENDS McuAlu

Columns == 24     \* visible in a line
Line    == 40     \* kept for a line
Blank   == 32

LcdReset ==
  [dl |-> FALSE, two |-> FALSE, f |-> FALSE, on |-> FALSE, cursor |-> FALSE, blink |-> FALSE,
   inc |-> FALSE, shift |-> FALSE, dd |-> 0, cg |-> 0, to_dd |-> FALSE,
   data |-> [i \in 0 .. 2 * Line - 1 |-> 0], font |-> [i \in 0..63 |-> 0], enable |-> TRUE]

\* The first one that is set tells which command a byte is.
Command(l, x) ==
  CASE x >= 128       -> [l EXCEPT !.dd = x % 128, !.to_dd = TRUE]
    [] x \in 64..127  -> [l EXCEPT !.cg = x % 64, !.to_dd = FALSE]
    [] x \in 32..63   -> [l EXCEPT !.dl = Bit(x, 4), !.two = Bit(x, 3), !.f = Bit(x, 2)]
    [] x \in 8..15    -> [l EXCEPT !.on = Bit(x, 2), !.cursor = Bit(x, 1), !.blink = Bit(x, 0)]
    [] x \in 4..7     -> [l EXCEPT !.inc = Bit(x, 1), !.shift = Bit(x, 0)]
    [] x = 2          -> [l EXCEPT !.dd = 0]
    [] x = 1          -> [l EXCEPT !.dd = 0, !.inc = TRUE,
                                   !.data = [i \in DOMAIN @ |-> Blank]]
    [] OTHER          -> l

Step(l) == IF l.inc THEN 1 ELSE -1

\* Where the character of address dd is kept: bit 6 is the line, and what is
\* beyond the line's end is kept nowhere.
Place(l) ==
  IF l.two
  THEN {i \in {(l.dd % 64) + (IF l.dd >= 64 THEN Line ELSE 0)} : l.dd % 64 < Line}
  ELSE {i \in {l.dd} : i < 2 * Line}

Character(l, x) ==
  IF l.to_dd
  THEN [l EXCEPT !.data = [i \in DOMAIN @ |-> IF i \in Place(l) THEN x ELSE @[i]],
                 !.dd = (@ + Step(l)) % 128]
  ELSE [l EXCEPT !.font[l.cg] = x % 32, !.cg = (@ + Step(l)) % 64]

LCD_Write(l, address, x) == IF address = 0 THEN Command(l, x) ELSE Character(l, x)

LCD_Enable(l, enable) == [l EXCEPT !.enable = enable]

\* LCD_Update: the visible part of each line, and where the cursor is drawn.
Shown(l) == [i \in 0..1 |-> [j \in 0 .. Columns - 1 |-> l.data[i * Line + j]]]

CursorAt(l) ==
  {p \in {<<l.dd \div 64, l.dd % 64>>} : p[1] < 2 /\ p[2] < Columns /\ l.cursor}
=============================================================================
