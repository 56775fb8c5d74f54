----------------------------- MODULE MidiParser -----------------------------
(***************************************************************************)
(* MidiParser (midi.cpp), which two sources share.  Process feeds it the   *)
(* bytes of the serial port; the USB host's interrupt feeds it packets, on *)
(* the same core, between any two accesses of the task to the parser, and  *)
(* runs to its end before the task goes on.                                *)
(***************************************************************************)
EXTENDS Naturals, Sequences

CONSTANTS
  Bodies,     \* the numbers of bytes between F0 and F7, from the serial port
  UsbBodies,  \* and from the USB device
  LenMod,     \* one more than the largest nLength (256)
  SerialMsgs, \* bound: messages from the serial port
  UsbMsgs,    \* bound: messages from the USB device
  Realtimes,  \* bound: realtime bytes
  None

ASSUME MidiAssumption ==
  /\ Bodies \subseteq Nat /\ UsbBodies \subseteq Nat
  /\ LenMod \in Nat /\ LenMod > 3
  /\ SerialMsgs \in Nat /\ UsbMsgs \in Nat /\ Realtimes \in Nat

\* A byte is its kind, the message it belongs to and its place there: "st1" and
\* "st2" are the status bytes with one and two data bytes, "rt" a realtime byte.
ByteOf(k, id, i) == [kind |-> k, msg |-> id, place |-> i]
Data(n, id) == [i \in 1 .. n |-> ByteOf("d", id, i)]
Voice(k, id) == <<ByteOf(k, id, 0)>> \o Data(IF k = "st1" THEN 1 ELSE 2, id)
Sysex(n, id) == <<ByteOf("F0", id, 0)>> \o Data(n, id) \o <<ByteOf("F7", id, n + 1)>>
Messages(id, bodies) ==
  {Voice(k, id) : k \in {"st1", "st2"}} \cup {Sysex(n, id) : n \in bodies}

VARIABLES
  p,       \* the parser's members, and "out", the message it handed over last
  pc,      \* where the task is in ParseByte
  byte,    \* the byte it has
  at,      \* the index it has read
  line,    \* what is still to come of the serial message
  packets, \* and of the USB message
  sent,    \* the messages begun, by source
  want,    \* history: the serial message as it should be handed over
  clean    \* history: nothing has come between the bytes of the serial message

source == <<line, packets, sent, want, clean>>
vars == <<p, pc, byte, at, source>>

Init ==
  /\ p = [status |-> None, data |-> <<None, None>>, count |-> 0,
          sysex |-> <<>>, length |-> 0, inSysex |-> FALSE, out |-> <<>>, overrun |-> FALSE]
  /\ pc = "Idle" /\ byte = None /\ at = 0
  /\ line = <<>> /\ packets = <<>> /\ sent = [serial |-> 0, usb |-> 0, realtime |-> 0]
  /\ want = <<>> /\ clean = TRUE
-----------------------------------------------------------------------------
(* What the statements of ParseByte do to the members.                     *)

IsStatus(b) == b.kind \in {"st1", "st2", "rt", "F7"}

Needed(st) == IF st.kind = "st1" THEN 1 ELSE 2

\* sysex_buffer_[i] = b, and sysex_count_ = i + 1.  What lies above stays.
PutSysex(q, i, b) ==
  [q EXCEPT !.sysex = SubSeq(@, 1, i) \o <<b>> \o SubSeq(@, i + 2, Len(@)), !.length = i + 1]

\* The length is cut to the eight bits of nLength.
HandOverSysex(q) == [q EXCEPT !.out = SubSeq(q.sysex, 1, q.length % LenMod)]

\* data_ has two places; what a store behind them does is undefined, and
\* nothing is said of the parser from there on.
PutData(q, i, b) ==
  IF i < 2 THEN [q EXCEPT !.data[i + 1] = b, !.count = i + 1]
  ELSE [q EXCEPT !.overrun = TRUE]

HandOver(q, st) == [q EXCEPT !.out = <<st>> \o SubSeq(q.data, 1, q.count)]

\* Mutant: a status byte does not start its message afresh.
SetStatusOnly(q, b) == [q EXCEPT !.status = b]

SetStatus(q, b) == [q EXCEPT !.status = b, !.count = 0]

Complete(q) == q.count >= Needed(q.status)

\* ParseByte as a whole, as it runs in the interrupt.
ParseByte(q, b) ==
  IF q.overrun THEN q
  ELSE IF b.kind = "F0" THEN PutSysex([q EXCEPT !.inSysex = TRUE], 0, b)
  ELSE IF q.inSysex THEN
    LET r == PutSysex(q, q.length, b)
    IN IF b.kind = "F7" THEN [HandOverSysex(r) EXCEPT !.inSysex = FALSE, !.length = 0] ELSE r
  ELSE IF IsStatus(b) THEN SetStatus(q, b)
  ELSE IF q.status = None THEN q
  ELSE
    LET r == PutData(q, q.count, b)
    IN IF ~r.overrun /\ Complete(r) THEN [HandOver(r, r.status) EXCEPT !.count = 0] ELSE r

\* A packet has at most three bytes.
Fed(q, packet, k) == IF k <= Len(packet) THEN ParseByte(q, packet[k]) ELSE q

FeedUSBMIDIPacket(packet) == p' = Fed(Fed(Fed(p, packet, 1), packet, 2), packet, 3)
-----------------------------------------------------------------------------
(* The sources.                                                            *)

\* A channel message may leave out a status byte that is the same as the one
\* before (running status), but not after a system exclusive message.
SerialMessage ==
  /\ pc = "Idle" /\ line = <<>> /\ sent.serial < SerialMsgs
  /\ \E m \in Messages(<<"serial", sent.serial>>, Bodies) :
       \/ line' = m /\ want' = m /\ clean' = ~p.inSysex
       \/ /\ want # <<>> /\ m[1].kind = want[1].kind /\ m[1].kind # "F0"
          /\ line' = Tail(m) /\ want' = <<want[1]>> \o Tail(m)
          /\ UNCHANGED clean
  /\ sent' = [sent EXCEPT !.serial = @ + 1]
  /\ UNCHANGED <<p, pc, byte, at, packets>>

\* A realtime byte may come between any two others.
SerialRealtime ==
  /\ pc = "Idle" /\ line # <<>> /\ sent.realtime < Realtimes
  /\ line' = <<ByteOf("rt", <<"serial", sent.serial>>, 0)>> \o line
  /\ clean' = FALSE
  /\ sent' = [sent EXCEPT !.realtime = @ + 1]
  /\ UNCHANGED <<p, pc, byte, at, packets, want>>

\* The interrupt feeds as much as a packet holds.
Feed(bytes) ==
  /\ FeedUSBMIDIPacket(SubSeq(bytes, 1, IF Len(bytes) < 3 THEN Len(bytes) ELSE 3))
  /\ packets' = SubSeq(bytes, 4, Len(bytes))
  /\ clean' = FALSE
  /\ UNCHANGED <<pc, byte, at, line, want>>

UsbBegins(m) ==
  /\ packets = <<>> /\ sent.usb < UsbMsgs
  /\ Feed(m)
  /\ sent' = [sent EXCEPT !.usb = @ + 1]

UsbMessage == \E m \in Messages(<<"usb", sent.usb>>, UsbBodies) : UsbBegins(m)

UsbRest ==
  /\ packets # <<>>
  /\ Feed(packets)
  /\ UNCHANGED sent
-----------------------------------------------------------------------------
(* ParseByte in the task.                                                  *)

Go(next) ==
  /\ pc' = next
  /\ byte' = IF next = "Idle" THEN None ELSE byte
  /\ UNCHANGED source

TakeByte ==
  /\ pc = "Idle" /\ line # <<>>
  /\ byte' = Head(line) /\ line' = Tail(line)
  /\ pc' = "Ends"
  /\ UNCHANGED <<p, at, packets, sent, want, clean>>

EndsSysex ==
  /\ pc = "Ends"
  /\ Go(IF byte.kind = "F0" THEN "Open"
        ELSE IF byte.kind = "F7" /\ p.inSysex THEN "Close" ELSE "Inside")
  /\ UNCHANGED <<p, at>>

Open ==
  /\ pc = "Open"
  /\ p' = [p EXCEPT !.inSysex = TRUE]
  /\ Go("First") /\ UNCHANGED at

First ==
  /\ pc = "First"
  /\ p' = PutSysex(p, 0, byte)
  /\ Go("Idle") /\ UNCHANGED at

\* The byte is stored, the message handed over ...
Close ==
  /\ pc = "Close"
  /\ p' = HandOverSysex(PutSysex(p, p.length, byte))
  /\ Go("Closed") /\ UNCHANGED at

\* ... and the parser made ready for the next.
Closed ==
  /\ pc = "Closed"
  /\ p' = [p EXCEPT !.inSysex = FALSE, !.length = 0]
  /\ Go("Idle") /\ UNCHANGED at

InsideSysex ==
  /\ pc = "Inside"
  /\ Go(CASE p.inSysex -> "Append"
          [] ~p.inSysex /\ IsStatus(byte) -> "Status"
          [] ~p.inSysex /\ ~IsStatus(byte) /\ p.status = None -> "Idle"
          [] OTHER -> "Store")
  /\ at' = IF p.inSysex THEN p.length ELSE IF pc' = "Store" THEN p.count ELSE 0
  /\ UNCHANGED p

AppendSysex ==
  /\ pc = "Append"
  /\ p' = PutSysex(p, at, byte)
  /\ Go("Idle") /\ at' = 0

Status ==
  /\ pc = "Status"
  /\ p' = SetStatus(p, byte)
  /\ Go("Idle") /\ UNCHANGED at

Store ==
  /\ pc = "Store"
  /\ p' = PutData(p, at, byte)
  /\ Go("Compare") /\ at' = 0

\* Mutant: one data byte is enough for every message.
CompareOne ==
  /\ pc = "Compare"
  /\ Go(IF p.count >= 1 THEN "Send" ELSE "Idle")
  /\ UNCHANGED <<p, at>>

Compare ==
  /\ pc = "Compare"
  /\ Go(IF Complete(p) THEN "Send" ELSE "Idle")
  /\ UNCHANGED <<p, at>>

Send ==
  /\ pc = "Send"
  /\ p' = HandOver(p, p.status)
  /\ Go("Reset") /\ UNCHANGED at

\* Mutant: count_ is left as it is.
ResetNothing ==
  /\ pc = "Reset"
  /\ Go("Idle")
  /\ UNCHANGED <<p, at>>

Reset ==
  /\ pc = "Reset"
  /\ p' = [p EXCEPT !.count = 0]
  /\ Go("Idle") /\ UNCHANGED at

TaskStep ==
  \/ TakeByte \/ EndsSysex \/ InsideSysex
  \/ Open \/ First \/ Close \/ Closed \/ AppendSysex
  \/ Status \/ Store \/ Compare \/ Send \/ Reset

Interrupt == UsbMessage \/ UsbRest

Next == ~p.overrun /\ (SerialMessage \/ SerialRealtime \/ Interrupt \/ TaskStep)

Spec == Init /\ [][Next]_vars
-----------------------------------------------------------------------------
Kinds == {"F0", "F7", "rt", "st1", "st2", "d"}
Bytes == [kind : Kinds, msg : {"serial", "usb"} \X Nat, place : Nat]
ASSUME NoneAssumption == None \notin Bytes

Parser ==
  [status : Bytes \cup {None}, data : [1 .. 2 -> Bytes \cup {None}], count : 0 .. 2,
   sysex : Seq(Bytes), length : Nat, inSysex : BOOLEAN,
   out : Seq(Bytes \cup {None}), overrun : BOOLEAN]

(* Types.  What the task has read of the parser is a place the arrays had  *)
(* when it read it, and still have: sysex_buffer_ is never cut.            *)
TypeOK ==
  /\ p \in Parser
  /\ p.length <= Len(p.sysex)
  /\ pc \in {"Idle", "Ends", "Open", "First", "Close", "Closed", "Inside", "Append",
             "Status", "Store", "Compare", "Send", "Reset"}
  /\ byte \in Bytes \cup {None} /\ (pc # "Idle" => byte \in Bytes)
  /\ at \in Nat
  /\ pc = "Append" => at <= Len(p.sysex)
  /\ pc = "Store" => at < 2
  /\ line \in Seq(Bytes) /\ packets \in Seq(Bytes) /\ want \in Seq(Bytes)
  /\ sent \in [serial : Nat, usb : Nat, realtime : Nat]
  /\ clean \in BOOLEAN

(* data_ has two places, and no byte is stored into a third (midi.cpp:70). *)
(* The code does not keep this: the rest of a USB system exclusive message *)
(* that the serial port has closed is taken for data bytes, and may come   *)
(* when the task has stored its last byte but not yet reset count_.        *)
DataInBounds == ~p.overrun

(* That is the only way: no byte of the serial port, no packet that begins *)
(* a message and no packet inside a system exclusive message ever finds    *)
(* data_ full, and the others do only while the task hands over a message. *)
OverrunOnlyByCutSysex ==
  [][p'.overrun =>
       packets # <<>> /\ ~p.inSysex /\ pc \in {"Compare", "Send", "Reset"}]_vars

(* A serial message that no packet and no realtime byte came between is    *)
(* handed over as it was sent, cut to the length of nLength, at the latest *)
(* with its last byte.  One that a realtime byte does come between is      *)
(* broken: it is taken for a status, or for a byte of the system exclusive *)
(* message (midi.cpp:55-66).                                               *)
SerialWhole ==
  pc = "Idle" /\ line = <<>> /\ clean /\ want # <<>> =>
    p.out = SubSeq(want, 1, Len(want) % LenMod)

(* Until it is, nothing else is handed over.                               *)
NothingElse ==
  [][p'.out # p.out /\ clean' => p'.out = SubSeq(want, 1, Len(want) % LenMod)]_vars
-----------------------------------------------------------------------------
(* The invariant the three rest on.  Except while the task hands a message *)
(* over, data_ has room for the next byte; only a status makes it fill.    *)
CountFits(q) == q.count = 0 \/ (q.status # None /\ q.count < Needed(q.status))

RoomInv ==
  /\ pc \notin {"Compare", "Send", "Reset"} => CountFits(p)
  /\ pc \in {"Store", "Compare", "Send", "Reset"} => p.status # None

(* What is still to come of a USB message is the rest of a system          *)
(* exclusive message.                                                      *)
RestIsSysex ==
  \A i \in 1 .. Len(packets) : packets[i].kind = IF i = Len(packets) THEN "F7" ELSE "d"

(* A message as its status byte announces it.                              *)
WellFormed(m) ==
  /\ m[1].kind \in {"F0", "st1", "st2"}
  /\ m[1].kind = "F0" => Len(m) >= 2 /\ m[Len(m)].kind = "F7"
  /\ m[1].kind # "F0" => Len(m) = 1 + Needed(m[1])
  /\ \A i \in 2 .. Len(m) : m[1].kind # "F0" \/ i < Len(m) => m[i].kind = "d"

(* How much of the serial message the task has taken, the byte it works on *)
(* included, and that the rest is on the line.                             *)
Taken == Len(want) - Len(line)

InStep ==
  /\ Len(line) <= Len(want)
  /\ \A i \in 1 .. Len(line) : line[i] = want[Taken + i]
  /\ pc # "Idle" => Taken > 0 /\ byte = want[Taken]

(* What the parser has of a message after the first byte and c more.       *)
HasData(c) ==
  /\ ~p.inSysex /\ p.status = want[1] /\ p.count = c
  /\ \A i \in 1 .. c : p.data[i] = want[i + 1]

HasSysex(c) ==
  /\ p.inSysex /\ p.length = c
  /\ \A i \in 1 .. c : p.sysex[i] = want[i]

HandedOver == p.out = SubSeq(want, 1, Len(want) % LenMod)

VoiceInStep ==
  LET last == Taken = Len(want) IN
  /\ ~p.inSysex
  /\ pc \notin {"Open", "First", "Close", "Closed", "Append"}
  /\ pc = "Idle" /\ Taken > 0 /\ ~last => HasData(Taken - 1)
  /\ pc = "Idle" /\ last => HasData(0) /\ HandedOver
  /\ pc \in {"Ends", "Inside", "Store"} /\ Taken > 1 => HasData(Taken - 2)
  /\ pc = "Status" => Taken = 1
  /\ pc = "Store" => Taken > 1 /\ at = Taken - 2
  /\ pc \in {"Compare", "Send"} => Taken > 1 /\ HasData(Taken - 1)
  /\ pc \in {"Send", "Reset"} => last
  /\ pc = "Reset" => p.status = want[1] /\ HandedOver

SysexInStep ==
  LET last == Taken = Len(want) IN
  /\ pc \in {"Idle", "Ends", "Open", "First", "Close", "Closed", "Inside", "Append"}
  /\ pc = "Idle" /\ Taken > 0 /\ ~last => HasSysex(Taken)
  /\ pc = "Idle" /\ last => ~p.inSysex /\ HandedOver
  /\ pc \in {"Ends", "Close", "Inside", "Append"} /\ Taken > 1 => HasSysex(Taken - 1)
  /\ pc \in {"Open", "First"} <=> pc \notin {"Idle", "Ends"} /\ Taken = 1
  /\ pc = "First" => p.inSysex
  /\ pc \in {"Close", "Closed"} => last
  /\ pc \in {"Inside", "Append"} => ~last
  /\ pc = "Append" => at = Taken - 1
  /\ pc = "Closed" => HandedOver

SerialInStep ==
  clean /\ want # <<>> =>
    /\ WellFormed(want)
    /\ InStep
    /\ IF want[1].kind = "F0" THEN SysexInStep ELSE VoiceInStep

ParserInv == TypeOK /\ RoomInv /\ RestIsSysex /\ (want = <<>> => line = <<>> /\ pc = "Idle")
             /\ SerialInStep
=============================================================================
