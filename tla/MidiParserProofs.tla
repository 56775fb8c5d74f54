-------------------------- MODULE MidiParserProofs --------------------------
(***************************************************************************)
(* MidiParser's messages, whatever their number and their lengths: a       *)
(* serial message that nothing comes between arrives whole, and only the   *)
(* rest of a system exclusive message from USB can overrun data_.          *)
(*                                                                         *)
(* The lemmas go from the statements of ParseByte, to the whole of it in   *)
(* the interrupt, to the steps of the three actors; the task's step on a   *)
(* message is proved for its two kinds apart.                              *)
(***************************************************************************)
EXTENDS MidiParser, SequenceTheorems, TLAPS

(* A length below LenMod is not cut ...                                    *)
LEMMA ModSmall == \A x \in Nat : x < LenMod => x % LenMod = x
BY MidiAssumption, Z3

(* ... and one that is cut does not grow.                                  *)
LEMMA ModAtMost == \A x \in Nat : x % LenMod \in Nat /\ x % LenMod <= x
BY MidiAssumption, Z3

(* A stretch of a sequence.                                                *)
LEMMA Stretch ==
  ASSUME NEW S, NEW s \in Seq(S), NEW m \in Nat, m > 0, NEW n \in Nat, n <= Len(s)
  PROVE  /\ SubSeq(s, m, n) \in Seq(S)
         /\ Len(SubSeq(s, m, n)) = IF m <= n THEN n - m + 1 ELSE 0
         /\ \A j \in 1 .. n - m + 1 : SubSeq(s, m, n)[j] = s[m + j - 1]
<1>1. \A j \in m .. n : s[j] \in S
  OBVIOUS
<1>2. m \in Int /\ n \in Int
  OBVIOUS
<1> QED BY <1>1, <1>2, SubSeqProperties

(* A store into sysex_buffer_ changes its own place and the length.        *)
LEMMA Puts ==
  ASSUME NEW q \in Parser, NEW i \in Nat, i <= Len(q.sysex), NEW b \in Bytes
  PROVE  /\ PutSysex(q, i, b) \in Parser
         /\ PutSysex(q, i, b).length = i + 1
         /\ i + 1 <= Len(PutSysex(q, i, b).sysex)
         /\ Len(q.sysex) <= Len(PutSysex(q, i, b).sysex)
         /\ PutSysex(q, i, b).sysex[i + 1] = b
         /\ \A j \in 1 .. i : PutSysex(q, i, b).sysex[j] = q.sysex[j]
         /\ PutSysex(q, i, b).status = q.status
         /\ PutSysex(q, i, b).count = q.count
         /\ PutSysex(q, i, b).data = q.data
         /\ PutSysex(q, i, b).inSysex = q.inSysex
         /\ PutSysex(q, i, b).out = q.out
         /\ PutSysex(q, i, b).overrun = q.overrun
<1> DEFINE s == q.sysex
           u == SubSeq(s, 1, i)
           v == SubSeq(s, i + 2, Len(s))
           t == u \o <<b>> \o v
<1>1. s \in Seq(Bytes) /\ Len(s) \in Nat
  BY DEF Parser
<1>2. /\ u \in Seq(Bytes) /\ Len(u) = i
      /\ \A j \in 1 .. i : u[j] = s[j]
  <2>1. 1 \in Nat /\ 1 > 0 /\ i <= Len(s)
    OBVIOUS
  <2> HIDE DEF s
  <2>2. /\ u \in Seq(Bytes) /\ Len(u) = IF 1 <= i THEN i - 1 + 1 ELSE 0
        /\ \A j \in 1 .. i - 1 + 1 : u[j] = s[1 + j - 1]
    BY <1>1, <2>1, Stretch
  <2> HIDE DEF u
  <2> QED BY <2>2
<1>3. /\ v \in Seq(Bytes) /\ Len(v) \in Nat /\ Len(s) <= i + 1 + Len(v)
  <2>1. i + 2 \in Nat /\ i + 2 > 0
    OBVIOUS
  <2> HIDE DEF s
  <2>2. v \in Seq(Bytes) /\ Len(v) = IF i + 2 <= Len(s) THEN Len(s) - (i + 2) + 1 ELSE 0
    BY <1>1, <2>1, Stretch
  <2>3. Len(v) \in Nat
    BY <2>2, LenProperties
  <2> DEFINE a == Len(s)
             c == Len(v)
  <2>4. a \in Nat /\ c \in Nat /\ (c = IF i + 2 <= a THEN a - (i + 2) + 1 ELSE 0)
    BY <1>1, <2>2, <2>3
  <2> HIDE DEF a, c
  <2>5. a <= i + 1 + c
    BY <2>4
  <2> QED BY <2>2, <2>3, <2>5 DEF a, c
<1>4. /\ t \in Seq(Bytes) /\ Len(t) = i + 1 + Len(v)
      /\ t[i + 1] = b
      /\ \A j \in 1 .. i : t[j] = s[j]
  <2> HIDE DEF s, u, v
  <2> QED BY <1>1, <1>2, <1>3
<1>5. PutSysex(q, i, b) = [q EXCEPT !.sysex = t, !.length = i + 1]
  BY DEF PutSysex
<1>6. i + 1 <= Len(t) /\ Len(s) <= Len(t)
  <2> HIDE DEF s, v, t
  <2> QED BY <1>1, <1>3, <1>4
<1>7. \A t0 \in Seq(Bytes), k \in Nat :
        LET r == [q EXCEPT !.sysex = t0, !.length = k]
        IN  /\ r \in Parser
            /\ r.sysex = t0 /\ r.length = k
            /\ r.status = q.status /\ r.count = q.count /\ r.data = q.data
            /\ r.inSysex = q.inSysex /\ r.out = q.out /\ r.overrun = q.overrun
  BY DEF Parser
<1>8. t \in Seq(Bytes) /\ i + 1 \in Nat
  BY <1>4
<1> DEFINE r == [q EXCEPT !.sysex = t, !.length = i + 1]
<1>9. /\ r \in Parser
      /\ r.sysex = t /\ r.length = i + 1
      /\ r.status = q.status /\ r.count = q.count /\ r.data = q.data
      /\ r.inSysex = q.inSysex /\ r.out = q.out /\ r.overrun = q.overrun
  <2> HIDE DEF t
  <2> QED BY <1>7, <1>8, Zenon
<1> HIDE DEF s, t, r
<1> QED BY <1>4, <1>5, <1>6, <1>9 DEF r, s

(* The other statements of ParseByte.                                      *)
LEMMA SetsStatus ==
  ASSUME NEW q \in Parser, NEW b \in Bytes,
         NEW r, r = SetStatus(q, b)
  PROVE  /\ r \in Parser
         /\ r.status = b /\ r.count = 0
         /\ r.sysex = q.sysex /\ r.length = q.length /\ r.inSysex = q.inSysex
         /\ r.data = q.data /\ r.out = q.out /\ r.overrun = q.overrun
<1>1. b \in Bytes \cup {None} /\ r = [q EXCEPT !.status = b, !.count = 0] /\ 0 \in 0 .. 2
  BY DEF SetStatus
<1>2. \A st \in Bytes \cup {None}, k \in 0 .. 2 :
        r = [q EXCEPT !.status = st, !.count = k] =>
          /\ r \in Parser
          /\ r.status = st /\ r.count = k
          /\ r.sysex = q.sysex /\ r.length = q.length /\ r.inSysex = q.inSysex
          /\ r.data = q.data /\ r.out = q.out /\ r.overrun = q.overrun
  BY DEF Parser
<1> QED BY <1>1, <1>2, Zenon

(* A store into data_ changes its own place and the count ...              *)
LEMMA PutsData ==
  ASSUME NEW q \in Parser, NEW b \in Bytes, NEW i \in {0, 1}
  PROVE  /\ PutData(q, i, b) \in Parser
         /\ PutData(q, i, b).status = q.status
         /\ PutData(q, i, b).count = i + 1
         /\ \A j \in 1 .. 2 : PutData(q, i, b).data[j] = IF j = i + 1 THEN b ELSE q.data[j]
         /\ PutData(q, i, b).sysex = q.sysex
         /\ PutData(q, i, b).length = q.length
         /\ PutData(q, i, b).inSysex = q.inSysex
         /\ PutData(q, i, b).out = q.out
         /\ PutData(q, i, b).overrun = q.overrun
<1> DEFINE k == i + 1
           d == [q.data EXCEPT ![k] = b]
           r == PutData(q, i, b)
<1>1. k \in 0 .. 2 /\ k \in 1 .. 2
  OBVIOUS
<1>2. /\ d \in [1 .. 2 -> Bytes \cup {None}]
      /\ \A j \in 1 .. 2 : d[j] = IF j = k THEN b ELSE q.data[j]
  <2>1. q.data \in [1 .. 2 -> Bytes \cup {None}]
    BY DEF Parser
  <2> HIDE DEF k
  <2> QED BY <1>1, <2>1
<1>3. r = [q EXCEPT !.data = d, !.count = k]
  BY DEF PutData, Parser
<1> HIDE DEF d, k, r
<1>4. \A d0 \in [1 .. 2 -> Bytes \cup {None}], k0 \in 0 .. 2 :
        r = [q EXCEPT !.data = d0, !.count = k0] =>
          /\ r \in Parser
          /\ r.status = q.status
          /\ r.sysex = q.sysex /\ r.length = q.length /\ r.inSysex = q.inSysex
          /\ r.out = q.out /\ r.count = k0 /\ r.data = d0 /\ r.overrun = q.overrun
  BY DEF Parser
<1>5. /\ r \in Parser
      /\ r.status = q.status
      /\ r.sysex = q.sysex /\ r.length = q.length /\ r.inSysex = q.inSysex
      /\ r.out = q.out /\ r.count = k /\ r.data = d /\ r.overrun = q.overrun
  BY <1>1, <1>2, <1>3, <1>4, Zenon
<1> QED BY <1>2, <1>5 DEF k, r

(* ... and one behind it touches nothing the parser's invariant is about.  *)
LEMMA PutsBehind ==
  ASSUME NEW q \in Parser, NEW b \in Bytes
  PROVE  /\ PutData(q, 2, b) \in Parser
         /\ PutData(q, 2, b).status = q.status
         /\ PutData(q, 2, b).count = q.count
         /\ PutData(q, 2, b).sysex = q.sysex
         /\ PutData(q, 2, b).length = q.length
         /\ PutData(q, 2, b).inSysex = q.inSysex
         /\ PutData(q, 2, b).overrun
<1>1. PutData(q, 2, b) = [q EXCEPT !.overrun = TRUE]
  BY DEF PutData
<1> QED BY <1>1 DEF Parser

(* Handing over changes only what is handed over.                          *)
LEMMA HandsOverSysex ==
  ASSUME NEW q \in Parser, q.length <= Len(q.sysex),
         NEW r, r = HandOverSysex(q)
  PROVE  /\ r \in Parser
         /\ r.status = q.status /\ r.count = q.count /\ r.data = q.data
         /\ r.sysex = q.sysex /\ r.length = q.length /\ r.inSysex = q.inSysex
         /\ r.out = SubSeq(q.sysex, 1, q.length % LenMod) /\ r.overrun = q.overrun
<1> DEFINE k == q.length % LenMod
           o == SubSeq(q.sysex, 1, k)
<1>1. q.sysex \in Seq(Bytes) /\ q.length \in Nat
  BY DEF Parser
<1>2. k \in Nat /\ k <= q.length /\ Len(q.sysex) \in Nat
  BY <1>1, ModAtMost
<1>3. o \in Seq(Bytes)
  <2>1. k <= Len(q.sysex)
    <3> HIDE DEF k
    <3> QED BY <1>1, <1>2
  <2> HIDE DEF k
  <2> QED BY <1>1, <1>2, <2>1, Stretch
<1>4. o \in Seq(Bytes \cup {None})
  <2> HIDE DEF o
  <2> QED BY <1>3
<1>5. r = [q EXCEPT !.out = o]
  BY DEF HandOverSysex
<1>7. \A o0 \in Seq(Bytes \cup {None}) : r = [q EXCEPT !.out = o0] =>
        /\ r \in Parser
        /\ r.status = q.status /\ r.count = q.count /\ r.data = q.data
        /\ r.sysex = q.sysex /\ r.length = q.length /\ r.inSysex = q.inSysex
        /\ r.out = o0 /\ r.overrun = q.overrun
  BY DEF Parser
<1> HIDE DEF o
<1>6. /\ r \in Parser
      /\ r.status = q.status /\ r.count = q.count /\ r.data = q.data
      /\ r.sysex = q.sysex /\ r.length = q.length /\ r.inSysex = q.inSysex
      /\ r.out = o /\ r.overrun = q.overrun
  BY <1>4, <1>5, <1>7, Zenon
<1> QED BY <1>6, Zenon DEF o

(* The same of a channel message.                                          *)
GivenOver(r, q, st) ==
  /\ r \in Parser
  /\ r.status = q.status /\ r.count = q.count /\ r.data = q.data
  /\ r.sysex = q.sysex /\ r.length = q.length /\ r.inSysex = q.inSysex
  /\ r.out = <<st>> \o SubSeq(q.data, 1, q.count) /\ r.overrun = q.overrun

LEMMA HandsOver ==
  ASSUME NEW q \in Parser, NEW st \in Bytes,
         NEW r, r = HandOver(q, st)
  PROVE  GivenOver(r, q, st)
<1> DEFINE d == SubSeq(q.data, 1, q.count)
           o == <<st>> \o d
<1>1. q.data \in [1 .. 2 -> Bytes \cup {None}] /\ q.count \in 0 .. 2
  BY DEF Parser
<1>2. d \in Seq(Bytes \cup {None})
  <2>1. \A j \in 1 .. q.count : q.data[j] \in Bytes \cup {None}
    BY <1>1
  <2>2. q.count \in Int /\ 1 \in Int
    BY <1>1
  <2> QED BY <2>1, <2>2, SubSeqProperties
<1>3. o \in Seq(Bytes \cup {None})
  <2>1. <<st>> \in Seq(Bytes \cup {None})
    OBVIOUS
  <2> HIDE DEF d
  <2> QED BY <1>2, <2>1
<1>4. r = [q EXCEPT !.out = o]
  BY DEF HandOver
<1>6. \A o0 \in Seq(Bytes \cup {None}) : r = [q EXCEPT !.out = o0] =>
        /\ r \in Parser
        /\ r.status = q.status /\ r.count = q.count /\ r.data = q.data
        /\ r.sysex = q.sysex /\ r.length = q.length /\ r.inSysex = q.inSysex
        /\ r.out = o0 /\ r.overrun = q.overrun
  BY DEF Parser
<1> HIDE DEF o
<1>5. /\ r \in Parser
      /\ r.status = q.status /\ r.count = q.count /\ r.data = q.data
      /\ r.sysex = q.sysex /\ r.length = q.length /\ r.inSysex = q.inSysex
      /\ r.out = o /\ r.overrun = q.overrun
  BY <1>3, <1>4, <1>6, Zenon
<1> QED BY <1>5, Zenon DEF o, GivenOver

(* What ParseByte in the interrupt may do to the parser.                   *)
Parsed(q, b, r) ==
  /\ r \in Parser /\ r.length <= Len(r.sysex) /\ Len(q.sysex) <= Len(r.sysex)
  /\ q.status # None => r.status # None
  /\ CountFits(q) => CountFits(r)
  /\ CountFits(q) \/ q.inSysex => r.overrun = q.overrun
  /\ q.inSysex /\ b.kind # "F7" => r.inSysex
  /\ ~q.overrun /\ b.kind = "F0" => r.inSysex /\ ~r.overrun
  /\ ~q.overrun /\ ~q.inSysex /\ b.kind \in {"st1", "st2"} => CountFits(r) /\ ~r.overrun

(* ParseByte does no more than that, whatever the parser's state.          *)
LEMMA Parses ==
  ASSUME NEW q \in Parser, q.length <= Len(q.sysex), NEW b \in Bytes,
         NEW r, r = ParseByte(q, b)
  PROVE  Parsed(q, b, r)
<1>1. /\ q.sysex \in Seq(Bytes) /\ Len(q.sysex) \in Nat /\ q.length \in Nat /\ q.count \in 0 .. 2
      /\ q.inSysex \in BOOLEAN /\ q.overrun \in BOOLEAN
  BY DEF Parser
<1>2. CASE q.overrun
  <2>1. r = q
    BY <1>2 DEF ParseByte
  <2>2. Len(q.sysex) <= Len(q.sysex)
    BY <1>1
  <2> QED BY <1>2, <2>1, <2>2, Zenon DEF Parsed
<1>3. CASE ~q.overrun /\ b.kind = "F0"
  <2> DEFINE i == [q EXCEPT !.inSysex = TRUE]
             z == 0
  <2>1. /\ i \in Parser /\ i.sysex = q.sysex /\ i.inSysex /\ i.status = q.status
        /\ i.count = q.count /\ i.overrun = q.overrun
    BY DEF Parser
  <2>2. r = PutSysex(i, z, b)
    BY <1>3 DEF ParseByte
  <2>3. z \in Nat /\ z <= Len(i.sysex) /\ z + 1 = 1
    BY <1>1, <2>1
  <2> HIDE DEF i, z
  <2>4. r \in Parser /\ r.length = z + 1 /\ z + 1 <= Len(r.sysex)
    BY <2>1, <2>2, <2>3, Puts
  <2>5. Len(i.sysex) <= Len(r.sysex) /\ r.status = i.status /\ r.count = i.count
    BY <2>1, <2>2, <2>3, Puts
  <2>6. r.inSysex = i.inSysex /\ r.overrun = i.overrun
    <3>1. i \in Parser
      BY <2>1
    <3> QED BY <2>2, <2>3, <3>1, Puts
  <2> QED BY <1>3, <2>1, <2>3, <2>4, <2>5, <2>6 DEF Parsed, CountFits
<1>4. CASE ~q.overrun /\ b.kind # "F0" /\ q.inSysex
  <2> DEFINE s == PutSysex(q, q.length, b)
             n == q.length
  <2>1. /\ s \in Parser /\ s.length = n + 1 /\ n + 1 <= Len(s.sysex)
        /\ Len(q.sysex) <= Len(s.sysex) /\ s.status = q.status /\ s.count = q.count
        /\ s.inSysex = q.inSysex /\ s.overrun = q.overrun
    <3>1. s = PutSysex(q, n, b) /\ n \in Nat /\ n <= Len(q.sysex)
      BY <1>1
    <3> HIDE DEF s, n
    <3> QED BY <3>1, Puts
  <2>2. CASE b.kind = "F7"
    <3> DEFINE h == HandOverSysex(s)
    <3>1. r = [h EXCEPT !.inSysex = FALSE, !.length = 0]
      BY <1>4, <2>2 DEF ParseByte
    <3>2. /\ h \in Parser /\ h.status = s.status /\ h.count = s.count /\ h.sysex = s.sysex
          /\ h.overrun = s.overrun
      <4>1. s.length <= Len(s.sysex)
        <5> HIDE DEF s
        <5> QED BY <2>1
      <4> HIDE DEF s
      <4> QED BY <2>1, <4>1, HandsOverSysex
    <3> HIDE DEF h, s, n
    <3>3. \A k \in Nat, o \in BOOLEAN : r = [h EXCEPT !.inSysex = o, !.length = k] =>
            /\ r \in Parser /\ r.length = k /\ r.status = h.status /\ r.count = h.count
            /\ r.sysex = h.sysex /\ r.overrun = h.overrun
      BY <3>2 DEF Parser
    <3>4. 0 \in Nat /\ FALSE \in BOOLEAN
      OBVIOUS
    <3>5. /\ r \in Parser /\ r.length = 0 /\ r.status = h.status /\ r.count = h.count
          /\ r.sysex = h.sysex /\ r.overrun = h.overrun
      BY <3>1, <3>3, <3>4, Zenon
    <3>6. Len(s.sysex) \in Nat
      BY <2>1 DEF Parser
    <3> QED BY <1>1, <1>4, <2>1, <2>2, <3>2, <3>5, <3>6 DEF Parsed, CountFits
  <2>3. CASE b.kind # "F7"
    <3>1. r = s
      BY <1>4, <2>3 DEF ParseByte
    <3> HIDE DEF s, n
    <3> QED BY <1>4, <2>1, <2>3, <3>1 DEF Parsed, CountFits
  <2> QED BY <2>2, <2>3
<1>5. CASE ~q.overrun /\ b.kind # "F0" /\ ~q.inSysex /\ IsStatus(b)
  <2>1. r = SetStatus(q, b)
    BY <1>5 DEF ParseByte
  <2>2. /\ r \in Parser /\ r.status = b /\ r.count = 0 /\ r.sysex = q.sysex
        /\ r.length = q.length /\ r.overrun = q.overrun
    BY <2>1, SetsStatus
  <2>3. b # None
    BY NoneAssumption
  <2> QED BY <1>1, <1>5, <2>2, <2>3 DEF Parsed, CountFits
<1>6. CASE ~q.overrun /\ b.kind # "F0" /\ ~q.inSysex /\ ~IsStatus(b)
  <2>0. b.kind \notin {"st1", "st2"}
    BY <1>6 DEF IsStatus
  <2>1. CASE q.status = None
    <3>1. r = q
      BY <1>6, <2>1 DEF ParseByte
    <3> QED BY <1>1, <1>6, <2>0, <3>1 DEF Parsed
  <2>2. CASE q.status # None
    <3> DEFINE s == PutData(q, q.count, b)
               k == q.count
    <3>1. /\ s \in Parser /\ s.status = q.status /\ s.sysex = q.sysex /\ s.length = q.length
          /\ s.inSysex = q.inSysex
          /\ k < 2 => s.count = k + 1 /\ s.overrun = q.overrun
      <4>1. k \in 0 .. 2 /\ s = PutData(q, k, b)
        BY <1>1
      <4> HIDE DEF k, s
      <4>2. CASE k = 2
        BY <4>1, <4>2, PutsBehind
      <4>3. CASE k \in {0, 1}
        BY <4>1, <4>3, PutsData
      <4> QED BY <4>1, <4>2, <4>3
    <3>2. Needed(q.status) \in {1, 2} /\ k \in 0 .. 2 /\ (CountFits(q) => k < 2)
      BY <1>1 DEF Needed, CountFits
    <3>3. CASE ~s.overrun /\ Complete(s)
      <4> DEFINE h == HandOver(s, s.status)
      <4>1. r = [h EXCEPT !.count = 0]
        BY <1>6, <2>2, <3>3 DEF ParseByte
      <4>2. /\ h \in Parser /\ h.status = s.status /\ h.sysex = s.sysex /\ h.length = s.length
            /\ h.overrun = s.overrun
        <5>1. s.status \in Bytes
          <6>1. q.status \in Bytes
            BY <2>2 DEF Parser
          <6> HIDE DEF s
          <6> QED BY <3>1, <6>1
        <5>2. h = HandOver(s, s.status)
          OBVIOUS
        <5> HIDE DEF s, h
        <5>3. s \in Parser
          BY <3>1
        <5>4. GivenOver(h, s, s.status)
          BY <5>1, <5>2, <5>3, HandsOver, Zenon
        <5> QED BY <5>4, Zenon DEF GivenOver
      <4> HIDE DEF h, s, k
      <4>3. \A c \in 0 .. 2 : r = [h EXCEPT !.count = c] =>
              /\ r \in Parser /\ r.count = c /\ r.status = h.status
              /\ r.sysex = h.sysex /\ r.length = h.length /\ r.overrun = h.overrun
        BY <4>2 DEF Parser
      <4>4. 0 \in 0 .. 2
        OBVIOUS
      <4>5. /\ r \in Parser /\ r.count = 0 /\ r.status = h.status
            /\ r.sysex = h.sysex /\ r.length = h.length /\ r.overrun = h.overrun
        BY <4>1, <4>3, <4>4, Zenon
      <4> QED BY <1>1, <1>6, <2>0, <2>2, <3>1, <3>2, <3>3, <4>2, <4>5 DEF Parsed, CountFits
    <3>4. CASE ~(~s.overrun /\ Complete(s))
      <4>1. r = s
        BY <1>6, <2>2, <3>4 DEF ParseByte
      <4> HIDE DEF s, k
      <4> QED BY <1>1, <1>6, <2>0, <2>2, <3>1, <3>2, <3>4, <4>1
              DEF Parsed, CountFits, Complete, k
    <3> QED BY <3>3, <3>4
  <2> QED BY <2>1, <2>2
<1> QED BY <1>1, <1>2, <1>3, <1>4, <1>5, <1>6, Zenon

(* A packet that ends a system exclusive message ends with it.             *)
EndsLast(m) == \A k \in 1 .. Len(m) : m[k].kind = "F7" => k = Len(m)

(* A packet's byte, if it has one at that place.                           *)
LEMMA FeedsOne ==
  ASSUME NEW q \in Parser, q.length <= Len(q.sysex), NEW m \in Seq(Bytes),
         NEW k \in 1 .. 3, NEW r, r = Fed(q, m, k)
  PROVE  IF k <= Len(m) THEN Parsed(q, m[k], r) ELSE r = q
<1>1. CASE k <= Len(m)
  <2>1. m[k] \in Bytes /\ r = ParseByte(q, m[k])
    BY <1>1 DEF Fed
  <2>2. Parsed(q, m[k], r)
    BY <2>1, Parses
  <2> QED BY <1>1, <2>2
<1>2. CASE ~(k <= Len(m))
  BY <1>2 DEF Fed
<1> QED BY <1>1, <1>2

(* What the packets of the USB device may do to the parser.                *)
LEMMA Feeds ==
  ASSUME NEW q \in Parser, q.length <= Len(q.sysex), ~q.overrun,
         NEW m \in Seq(Bytes), Len(m) > 0, EndsLast(m),
         NEW r, r = Fed(Fed(Fed(q, m, 1), m, 2), m, 3)
  PROVE  /\ r \in Parser /\ r.length <= Len(r.sysex) /\ Len(q.sysex) <= Len(r.sysex)
         /\ q.status # None => r.status # None
         /\ CountFits(q) => CountFits(r)
         /\ CountFits(q) \/ q.inSysex \/ m[1].kind \in {"F0", "st1", "st2"} => ~r.overrun
<1> DEFINE q1 == Fed(q, m, 1)
           q2 == Fed(q1, m, 2)
<1>0. r = Fed(q2, m, 3) /\ Len(m) \in Nat
  OBVIOUS
<1>1. Parsed(q, m[1], q1)
  <2>1. 1 \in 1 .. 3 /\ 1 <= Len(m)
    BY <1>0
  <2> QED BY <2>1, FeedsOne
<1> HIDE DEF q1
<1>2. q1 \in Parser /\ q1.length <= Len(q1.sysex) /\ Len(q.sysex) <= Len(q1.sysex)
  BY <1>1 DEF Parsed
<1>3. IF 2 <= Len(m) THEN Parsed(q1, m[2], q2) ELSE q2 = q1
  <2>1. 2 \in 1 .. 3
    OBVIOUS
  <2> QED BY <1>2, <2>1, FeedsOne
<1> HIDE DEF q2
<1>4. Len(q.sysex) \in Nat /\ Len(q1.sysex) \in Nat
  BY <1>2 DEF Parser
<1>5. q2 \in Parser /\ q2.length <= Len(q2.sysex) /\ Len(q1.sysex) <= Len(q2.sysex)
  BY <1>2, <1>3, <1>4 DEF Parsed
<1>6. IF 3 <= Len(m) THEN Parsed(q2, m[3], r) ELSE r = q2
  <2>1. 3 \in 1 .. 3
    OBVIOUS
  <2> QED BY <1>0, <1>5, <2>1, FeedsOne
<1>7. Len(q2.sysex) \in Nat
  BY <1>5 DEF Parser
<1>8. r \in Parser /\ r.length <= Len(r.sysex) /\ Len(q2.sysex) <= Len(r.sysex)
  BY <1>5, <1>6, <1>7 DEF Parsed
<1>9. Len(q.sysex) <= Len(r.sysex)
  <2>1. Len(r.sysex) \in Nat
    BY <1>8 DEF Parser
  <2> QED BY <1>2, <1>4, <1>5, <1>7, <1>8, <2>1
<1>10. q.status # None => r.status # None
  BY <1>1, <1>3, <1>6, Zenon DEF Parsed
<1>11. CountFits(q) => CountFits(r) /\ ~r.overrun
  BY <1>1, <1>3, <1>6, Zenon DEF Parsed
<1>12. ASSUME q1.inSysex, ~q1.overrun, 1 < Len(m) => m[1].kind # "F7" PROVE ~r.overrun
  <2>1. ~q2.overrun
    BY <1>3, <1>12, Zenon DEF Parsed
  <2>2. 3 <= Len(m) => q2.inSysex
    <3>1. 3 <= Len(m) => 2 <= Len(m) /\ m[2].kind # "F7"
      BY <1>0 DEF EndsLast
    <3> QED BY <1>3, <1>12, <3>1, Zenon DEF Parsed
  <2> QED BY <1>6, <2>1, <2>2, Zenon DEF Parsed
<1>13. q.inSysex => ~r.overrun
  <2>1. CASE 1 < Len(m)
    <3>1. m[1].kind # "F7"
      BY <1>0, <2>1 DEF EndsLast
    <3> QED BY <1>1, <1>12, <3>1, Zenon DEF Parsed
  <2>2. CASE ~(1 < Len(m))
    <3>1. ~(2 <= Len(m)) /\ ~(3 <= Len(m))
      BY <1>0, <2>2
    <3> QED BY <1>1, <1>3, <1>6, <3>1, Zenon DEF Parsed
  <2> QED BY <2>1, <2>2
<1>14. m[1].kind = "F0" => ~r.overrun
  <2>1. m[1].kind = "F0" => m[1].kind # "F7"
    OBVIOUS
  <2> QED BY <1>1, <1>12, <2>1, Zenon DEF Parsed
<1>15. m[1].kind \in {"st1", "st2"} /\ ~q.inSysex => ~r.overrun
  BY <1>1, <1>3, <1>6, Zenon DEF Parsed
<1> QED BY <1>8, <1>9, <1>10, <1>11, <1>13, <1>14, <1>15

(* What the sources send is as its status byte announces it.               *)
LEMMA MessageShape ==
  ASSUME NEW id \in {"serial", "usb"} \X Nat, NEW bodies \in SUBSET Nat,
         NEW m \in Messages(id, bodies)
  PROVE  m \in Seq(Bytes) /\ Len(m) >= 2 /\ WellFormed(m)
<1>1. \A k \in Kinds, i \in Nat : ByteOf(k, id, i) \in Bytes /\ ByteOf(k, id, i).kind = k
  BY DEF ByteOf, Bytes
<1>2. \A n \in Nat : /\ Data(n, id) \in Seq(Bytes) /\ Len(Data(n, id)) = n
                     /\ \A i \in 1 .. n : Data(n, id)[i].kind = "d"
  <2> TAKE n \in Nat
  <2>1. \A i \in 1 .. n : ByteOf("d", id, i) \in Bytes /\ ByteOf("d", id, i).kind = "d"
    BY <1>1 DEF Kinds
  <2>2. Data(n, id) \in [1 .. n -> Bytes]
    BY <2>1 DEF Data
  <2> QED BY <2>1, <2>2 DEF Data
<1>3. ASSUME NEW k \in {"st1", "st2"}, m = Voice(k, id)
      PROVE  m \in Seq(Bytes) /\ Len(m) >= 2 /\ WellFormed(m)
  <2> DEFINE n == IF k = "st1" THEN 1 ELSE 2
             d == Data(n, id)
             b == ByteOf(k, id, 0)
  <2>1. b \in Bytes /\ b.kind = k /\ n \in {1, 2} /\ Needed(b) = n
    BY <1>1 DEF Kinds, Needed
  <2>2. d \in Seq(Bytes) /\ Len(d) = n /\ \A i \in 1 .. n : d[i].kind = "d"
    <3>1. n \in Nat
      BY <2>1
    <3> HIDE DEF n
    <3> QED BY <1>2, <3>1
  <2>3. m = <<b>> \o d
    BY <1>3 DEF Voice
  <2> HIDE DEF b, d, n
  <2>4. m \in Seq(Bytes) /\ Len(m) = 1 + n /\ m[1] = b /\ \A i \in 2 .. 1 + n : m[i] = d[i - 1]
    BY <2>1, <2>2, <2>3
  <2>5. \A i \in 2 .. Len(m) : m[i].kind = "d"
    BY <2>1, <2>2, <2>4
  <2>6. m[1].kind \in {"st1", "st2"} /\ Len(m) = 1 + Needed(m[1])
    BY <1>3, <2>1, <2>4
  <2> QED BY <2>1, <2>4, <2>5, <2>6 DEF WellFormed
<1>4. ASSUME NEW n \in bodies, m = Sysex(n, id)
      PROVE  m \in Seq(Bytes) /\ Len(m) >= 2 /\ WellFormed(m)
  <2> DEFINE d == Data(n, id)
             b == ByteOf("F0", id, 0)
             e == ByteOf("F7", id, n + 1)
  <2>1. b \in Bytes /\ b.kind = "F0" /\ e \in Bytes /\ e.kind = "F7" /\ n \in Nat
    <3>1. n \in Nat /\ n + 1 \in Nat
      BY <1>4
    <3> QED BY <1>1, <3>1 DEF Kinds
  <2>2. d \in Seq(Bytes) /\ Len(d) = n /\ \A i \in 1 .. n : d[i].kind = "d"
    BY <1>2, <2>1
  <2>3. m = <<b>> \o d \o <<e>>
    BY <1>4 DEF Sysex
  <2> HIDE DEF b, d, e
  <2>4. /\ m \in Seq(Bytes) /\ Len(m) = n + 2 /\ m[1] = b /\ m[n + 2] = e
        /\ \A i \in 2 .. 1 + n : m[i] = d[i - 1]
    BY <2>1, <2>2, <2>3
  <2>5. \A i \in 2 .. Len(m) : i < Len(m) => m[i].kind = "d"
    BY <2>1, <2>2, <2>4
  <2>6. m[1].kind = "F0" /\ m[Len(m)].kind = "F7"
    BY <2>1, <2>4
  <2> QED BY <2>1, <2>4, <2>5, <2>6 DEF WellFormed
<1> QED BY <1>3, <1>4 DEF Messages

(* ResetParser's state is in step with anything.                           *)
LEMMA ParserInit == Init => ParserInv
<1> SUFFICES ASSUME Init PROVE ParserInv
  OBVIOUS
<1>1. p \in Parser /\ p.length <= Len(p.sysex) /\ p.count = 0 /\ p.status = None
  BY DEF Init, Parser
<1>2. TypeOK
  BY <1>1 DEF Init, TypeOK
<1> QED BY <1>1, <1>2 DEF Init, ParserInv, RoomInv, CountFits, RestIsSysex, SerialInStep

(* The interrupt.                                                          *)
LEMMA PacketStep ==
  ASSUME ParserInv, ~p.overrun, NEW m \in Seq(Bytes), Len(m) > 0, EndsLast(m),
         \A i \in 4 .. Len(m) : i < Len(m) => m[i].kind = "d",
         Len(m) > 3 => m[Len(m)].kind = "F7",
         Feed(m), sent' \in [serial : Nat, usb : Nat, realtime : Nat]
  PROVE  /\ ParserInv'
         /\ CountFits(p) \/ p.inSysex \/ m[1].kind \in {"F0", "st1", "st2"} => ~p'.overrun
<1> DEFINE c == IF Len(m) < 3 THEN Len(m) ELSE 3
           f == SubSeq(m, 1, c)
<1>0. Len(m) \in Nat
  OBVIOUS
<1>1. c \in 1 .. Len(m) /\ c <= 3 /\ (c < 3 => c = Len(m))
  BY <1>0
<1>2. f \in Seq(Bytes) /\ Len(f) = c /\ \A i \in 1 .. c : f[i] = m[i]
  <2>1. 1 \in Nat /\ 1 > 0 /\ c \in Nat /\ c <= Len(m) /\ 1 <= c
    BY <1>1
  <2> HIDE DEF c
  <2>2. /\ f \in Seq(Bytes) /\ Len(f) = IF 1 <= c THEN c - 1 + 1 ELSE 0
        /\ \A j \in 1 .. c - 1 + 1 : f[j] = m[1 + j - 1]
    BY <2>1, Stretch
  <2> HIDE DEF f
  <2> QED BY <2>1, <2>2
<1>3. p' = Fed(Fed(Fed(p, f, 1), f, 2), f, 3)
  BY DEF Feed, FeedUSBMIDIPacket
<1>4. UNCHANGED <<pc, byte, at, line, want>> /\ clean' = FALSE
      /\ packets' = SubSeq(m, 4, Len(m))
  BY DEF Feed
<1> HIDE DEF c
<1>5. EndsLast(f) /\ Len(f) > 0
  BY <1>0, <1>1, <1>2 DEF EndsLast
<1> HIDE DEF f
<1>6. p \in Parser /\ p.length <= Len(p.sysex)
  BY DEF ParserInv, TypeOK
<1>7. /\ p' \in Parser /\ p'.length <= Len(p'.sysex) /\ Len(p.sysex) <= Len(p'.sysex)
      /\ p.status # None => p'.status # None
      /\ CountFits(p) => CountFits(p')
      /\ CountFits(p) \/ p.inSysex \/ f[1].kind \in {"F0", "st1", "st2"} => ~p'.overrun
  BY <1>2, <1>3, <1>5, <1>6, Feeds
<1>8. packets' \in Seq(Bytes) /\ RestIsSysex'
  <2> DEFINE n == Len(m)
             t == SubSeq(m, 4, n)
  <2>1. 4 \in Nat /\ 4 > 0 /\ n \in Nat /\ n <= Len(m)
    BY <1>0
  <2>2. /\ t \in Seq(Bytes) /\ Len(t) = IF 4 <= n THEN n - 4 + 1 ELSE 0
        /\ \A j \in 1 .. n - 4 + 1 : t[j] = m[4 + j - 1]
    <3> HIDE DEF n
    <3> QED BY <2>1, Stretch
  <2>3. packets' = t
    BY <1>4
  <2> HIDE DEF t
  <2>4. \A i \in 1 .. Len(t) : t[i].kind = IF i = Len(t) THEN "F7" ELSE "d"
    <3> SUFFICES ASSUME NEW i \in 1 .. Len(t)
                 PROVE  t[i].kind = IF i = Len(t) THEN "F7" ELSE "d"
      OBVIOUS
    <3>1. n > 3 /\ Len(t) = n - 3 /\ i + 3 \in 4 .. n /\ t[i] = m[i + 3]
      BY <2>1, <2>2
    <3> QED BY <2>1, <3>1
  <2> QED BY <2>2, <2>3, <2>4 DEF RestIsSysex
<1>9. TypeOK'
  <2>1. Len(p.sysex) \in Nat /\ Len(p'.sysex) \in Nat
    BY <1>6, <1>7 DEF Parser
  <2>2. pc' = "Append" => at' <= Len(p'.sysex)
    BY <1>4, <1>7, <2>1 DEF ParserInv, TypeOK
  <2> QED BY <1>4, <1>7, <1>8, <2>2 DEF ParserInv, TypeOK
<1>10. RoomInv'
  BY <1>4, <1>7, Zenon DEF ParserInv, RoomInv
<1>11. SerialInStep' /\ (want' = <<>> => line' = <<>> /\ pc' = "Idle")
  BY <1>4 DEF SerialInStep, ParserInv
<1>12. f[1] = m[1]
  BY <1>1, <1>2
<1>13. ParserInv'
  BY <1>8, <1>9, <1>10, <1>11 DEF ParserInv
<1> QED BY <1>7, <1>12, <1>13

(* A packet finds data_ full only if it is the rest of a system exclusive  *)
(* message whose beginning the parser has forgotten.                       *)
LEMMA InterruptStep ==
  ASSUME ParserInv, ~p.overrun, Interrupt
  PROVE  /\ ParserInv'
         /\ p'.overrun =>
              packets # <<>> /\ ~p.inSysex /\ pc \in {"Compare", "Send", "Reset"}
<1>1. CASE UsbMessage
  <2>1. PICK m \in Messages(<<"usb", sent.usb>>, UsbBodies) : UsbBegins(m)
    BY <1>1 DEF UsbMessage
  <2>2. m \in Seq(Bytes) /\ Len(m) >= 2 /\ WellFormed(m)
    <3>1. <<"usb", sent.usb>> \in {"serial", "usb"} \X Nat
      BY DEF ParserInv, TypeOK
    <3> QED BY <3>1, MidiAssumption, MessageShape
  <2>3. /\ \A i \in 4 .. Len(m) : i < Len(m) => m[i].kind = "d"
        /\ Len(m) > 3 => m[Len(m)].kind = "F7"
        /\ EndsLast(m) /\ m[1].kind \in {"F0", "st1", "st2"}
    <3>1. /\ m[1].kind \in {"F0", "st1", "st2"}
          /\ m[1].kind # "F0" => Len(m) \in 2 .. 3
          /\ m[1].kind = "F0" => m[Len(m)].kind = "F7"
          /\ \A i \in 2 .. Len(m) : m[1].kind # "F0" \/ i < Len(m) => m[i].kind = "d"
          /\ Len(m) \in Nat
      BY <2>2 DEF WellFormed, Needed
    <3>2. EndsLast(m)
      <4> SUFFICES ASSUME NEW k \in 1 .. Len(m), m[k].kind = "F7" PROVE k = Len(m)
        BY DEF EndsLast
      <4>1. k # 1
        BY <3>1
      <4>2. k \in 2 .. Len(m)
        BY <3>1, <4>1
      <4>3. ~(m[1].kind # "F0" \/ k < Len(m))
        BY <3>1, <4>2
      <4> QED BY <3>1, <4>2, <4>3
    <3> QED BY <3>1, <3>2
  <2>4. Feed(m) /\ sent' \in [serial : Nat, usb : Nat, realtime : Nat]
    <3>1. sent \in [serial : Nat, usb : Nat, realtime : Nat]
      BY DEF ParserInv, TypeOK
    <3>2. Feed(m) /\ sent' = [sent EXCEPT !.usb = @ + 1]
      BY <2>1, Zenon DEF UsbBegins
    <3> QED BY <3>1, <3>2
  <2>5. Len(m) > 0
    BY <2>2
  <2> QED BY <2>2, <2>3, <2>4, <2>5, PacketStep
<1>2. CASE UsbRest
  <2>1. packets # <<>> /\ Feed(packets) /\ UNCHANGED sent
    BY <1>2 DEF UsbRest
  <2>2. /\ packets \in Seq(Bytes) /\ Len(packets) > 0 /\ Len(packets) \in Nat
        /\ sent' \in [serial : Nat, usb : Nat, realtime : Nat]
        /\ \A i \in 1 .. Len(packets) : packets[i].kind = IF i = Len(packets) THEN "F7" ELSE "d"
    BY <2>1 DEF ParserInv, TypeOK, RestIsSysex
  <2>3. /\ \A i \in 4 .. Len(packets) : i < Len(packets) => packets[i].kind = "d"
        /\ Len(packets) > 3 => packets[Len(packets)].kind = "F7"
        /\ EndsLast(packets)
    BY <2>2 DEF EndsLast
  <2>4. ParserInv' /\ (CountFits(p) \/ p.inSysex => ~p'.overrun)
    BY <2>1, <2>2, <2>3, PacketStep
  <2> QED BY <2>1, <2>4 DEF ParserInv, RoomInv
<1> QED BY <1>1, <1>2 DEF Interrupt

(* What stands behind a byte put in front.                                 *)
Fronted(r, a, s) ==
  /\ r \in Seq(Bytes) /\ Len(r) = 1 + Len(s) /\ r[1] = a
  /\ \A i \in 2 .. 1 + Len(s) : r[i] = s[i - 1]

LEMMA InFront ==
  ASSUME NEW a \in Bytes, NEW s \in Seq(Bytes), NEW r, r = <<a>> \o s
  PROVE  Fronted(r, a, s)
BY DEF Fronted

(* The serial port.                                                        *)
LEMMA SerialStep == ParserInv /\ (SerialMessage \/ SerialRealtime) => ParserInv'
<1> SUFFICES ASSUME ParserInv, SerialMessage \/ SerialRealtime PROVE ParserInv'
  OBVIOUS
<1>1. CASE SerialMessage
  <2>1. PICK m \in Messages(<<"serial", sent.serial>>, Bodies) :
          \/ line' = m /\ want' = m /\ clean' = ~p.inSysex
          \/ /\ want # <<>> /\ m[1].kind = want[1].kind /\ m[1].kind # "F0"
             /\ line' = Tail(m) /\ want' = <<want[1]>> \o Tail(m)
             /\ UNCHANGED clean
    BY <1>1 DEF SerialMessage
  <2>2. /\ pc = "Idle" /\ line = <<>> /\ sent' = [sent EXCEPT !.serial = @ + 1]
        /\ UNCHANGED <<p, pc, byte, at, packets>>
    BY <1>1 DEF SerialMessage
  <2>3. m \in Seq(Bytes) /\ Len(m) >= 2 /\ WellFormed(m)
    <3>1. <<"serial", sent.serial>> \in {"serial", "usb"} \X Nat
      BY DEF ParserInv, TypeOK
    <3> QED BY <3>1, MidiAssumption, MessageShape
  <2>4. RoomInv' /\ RestIsSysex'
    BY <2>2 DEF ParserInv, RoomInv, RestIsSysex
  <2>5. sent' \in [serial : Nat, usb : Nat, realtime : Nat]
    <3>1. sent \in [serial : Nat, usb : Nat, realtime : Nat]
      BY DEF ParserInv, TypeOK
    <3>2. sent' = [sent EXCEPT !.serial = @ + 1]
      BY <2>2
    <3> QED BY <3>1, <3>2
  <2>6. CASE line' = m /\ want' = m /\ clean' = ~p.inSysex
    <3>1. p.inSysex \in BOOLEAN
      BY DEF ParserInv, TypeOK, Parser
    <3>2. TypeOK'
      BY <2>2, <2>3, <2>5, <2>6, <3>1 DEF ParserInv, TypeOK
    <3>3. want' # <<>> /\ Len(m) \in Nat
      BY <2>3, <2>6
    <3>4. SerialInStep'
      <4> SUFFICES ASSUME clean'
                   PROVE  /\ WellFormed(want') /\ InStep'
                          /\ IF want'[1].kind = "F0" THEN SysexInStep' ELSE VoiceInStep'
        BY DEF SerialInStep
      <4>1. Taken' = 0 /\ Len(want') # 0
        BY <2>3, <2>6, <3>3 DEF Taken
      <4>2. InStep'
        BY <2>2, <2>6, <3>3, <4>1 DEF InStep
      <4>3. pc' = "Idle" /\ ~p'.inSysex
        BY <2>2, <2>6
      <4>4. VoiceInStep'
        BY <4>1, <4>3 DEF VoiceInStep
      <4>5. SysexInStep'
        BY <4>1, <4>3 DEF SysexInStep
      <4> QED BY <2>3, <2>6, <4>2, <4>4, <4>5
    <3> QED BY <2>4, <3>2, <3>3, <3>4 DEF ParserInv
  <2>7. CASE /\ want # <<>> /\ m[1].kind = want[1].kind /\ m[1].kind # "F0"
             /\ line' = Tail(m) /\ want' = <<want[1]>> \o Tail(m)
             /\ UNCHANGED clean
    <3> DEFINE t == Tail(m)
    <3>1. /\ t \in Seq(Bytes) /\ Len(t) = Len(m) - 1 /\ Len(m) \in Nat
          /\ \A i \in 1 .. Len(m) - 1 : t[i] = m[i + 1]
      BY <2>3
    <3>2. want \in Seq(Bytes) /\ want[1] \in Bytes
      BY <2>7 DEF ParserInv, TypeOK
    <3>3. line' = t /\ want' = <<want[1]>> \o t
      BY <2>7
    <3> HIDE DEF t
    <3>4. /\ want' \in Seq(Bytes) /\ Len(want') = Len(m) /\ want'[1] = want[1]
          /\ \A i \in 2 .. Len(m) : want'[i] = m[i] /\ want'[i] = t[i - 1]
      <4>1. /\ want' \in Seq(Bytes) /\ Len(want') = 1 + Len(t) /\ want'[1] = want[1]
            /\ \A i \in 2 .. 1 + Len(t) : want'[i] = t[i - 1]
        <5>1. Fronted(want', want[1], t)
          BY <3>1, <3>2, <3>3, InFront, Zenon
        <5> QED BY <5>1, Zenon DEF Fronted
      <4>2. Len(want') = Len(m)
        BY <3>1, <4>1
      <4>3. \A i \in 2 .. Len(m) : i \in 2 .. 1 + Len(t) /\ t[i - 1] = m[i]
        <5> SUFFICES ASSUME NEW i \in 2 .. Len(m)
                     PROVE  i \in 2 .. 1 + Len(t) /\ t[i - 1] = m[i]
          OBVIOUS
        <5>1. i - 1 \in 1 .. Len(m) - 1 /\ (i - 1) + 1 = i
          BY <3>1
        <5> QED BY <3>1, <5>1
      <4> QED BY <4>1, <4>2, <4>3, Zenon
    <3>5. TypeOK'
      BY <2>2, <2>5, <2>7, <3>1, <3>3, <3>4 DEF ParserInv, TypeOK
    <3>6. want' # <<>>
      BY <2>3, <3>4
    <3>7. SerialInStep'
      <4> SUFFICES ASSUME clean'
                   PROVE  /\ WellFormed(want') /\ InStep'
                          /\ IF want'[1].kind = "F0" THEN SysexInStep' ELSE VoiceInStep'
        BY DEF SerialInStep
      <4>1. InStep /\ VoiceInStep
        BY <2>7 DEF ParserInv, SerialInStep
      <4>2. HasData(0)
        <5>1. Taken = Len(want)
          BY <2>2, <3>2 DEF Taken
        <5> QED BY <2>2, <4>1, <5>1 DEF VoiceInStep
      <4>3. Taken' = 1 /\ Len(want') # 1
        BY <2>3, <3>1, <3>3, <3>4 DEF Taken
      <4>4. InStep'
        BY <2>2, <3>1, <3>3, <3>4, <4>3 DEF InStep
      <4>5. HasData(0)'
        BY <2>2, <3>4, <4>2 DEF HasData
      <4>6. VoiceInStep'
        BY <2>2, <4>3, <4>5 DEF VoiceInStep, HasData
      <4>7. WellFormed(want')
        BY <2>3, <2>7, <3>4 DEF WellFormed, Needed
      <4>8. want'[1].kind # "F0"
        BY <2>7, <3>4
      <4> QED BY <4>4, <4>6, <4>7, <4>8
    <3> QED BY <2>4, <3>5, <3>6, <3>7 DEF ParserInv
  <2> QED BY <2>1, <2>6, <2>7
<1>2. CASE SerialRealtime
  <2>1. /\ line # <<>> /\ clean' = FALSE
        /\ line' = <<ByteOf("rt", <<"serial", sent.serial>>, 0)>> \o line
        /\ sent' = [sent EXCEPT !.realtime = @ + 1]
        /\ UNCHANGED <<p, pc, byte, at, packets, want>>
    BY <1>2 DEF SerialRealtime
  <2>2. ByteOf("rt", <<"serial", sent.serial>>, 0) \in Bytes
    BY DEF ParserInv, TypeOK, ByteOf, Bytes, Kinds
  <2>3. line' \in Seq(Bytes)
    BY <2>1, <2>2 DEF ParserInv, TypeOK
  <2>6. sent' \in [serial : Nat, usb : Nat, realtime : Nat]
    <3>1. sent \in [serial : Nat, usb : Nat, realtime : Nat]
      BY DEF ParserInv, TypeOK
    <3>2. sent' = [sent EXCEPT !.realtime = @ + 1]
      BY <2>1
    <3> QED BY <3>1, <3>2
  <2>4. TypeOK'
    BY <2>1, <2>3, <2>6 DEF ParserInv, TypeOK
  <2>5. want # <<>>
    BY <2>1 DEF ParserInv
  <2> QED BY <2>1, <2>4, <2>5 DEF ParserInv, RoomInv, RestIsSysex, SerialInStep
<1> QED BY <1>1, <1>2

(* The task: where it stores, and that data_ has room for it.              *)
LEMMA TaskTypes ==
  ASSUME ParserInv, ~p.overrun, TaskStep
  PROVE  /\ TypeOK' /\ RoomInv' /\ RestIsSysex'
         /\ want # <<>> /\ UNCHANGED <<want, clean>> /\ ~p'.overrun
<1>1. /\ p \in Parser /\ p.length <= Len(p.sysex) /\ byte \in Bytes \cup {None} /\ at \in Nat
      /\ line \in Seq(Bytes) /\ packets \in Seq(Bytes) /\ want \in Seq(Bytes)
      /\ clean \in BOOLEAN
      /\ pc # "Idle" => byte \in Bytes
      /\ pc = "Append" => at <= Len(p.sysex)
      /\ pc = "Store" => at < 2
  BY DEF ParserInv, TypeOK
<1>2. sent \in [serial : Nat, usb : Nat, realtime : Nat]
  BY DEF ParserInv, TypeOK
<1>3. /\ pc \notin {"Compare", "Send", "Reset"} => CountFits(p)
      /\ pc \in {"Store", "Compare", "Send", "Reset"} => p.status # None
  BY DEF ParserInv, RoomInv
<1>4. UNCHANGED <<packets, sent, want, clean>> /\ want # <<>>
  BY DEF ParserInv, TaskStep, TakeByte, EndsSysex, InsideSysex, Open, First, Close, Closed,
         AppendSysex, Status, Store, Compare, Send, Reset, Go, source
<1>5. RestIsSysex'
  BY <1>4 DEF ParserInv, RestIsSysex
<1>6. /\ p.length \in Nat /\ Len(p.sysex) \in Nat /\ p.count \in 0 .. 2
      /\ p.status \in Bytes \cup {None} /\ p.inSysex \in BOOLEAN
  BY <1>1 DEF Parser
<1>7. SUFFICES /\ p' \in Parser /\ p'.length <= Len(p'.sysex) /\ ~p'.overrun
               /\ pc' \in {"Idle", "Ends", "Open", "First", "Close", "Closed", "Inside",
                           "Append", "Status", "Store", "Compare", "Send", "Reset"}
               /\ byte' \in Bytes \cup {None} /\ (pc' # "Idle" => byte' \in Bytes)
               /\ at' \in Nat /\ line' \in Seq(Bytes)
               /\ pc' = "Append" => at' <= Len(p'.sysex)
               /\ pc' = "Store" => at' < 2
               /\ RoomInv'
  <2>1. sent' \in [serial : Nat, usb : Nat, realtime : Nat]
    BY <1>2, <1>4
  <2> QED BY <1>1, <1>4, <1>5, <1>7, <2>1 DEF TypeOK
<1>8. CASE TakeByte
  <2>1. Head(line) \in Bytes /\ Tail(line) \in Seq(Bytes)
    BY <1>1, <1>8 DEF TakeByte
  <2>2. p' = p /\ pc = "Idle" /\ pc' = "Ends" /\ at' = at /\ byte' = Head(line) /\ line' = Tail(line)
    BY <1>8 DEF TakeByte
  <2>3. RoomInv'
    BY <1>3, <2>2 DEF RoomInv
  <2> QED BY <1>1, <2>1, <2>2, <2>3
<1>9. ASSUME line' = line, byte' = byte, pc # "Idle", p' = p, at' = at, ~p.overrun,
             pc' \in {"Open", "Close", "Inside"},
             pc = "Ends"
      PROVE  RoomInv'
  BY <1>3, <1>9 DEF RoomInv
<1>10. CASE EndsSysex
  <2>1. /\ pc = "Ends" /\ pc' \in {"Open", "Close", "Inside"} /\ byte' = byte /\ line' = line
        /\ p' = p /\ at' = at
    BY <1>10 DEF EndsSysex, Go, source
  <2> QED BY <1>1, <1>9, <2>1
<1>11. CASE InsideSysex
  <2>1. /\ pc = "Inside" /\ line' = line /\ p' = p
        /\ pc' \in {"Append", "Status", "Idle", "Store"}
        /\ byte' = (IF pc' = "Idle" THEN None ELSE byte)
        /\ at' = IF p.inSysex THEN p.length ELSE IF pc' = "Store" THEN p.count ELSE 0
    BY <1>6, <1>11 DEF InsideSysex, Go, source
  <2>2. pc' = "Store" => ~p.inSysex /\ p.status # None
    BY <1>6, <1>11 DEF InsideSysex, Go
  <2>3. pc' = "Append" => p.inSysex
    BY <1>6, <1>11 DEF InsideSysex, Go
  <2>4. CountFits(p)
    BY <1>3, <2>1
  <2>5. p.count < 2
    BY <1>6, <2>4 DEF CountFits, Needed
  <2>6. RoomInv'
    BY <2>1, <2>2, <2>4 DEF RoomInv
  <2>7. at' \in Nat /\ (pc' = "Append" => at' <= Len(p'.sysex)) /\ (pc' = "Store" => at' < 2)
    BY <1>1, <1>6, <2>1, <2>2, <2>3, <2>5
  <2> QED BY <1>1, <2>1, <2>6, <2>7
<1>12. ASSUME NEW n \in {"Idle", "First", "Closed", "Compare", "Send", "Reset"},
              pc' = n, pc # "Idle", byte' = (IF n = "Idle" THEN None ELSE byte),
              line' = line, at' = at \/ at' = 0,
              p' \in Parser, p'.length <= Len(p'.sysex), ~p'.overrun,
              CountFits(p') \/ n \in {"Compare", "Send", "Reset"},
              n \in {"Compare", "Send", "Reset"} => p'.status # None
       PROVE  /\ p' \in Parser /\ p'.length <= Len(p'.sysex) /\ ~p'.overrun
              /\ pc' \in {"Idle", "Ends", "Open", "First", "Close", "Closed", "Inside",
                          "Append", "Status", "Store", "Compare", "Send", "Reset"}
              /\ byte' \in Bytes \cup {None} /\ (pc' # "Idle" => byte' \in Bytes)
              /\ at' \in Nat /\ line' \in Seq(Bytes)
              /\ pc' = "Append" => at' <= Len(p'.sysex)
              /\ pc' = "Store" => at' < 2
              /\ RoomInv'
  <2>1. RoomInv'
    BY <1>12, Zenon DEF RoomInv
  <2> QED BY <1>1, <1>12, <2>1
<1>13. CASE Open
  <2>1. /\ pc = "Open" /\ pc' = "First" /\ byte' = byte /\ line' = line /\ at' = at
        /\ p' = [p EXCEPT !.inSysex = TRUE]
    BY <1>13 DEF Open, Go, source
  <2>2. /\ p' \in Parser /\ p'.length = p.length /\ p'.sysex = p.sysex /\ p'.overrun = p.overrun
        /\ p'.count = p.count /\ p'.status = p.status
    BY <1>1, <2>1 DEF Parser
  <2>3. CountFits(p')
    BY <1>3, <2>1, <2>2 DEF CountFits
  <2> QED BY <1>1, <1>12, <2>1, <2>2, <2>3
<1>14. CASE Closed
  <2>1. /\ pc = "Closed" /\ pc' = "Idle" /\ byte' = None /\ line' = line /\ at' = at
        /\ p' = [p EXCEPT !.inSysex = FALSE, !.length = 0]
    BY <1>14 DEF Closed, Go, source
  <2>2. /\ p' \in Parser /\ p'.length = 0 /\ p'.sysex = p.sysex /\ p'.overrun = p.overrun
        /\ p'.count = p.count /\ p'.status = p.status
    BY <1>1, <2>1 DEF Parser
  <2>3. CountFits(p')
    BY <1>3, <2>1, <2>2 DEF CountFits
  <2>4. p'.length <= Len(p'.sysex)
    BY <1>6, <2>2
  <2> QED BY <1>12, <2>1, <2>2, <2>3, <2>4
<1>15. ASSUME NEW i \in Nat, i <= Len(p.sysex), NEW r, r = PutSysex(p, i, byte),
              byte \in Bytes, CountFits(p)
       PROVE  r \in Parser /\ r.length <= Len(r.sysex) /\ CountFits(r) /\ ~r.overrun
  <2>1. r \in Parser /\ r.length = i + 1 /\ i + 1 <= Len(r.sysex)
    BY <1>1, <1>15, Puts
  <2>2. r.status = p.status /\ r.count = p.count /\ r.overrun = p.overrun
    BY <1>1, <1>15, Puts
  <2> QED BY <1>15, <2>1, <2>2 DEF CountFits
<1>16. CASE First
  <2> DEFINE z == 0
  <2>1. /\ pc = "First" /\ pc' = "Idle" /\ byte' = None /\ line' = line /\ at' = at
        /\ p' = PutSysex(p, z, byte)
    BY <1>16 DEF First, Go, source
  <2>2. z \in Nat /\ z <= Len(p.sysex)
    BY <1>6
  <2> HIDE DEF z
  <2>3. byte \in Bytes /\ CountFits(p)
    BY <1>1, <1>3, <2>1
  <2>4. p' \in Parser /\ p'.length <= Len(p'.sysex) /\ CountFits(p') /\ ~p'.overrun
    BY <1>15, <2>1, <2>2, <2>3
  <2> QED BY <1>12, <2>1, <2>4
<1>17. CASE AppendSysex
  <2>1. /\ pc = "Append" /\ pc' = "Idle" /\ byte' = None /\ line' = line /\ at' = 0
        /\ p' = PutSysex(p, at, byte)
    BY <1>17 DEF AppendSysex, Go, source
  <2>2. at \in Nat /\ at <= Len(p.sysex) /\ byte \in Bytes /\ CountFits(p)
    BY <1>1, <1>3, <2>1
  <2>4. p' \in Parser /\ p'.length <= Len(p'.sysex) /\ CountFits(p') /\ ~p'.overrun
    BY <1>15, <2>1, <2>2
  <2> QED BY <1>12, <2>1, <2>4
<1>18. CASE Close
  <2> DEFINE r == PutSysex(p, p.length, byte)
             n == p.length
  <2>1. /\ pc = "Close" /\ pc' = "Closed" /\ byte' = byte /\ line' = line /\ at' = at
        /\ p' = HandOverSysex(r)
    BY <1>18 DEF Close, Go, source
  <2>2. byte \in Bytes /\ CountFits(p) /\ n \in Nat /\ n <= Len(p.sysex) /\ r = PutSysex(p, n, byte)
    BY <1>1, <1>3, <1>6, <2>1
  <2> HIDE DEF n, r
  <2>3. r \in Parser /\ r.length <= Len(r.sysex) /\ CountFits(r) /\ ~r.overrun
    BY <1>15, <2>2
  <2>4. /\ p' \in Parser /\ p'.length = r.length /\ p'.sysex = r.sysex /\ p'.overrun = r.overrun
        /\ p'.count = r.count /\ p'.status = r.status
    BY <2>1, <2>3, HandsOverSysex
  <2>5. CountFits(p')
    BY <2>3, <2>4 DEF CountFits
  <2>6. p'.length <= Len(p'.sysex) /\ ~p'.overrun
    BY <2>3, <2>4
  <2> QED BY <1>12, <2>1, <2>4, <2>5, <2>6
<1>19. CASE Status
  <2>1. /\ pc = "Status" /\ pc' = "Idle" /\ byte' = None /\ line' = line /\ at' = at
        /\ p' = SetStatus(p, byte)
    BY <1>19 DEF Status, Go, source
  <2>2. byte \in Bytes
    BY <1>1, <2>1
  <2>3. /\ p' \in Parser /\ p'.count = 0 /\ p'.length = p.length /\ p'.sysex = p.sysex
        /\ p'.overrun = p.overrun
    BY <1>1, <2>1, <2>2, SetsStatus
  <2> QED BY <1>1, <1>12, <2>1, <2>3 DEF CountFits
<1>20. CASE Store
  <2>1. /\ pc = "Store" /\ pc' = "Compare" /\ byte' = byte /\ line' = line /\ at' = 0
        /\ p' = PutData(p, at, byte)
    BY <1>20 DEF Store, Go, source
  <2>2. byte \in Bytes /\ at \in {0, 1} /\ p.status # None
    BY <1>1, <1>3, <2>1
  <2>3. /\ p' \in Parser /\ p'.status = p.status /\ p'.length = p.length /\ p'.sysex = p.sysex
        /\ p'.overrun = p.overrun
    BY <1>1, <2>1, <2>2, PutsData
  <2> QED BY <1>1, <1>12, <2>1, <2>2, <2>3
<1>21. CASE Compare
  <2>1. /\ pc = "Compare" /\ pc' = (IF Complete(p) THEN "Send" ELSE "Idle")
        /\ byte' = (IF pc' = "Idle" THEN None ELSE byte) /\ line' = line /\ at' = at /\ p' = p
    BY <1>21 DEF Compare, Go, source
  <2>2. p.status # None
    BY <1>3, <2>1
  <2>3. pc' = "Send" \/ CountFits(p)
    BY <1>6, <2>1, <2>2 DEF Complete, CountFits, Needed
  <2> QED BY <1>1, <1>12, <2>1, <2>2, <2>3
<1>22. CASE Send
  <2>1. /\ pc = "Send" /\ pc' = "Reset" /\ byte' = byte /\ line' = line /\ at' = at
        /\ p' = HandOver(p, p.status)
    BY <1>22 DEF Send, Go, source
  <2>2. p.status \in Bytes /\ p.status # None
    BY <1>3, <1>6, <2>1
  <2>3. /\ p' \in Parser /\ p'.status = p.status /\ p'.length = p.length /\ p'.sysex = p.sysex
        /\ p'.overrun = p.overrun
    <3>1. p \in Parser /\ p' = HandOver(p, p.status)
      BY <1>1, <2>1
    <3>2. GivenOver(p', p, p.status)
      BY <2>2, <3>1, HandsOver, Zenon
    <3> QED BY <3>2, Zenon DEF GivenOver
  <2> QED BY <1>1, <1>12, <2>1, <2>2, <2>3
<1>23. CASE Reset
  <2>1. /\ pc = "Reset" /\ pc' = "Idle" /\ byte' = None /\ line' = line /\ at' = at
        /\ p' = [p EXCEPT !.count = 0]
    BY <1>23 DEF Reset, Go, source
  <2>2. \A k \in 0 .. 2 : p' = [p EXCEPT !.count = k] =>
          /\ p' \in Parser /\ p'.length = p.length /\ p'.sysex = p.sysex /\ p'.overrun = p.overrun
          /\ p'.count = k
    BY <1>1 DEF Parser
  <2>3. 0 \in 0 .. 2
    OBVIOUS
  <2>4. /\ p' \in Parser /\ p'.length = p.length /\ p'.sysex = p.sysex /\ p'.overrun = p.overrun
        /\ p'.count = 0
    BY <2>1, <2>2, <2>3, Zenon
  <2> QED BY <1>1, <1>12, <2>1, <2>4 DEF CountFits
<1> QED BY <1>8, <1>10, <1>11, <1>13, <1>14, <1>16, <1>17, <1>18, <1>19, <1>20, <1>21, <1>22,
           <1>23 DEF TaskStep

(* What the task has of the serial message, and the byte it works on.      *)
LEMMA Wanted ==
  ASSUME ParserInv, clean, want # <<>>
  PROVE  /\ Len(want) \in Nat /\ Len(line) \in Nat /\ Taken \in 0 .. Len(want)
         /\ Taken = Len(want) - Len(line)
         /\ want \in Seq(Bytes) /\ \A i \in 1 .. Len(want) : want[i] \in Bytes
         /\ want[1].kind \in {"F0", "st1", "st2"} /\ Len(want) >= 2
         /\ want[1].kind # "F0" => Len(want) = 1 + Needed(want[1])
         /\ want[1].kind = "F0" => want[Len(want)].kind = "F7"
         /\ \A i \in 2 .. Len(want) : want[1].kind # "F0" \/ i < Len(want) => want[i].kind = "d"
         /\ InStep
         /\ pc # "Idle" => Taken > 0 /\ byte = want[Taken]
<1>1. want \in Seq(Bytes) /\ line \in Seq(Bytes)
  BY DEF ParserInv, TypeOK
<1>2. InStep /\ WellFormed(want)
  BY DEF ParserInv, SerialInStep
<1>3. Len(want) \in Nat /\ Len(line) \in Nat /\ Len(line) <= Len(want)
  BY <1>1, <1>2 DEF InStep
<1>4. Taken \in 0 .. Len(want)
  BY <1>3 DEF Taken
<1>5. pc # "Idle" => Taken > 0 /\ byte = want[Taken]
  BY <1>2 DEF InStep
<1>6. \A i \in 1 .. Len(want) : want[i] \in Bytes
  BY <1>1
<1>7. Len(want) >= 2
  BY <1>2, <1>3 DEF WellFormed, Needed
<1> QED BY <1>1, <1>2, <1>3, <1>4, <1>5, <1>6, <1>7 DEF Taken, WellFormed

(* The byte the task works on is the one of its place.                     *)
LEMMA Follows ==
  ASSUME ParserInv, clean, want # <<>>, TaskStep
  PROVE  /\ InStep'
         /\ pc = "Idle" => TakeByte /\ Taken < Len(want) /\ Taken' = Taken + 1
         /\ pc # "Idle" => Taken' = Taken
<1>1. UNCHANGED want
  BY DEF TaskStep, TakeByte, EndsSysex, InsideSysex, Open, First, Close, Closed,
         AppendSysex, Status, Store, Compare, Send, Reset, Go, source
<1>2. want \in Seq(Bytes) /\ line \in Seq(Bytes)
  BY Wanted DEF ParserInv, TypeOK
<1>3. /\ Len(line) <= Len(want) /\ \A i \in 1 .. Len(line) : line[i] = want[Taken + i]
      /\ Taken = Len(want) - Len(line) /\ Len(want) \in Nat /\ Len(line) \in Nat
      /\ pc # "Idle" => Taken > 0 /\ byte = want[Taken]
  BY Wanted DEF InStep
<1>4. CASE pc = "Idle"
  <2>1. TakeByte
    BY <1>4 DEF TaskStep, EndsSysex, InsideSysex, Open, First, Close, Closed,
         AppendSysex, Status, Store, Compare, Send, Reset
  <2>2. line # <<>> /\ byte' = Head(line) /\ line' = Tail(line)
    BY <2>1 DEF TakeByte
  <2>3. /\ Len(line) >= 1 /\ Len(line') = Len(line) - 1 /\ byte' = line[1]
        /\ \A i \in 1 .. Len(line) - 1 : line'[i] = line[i + 1]
    BY <1>2, <2>2
  <2>4. Taken' = Len(want) - (Len(line) - 1)
    BY <1>1, <2>3 DEF Taken
  <2>5. Taken' = Taken + 1 /\ Taken < Len(want)
    BY <1>3, <2>3, <2>4
  <2>6. \A i \in 1 .. Len(line') : line'[i] = want[(Taken + 1) + i]
    BY <1>3, <2>3
  <2>7. byte' = want[Taken + 1] /\ Taken + 1 > 0
    BY <1>3, <2>3
  <2>8. Len(line') <= Len(want)
    BY <1>3, <2>3
  <2>9. InStep'
    BY <1>1, <2>5, <2>6, <2>7, <2>8 DEF InStep
  <2> QED BY <1>4, <2>1, <2>5, <2>9
<1>5. CASE pc # "Idle"
  <2>1. line' = line /\ (pc' # "Idle" => byte' = byte)
    BY <1>5 DEF TaskStep, TakeByte, EndsSysex, InsideSysex, Open, First, Close, Closed,
         AppendSysex, Status, Store, Compare, Send, Reset, Go, source
  <2>2. Taken' = Taken
    BY <1>1, <2>1 DEF Taken
  <2>3. InStep'
    BY <1>1, <1>3, <1>5, <2>1, <2>2 DEF InStep
  <2> QED BY <1>5, <2>2, <2>3
<1> QED BY <1>4, <1>5

(* The beginning of an array.                                              *)
Begins(r, s, k, S) ==
  r \in Seq(S) /\ Len(r) = k /\ \A i \in 1 .. k : r[i] = s[i]

LEMMA Beginning ==
  ASSUME NEW S, NEW s, NEW k \in Nat, \A i \in 1 .. k : s[i] \in S
  PROVE  Begins(SubSeq(s, 1, k), s, k, S)
<1>1. /\ SubSeq(s, 1, k) \in Seq(S)
      /\ Len(SubSeq(s, 1, k)) = IF 1 <= k THEN k - 1 + 1 ELSE 0
      /\ \A i \in 1 .. k - 1 + 1 : SubSeq(s, 1, k)[i] = s[1 + i - 1]
  BY SubSeqProperties
<1>2. k - 1 + 1 = k /\ \A i \in 1 .. k : 1 + i - 1 = i
  OBVIOUS
<1> QED BY <1>1, <1>2 DEF Begins

(* A message that has been handed over whole.                              *)
LEMMA WholeVoice ==
  ASSUME NEW w \in Seq(Bytes), Len(w) \in 2 .. 3, NEW d \in [1 .. 2 -> Bytes \cup {None}],
         \A i \in 1 .. Len(w) - 1 : d[i] = w[i + 1]
  PROVE  <<w[1]>> \o SubSeq(d, 1, Len(w) - 1) = SubSeq(w, 1, Len(w) % LenMod)
<1> DEFINE n == Len(w)
           e == SubSeq(d, 1, n - 1)
           o == <<w[1]>> \o e
<1>1. n \in 2 .. 3
  OBVIOUS
<1>2. n % LenMod = n
  BY <1>1, MidiAssumption, ModSmall
<1>3. /\ e \in Seq(Bytes) /\ Len(e) = n - 1 /\ \A i \in 1 .. n - 1 : e[i] = w[i + 1]
  <2>1. \A i \in 1 .. n - 1 : d[i] \in Bytes /\ d[i] = w[i + 1]
    OBVIOUS
  <2> DEFINE k == n - 1
  <2>2. k \in Nat
    <3> HIDE DEF n
    <3> QED BY <1>1
  <2>3. e = SubSeq(d, 1, k)
    OBVIOUS
  <2>4. \A i \in 1 .. k : d[i] \in Bytes /\ d[i] = w[i + 1]
    BY <2>1
  <2> HIDE DEF k, e
  <2>5. e \in Seq(Bytes) /\ Len(e) = k /\ \A i \in 1 .. k : e[i] = d[i]
    <3>1. \A i \in 1 .. k : d[i] \in Bytes
      BY <2>4
    <3>2. Begins(e, d, k, Bytes)
      BY <2>2, <2>3, <3>1, Beginning, Zenon
    <3> QED BY <3>2, Zenon DEF Begins
  <2> QED BY <2>4, <2>5 DEF k
<1>4. SubSeq(w, 1, n) = w
  OBVIOUS
<1>5. o = w
  <2> HIDE DEF e, n
  <2>1. o \in Seq(Bytes) /\ Len(o) = n /\ \A i \in 1 .. n : o[i] = IF i = 1 THEN w[1] ELSE e[i - 1]
    BY <1>1, <1>3 DEF n
  <2>2. \A i \in 1 .. n : o[i] = w[i]
    BY <1>1, <1>3, <2>1
  <2> HIDE DEF o
  <2> QED BY <2>1, <2>2, SeqEqual DEF n
<1> QED BY <1>2, <1>4, <1>5

(* The same of a system exclusive message, cut to the length of nLength.   *)
LEMMA WholeSysex ==
  ASSUME NEW w \in Seq(Bytes), NEW s \in Seq(Bytes), Len(w) <= Len(s),
         \A i \in 1 .. Len(w) : s[i] = w[i]
  PROVE  SubSeq(s, 1, Len(w) % LenMod) = SubSeq(w, 1, Len(w) % LenMod)
<1> DEFINE k == Len(w) % LenMod
           x == SubSeq(s, 1, k)
           y == SubSeq(w, 1, k)
<1>1. Len(w) \in Nat /\ Len(s) \in Nat
  OBVIOUS
<1>2. k \in Nat /\ k <= Len(w)
  BY <1>1, ModAtMost
<1> HIDE DEF k
<1>3. k <= Len(s) /\ 1 \in Nat /\ 1 > 0
  BY <1>1, <1>2
<1>4. /\ x \in Seq(Bytes) /\ Len(x) = IF 1 <= k THEN k - 1 + 1 ELSE 0
      /\ \A i \in 1 .. k - 1 + 1 : x[i] = s[1 + i - 1]
  BY <1>2, <1>3, Stretch
<1>5. /\ y \in Seq(Bytes) /\ Len(y) = IF 1 <= k THEN k - 1 + 1 ELSE 0
      /\ \A i \in 1 .. k - 1 + 1 : y[i] = w[1 + i - 1]
  BY <1>2, <1>3, Stretch
<1> HIDE DEF x, y
<1>6. Len(x) = k /\ Len(y) = k
  BY <1>2, <1>4, <1>5
<1>7. \A i \in 1 .. k : i \in 1 .. Len(w) /\ i \in 1 .. k - 1 + 1 /\ 1 + i - 1 = i
  BY <1>1, <1>2
<1>8. \A i \in 1 .. Len(x) : x[i] = y[i]
  BY <1>4, <1>5, <1>6, <1>7
<1>9. x = y
  BY <1>4, <1>5, <1>6, <1>8, SeqEqual
<1> QED BY <1>9 DEF x, y, k

(* A step of the task on a channel message.                                *)
LEMMA VoiceTask ==
  ASSUME ParserInv, ~p.overrun, TaskStep, clean, want # <<>>, want[1].kind # "F0"
  PROVE  VoiceInStep' /\ (p'.out # p.out => HandedOver')
<1>0. PICK n, L : n = Taken /\ L = Len(want)
  OBVIOUS
<1>1. /\ L \in 2 .. 3 /\ n \in 0 .. L /\ want \in Seq(Bytes)
      /\ L = 1 + Needed(want[1])
      /\ want[1] \in Bytes /\ want[1].kind \in {"st1", "st2"}
      /\ \A i \in 2 .. L : want[i].kind = "d"
      /\ pc # "Idle" => n > 0 /\ byte = want[n]
  <2>1. /\ Len(want) \in Nat /\ Taken \in 0 .. Len(want) /\ want \in Seq(Bytes)
        /\ \A i \in 1 .. Len(want) : want[i] \in Bytes
        /\ want[1].kind \in {"F0", "st1", "st2"} /\ Len(want) >= 2
        /\ Len(want) = 1 + Needed(want[1])
        /\ \A i \in 2 .. Len(want) : want[i].kind = "d"
        /\ pc # "Idle" => Taken > 0 /\ byte = want[Taken]
    BY Wanted
  <2> QED BY <1>0, <2>1 DEF Needed
<1>2. /\ pc = "Idle" => TakeByte /\ Taken < L /\ Taken' = Taken + 1
      /\ pc # "Idle" => Taken' = Taken
  BY <1>0, Follows
<1>3. want' = want /\ p \in Parser
  BY TaskTypes DEF ParserInv, TypeOK
<1>4. /\ ~p.inSysex
      /\ pc \notin {"Open", "First", "Close", "Closed", "Append"}
      /\ pc = "Idle" /\ n > 0 /\ n # L => HasData(n - 1)
      /\ pc \in {"Ends", "Inside", "Store"} /\ n > 1 => HasData(n - 2)
      /\ pc = "Status" => n = 1
      /\ pc = "Store" => n > 1 /\ at = n - 2
      /\ pc \in {"Compare", "Send"} => n > 1 /\ HasData(n - 1)
      /\ pc \in {"Send", "Reset"} => n = L
      /\ pc = "Reset" => p.status = want[1] /\ HandedOver
  BY <1>0, Zenon DEF ParserInv, SerialInStep, VoiceInStep
<1>5. \A c : p' = p /\ HasData(c) => HasData(c)'
  BY <1>3 DEF HasData
<1>6. CASE TakeByte
  <2>1. p' = p /\ pc' = "Ends" /\ pc = "Idle"
    BY <1>6 DEF TakeByte
  <2>2. n < L /\ Taken' = n + 1
    BY <1>0, <1>2, <2>1
  <2>3. n + 1 > 1 => HasData((n + 1) - 2)'
    <3>1. (n + 1) - 2 = n - 1 /\ (n + 1 > 1 => n > 0)
      BY <1>1
    <3>2. n > 0 => HasData(n - 1)'
      BY <1>1, <1>4, <1>5, <2>1, <2>2
    <3> QED BY <3>1, <3>2
  <2>4. ~p'.inSysex
    BY <1>4, <2>1
  <2>5. VoiceInStep'
    BY <2>1, <2>2, <2>3, <2>4 DEF VoiceInStep
  <2> QED BY <2>1, <2>5
<1>7. pc # "Idle" => Taken' = n /\ n \in 1 .. L /\ byte = want[n] /\ Len(want') = L
  <2>1. n \in 0 .. L /\ (pc # "Idle" => n > 0 /\ byte = want[n]) /\ L \in 2 .. 3
    BY <1>1
  <2>2. pc # "Idle" => n \in 1 .. L /\ byte = want[n]
    BY <2>1
  <2> QED BY <1>0, <1>2, <1>3, <2>2
<1>8. CASE EndsSysex
  <2>1. pc = "Ends" /\ p' = p /\ n > 0 /\ byte = want[n]
    BY <1>1, <1>8 DEF EndsSysex
  <2>2. byte.kind \notin {"F0", "F7"}
    <3>1. n = 1 \/ n \in 2 .. L
      BY <1>1, <2>1
    <3> QED BY <1>1, <2>1, <3>1
  <2>3. pc' = "Inside"
    BY <1>8, <2>2 DEF EndsSysex, Go
  <2>4. n > 1 => HasData(n - 2)'
    BY <1>4, <1>5, <2>1
  <2>5. VoiceInStep'
    BY <1>4, <1>7, <2>1, <2>3, <2>4 DEF VoiceInStep
  <2> QED BY <2>1, <2>5
<1>9. CASE InsideSysex
  <2>1. pc = "Inside" /\ p' = p /\ n > 0 /\ byte = want[n] /\ ~p.inSysex
    BY <1>1, <1>4, <1>9 DEF InsideSysex
  <2>2. CASE n = 1
    <3>1. IsStatus(byte)
      BY <1>1, <2>1, <2>2 DEF IsStatus
    <3>2. pc' = "Status"
      BY <1>9, <2>1, <3>1 DEF InsideSysex, Go
    <3>3. VoiceInStep'
      BY <1>7, <2>1, <2>2, <3>2 DEF VoiceInStep
    <3> QED BY <2>1, <3>3
  <2>3. CASE n > 1
    <3>1. HasData(n - 2) /\ n \in 2 .. L
      BY <1>1, <1>4, <2>1, <2>3
    <3>2. ~IsStatus(byte) /\ p.status # None /\ p.count = n - 2
      BY <1>1, <2>1, <3>1, NoneAssumption DEF IsStatus, HasData
    <3>3. pc' = "Store" /\ at' = n - 2
      BY <1>9, <2>1, <3>2 DEF InsideSysex, Go
    <3>4. HasData(n - 2)'
      BY <1>5, <2>1, <3>1
    <3>5. VoiceInStep'
      BY <1>7, <2>1, <2>3, <3>3, <3>4 DEF VoiceInStep
    <3> QED BY <2>1, <3>5
  <2> QED BY <1>1, <2>1, <2>2, <2>3
<1>10. CASE Status
  <2>1. pc = "Status" /\ pc' = "Idle" /\ p' = SetStatus(p, byte) /\ n = 1 /\ byte = want[1]
    BY <1>1, <1>4, <1>10 DEF Status, Go
  <2>2. p'.status = byte /\ p'.count = 0 /\ p'.inSysex = p.inSysex /\ p'.out = p.out
    BY <1>1, <1>3, <2>1, SetsStatus
  <2>3. HasData(0)'
    BY <1>3, <1>4, <2>1, <2>2 DEF HasData
  <2>4. VoiceInStep'
    BY <1>0, <1>1, <1>4, <1>7, <2>1, <2>2, <2>3 DEF VoiceInStep
  <2> QED BY <2>2, <2>4
<1>11. CASE Store
  <2>1. /\ pc = "Store" /\ pc' = "Compare" /\ p' = PutData(p, at, byte)
        /\ n > 1 /\ at = n - 2 /\ byte = want[n] /\ HasData(n - 2)
    BY <1>1, <1>4, <1>11 DEF Store, Go
  <2>2. at \in {0, 1} /\ byte \in Bytes /\ n - 1 = at + 1 /\ n = at + 2
    <3>1. n \in 2 .. L /\ L \in 2 .. 3
      BY <1>1, <2>1
    <3>2. byte \in Bytes
      BY <2>1 DEF ParserInv, TypeOK
    <3> QED BY <2>1, <3>1, <3>2
  <2>3. /\ p'.status = p.status /\ p'.count = at + 1 /\ p'.inSysex = p.inSysex
        /\ p'.out = p.out
        /\ \A j \in 1 .. 2 : p'.data[j] = IF j = at + 1 THEN byte ELSE p.data[j]
    BY <1>3, <2>1, <2>2, PutsData
  <2>4. \A i \in 1 .. at + 1 : p'.data[i] = want[i + 1]
    <3> SUFFICES ASSUME NEW i \in 1 .. at + 1 PROVE p'.data[i] = want[i + 1]
      OBVIOUS
    <3>1. i \in 1 .. 2 /\ (i = at + 1 => i + 1 = n) /\ (i # at + 1 => i \in 1 .. n - 2)
      BY <2>2
    <3> QED BY <2>1, <2>3, <3>1 DEF HasData
  <2>5. HasData(n - 1)'
    BY <1>3, <2>1, <2>2, <2>3, <2>4 DEF HasData
  <2>6. VoiceInStep'
    BY <1>4, <1>7, <2>1, <2>3, <2>5 DEF VoiceInStep
  <2> QED BY <2>3, <2>6
<1>12. CASE Compare
  <2>1. pc = "Compare" /\ p' = p /\ n > 1 /\ HasData(n - 1) /\ ~p.inSysex
    BY <1>4, <1>12 DEF Compare
  <2>2. pc' = IF Complete(p) THEN "Send" ELSE "Idle"
    BY <1>12 DEF Compare, Go
  <2>3. p.status = want[1] /\ p.count = n - 1
    BY <2>1 DEF HasData
  <2>4. Complete(p) <=> n = L
    <3>1. Needed(want[1]) \in {1, 2} /\ L = 1 + Needed(want[1]) /\ n \in 0 .. L
      BY <1>1 DEF Needed
    <3>2. Complete(p) <=> n - 1 >= Needed(want[1])
      BY <2>3 DEF Complete
    <3> QED BY <3>1, <3>2
  <2>5. HasData(n - 1)'
    BY <1>5, <2>1
  <2>6. VoiceInStep'
    BY <1>0, <1>7, <2>1, <2>2, <2>4, <2>5 DEF VoiceInStep
  <2> QED BY <2>1, <2>6
<1>13. CASE Send
  <2>1. pc = "Send" /\ pc' = "Reset" /\ p' = HandOver(p, p.status) /\ HasData(n - 1) /\ n = L
    BY <1>4, <1>13 DEF Send, Go
  <2>2. p.status = want[1] /\ p.count = n - 1 /\ \A i \in 1 .. n - 1 : p.data[i] = want[i + 1]
    BY <2>1 DEF HasData
  <2>3. /\ p'.status = p.status /\ p'.inSysex = p.inSysex
        /\ p'.out = <<want[1]>> \o SubSeq(p.data, 1, n - 1)
    <3>1. p.status \in Bytes /\ p \in Parser
      BY <1>1, <1>3, <2>2
    <3>2. /\ p'.status = p.status /\ p'.inSysex = p.inSysex
          /\ p'.out = <<p.status>> \o SubSeq(p.data, 1, p.count)
      BY <2>1, <3>1, HandsOver DEF GivenOver
    <3> QED BY <2>2, <3>2
  <2>4. p'.out = SubSeq(want, 1, L % LenMod)
    <3>1. p.data \in [1 .. 2 -> Bytes \cup {None}]
      BY <1>3 DEF Parser
    <3>2. Len(want) \in 2 .. 3 /\ \A i \in 1 .. Len(want) - 1 : p.data[i] = want[i + 1]
      BY <1>0, <1>1, <2>1, <2>2
    <3>3. <<want[1]>> \o SubSeq(p.data, 1, Len(want) - 1) = SubSeq(want, 1, Len(want) % LenMod)
      BY <1>1, <3>1, <3>2, WholeVoice
    <3> QED BY <1>0, <2>1, <2>3, <3>3
  <2>5. HandedOver'
    BY <1>0, <1>3, <2>4 DEF HandedOver
  <2>6. VoiceInStep'
    BY <1>0, <1>3, <1>4, <1>7, <2>1, <2>2, <2>3, <2>5 DEF VoiceInStep
  <2> QED BY <2>5, <2>6
<1>14. CASE Reset
  <2>1. /\ pc = "Reset" /\ pc' = "Idle" /\ p' = [p EXCEPT !.count = 0]
        /\ n = L /\ p.status = want[1] /\ HandedOver /\ ~p.inSysex
    BY <1>4, <1>14 DEF Reset, Go
  <2>2. p'.status = want[1] /\ p'.count = 0 /\ ~p'.inSysex /\ p'.out = p.out
    BY <1>3, <2>1 DEF Parser
  <2>3. HasData(0)' /\ HandedOver'
    BY <1>3, <2>1, <2>2 DEF HasData, HandedOver
  <2>4. VoiceInStep'
    BY <1>0, <1>7, <2>1, <2>2, <2>3 DEF VoiceInStep
  <2> QED BY <2>2, <2>4
<1>15. ~(Open \/ First \/ Close \/ Closed \/ AppendSysex)
  BY <1>4 DEF Open, First, Close, Closed, AppendSysex
<1> QED BY <1>6, <1>8, <1>9, <1>10, <1>11, <1>12, <1>13, <1>14, <1>15 DEF TaskStep

(* A step of the task on a system exclusive message.                       *)
LEMMA SysexTask ==
  ASSUME ParserInv, ~p.overrun, TaskStep, clean, want # <<>>, want[1].kind = "F0"
  PROVE  SysexInStep' /\ (p'.out # p.out => HandedOver')
<1>0. PICK n, L : n = Taken /\ L = Len(want)
  OBVIOUS
<1>1. /\ L \in Nat /\ L >= 2 /\ n \in 0 .. L /\ want \in Seq(Bytes)
      /\ \A i \in 1 .. L : want[i] \in Bytes
      /\ want[L].kind = "F7"
      /\ \A i \in 2 .. L : i < L => want[i].kind = "d"
      /\ pc # "Idle" => n > 0 /\ byte = want[n]
  BY <1>0, Wanted
<1>2. /\ pc = "Idle" => TakeByte /\ n < L /\ Taken' = n + 1
      /\ pc # "Idle" => Taken' = n
  BY <1>0, Follows
<1>3. want' = want /\ p \in Parser /\ p.length <= Len(p.sysex)
  BY TaskTypes DEF ParserInv, TypeOK
<1>4. /\ pc \in {"Idle", "Ends", "Open", "First", "Close", "Closed", "Inside", "Append"}
      /\ pc = "Idle" /\ n > 0 /\ n # L => HasSysex(n)
      /\ pc = "Idle" /\ n = L => ~p.inSysex /\ HandedOver
      /\ pc \in {"Ends", "Close", "Inside", "Append"} /\ n > 1 => HasSysex(n - 1)
      /\ pc \in {"Open", "First"} <=> pc \notin {"Idle", "Ends"} /\ n = 1
      /\ pc = "First" => p.inSysex
      /\ pc \in {"Close", "Closed"} => n = L
      /\ pc \in {"Inside", "Append"} => n # L
      /\ pc = "Append" => at = n - 1
      /\ pc = "Closed" => HandedOver
  BY <1>0, Zenon DEF ParserInv, SerialInStep, SysexInStep
<1>5. \A c : p' = p /\ HasSysex(c) => HasSysex(c)'
  BY <1>3 DEF HasSysex
<1>6. CASE TakeByte
  <2>1. p' = p /\ pc' = "Ends" /\ pc = "Idle"
    BY <1>6 DEF TakeByte
  <2>2. n < L /\ Taken' = n + 1
    BY <1>2, <2>1
  <2>3. n + 1 > 1 => HasSysex((n + 1) - 1)'
    <3>1. (n + 1) - 1 = n /\ (n + 1 > 1 => n > 0)
      BY <1>1
    <3>2. n > 0 => HasSysex(n)'
      BY <1>1, <1>4, <1>5, <2>1, <2>2
    <3> QED BY <3>1, <3>2
  <2>5. SysexInStep'
    BY <2>1, <2>2, <2>3 DEF SysexInStep
  <2> QED BY <2>1, <2>5
<1>7. pc # "Idle" => Taken' = n /\ n \in 1 .. L /\ byte = want[n] /\ byte \in Bytes
  <2>1. n \in 0 .. L /\ (pc # "Idle" => n > 0 /\ byte = want[n]) /\ L \in Nat
    BY <1>1
  <2>2. pc # "Idle" => n \in 1 .. L /\ byte = want[n]
    BY <2>1
  <2> QED BY <1>1, <1>2, <2>2
<1>8. Len(want') = L
  BY <1>0, <1>3
<1>9. CASE EndsSysex
  <2>1. pc = "Ends" /\ p' = p /\ byte = want[n] /\ n \in 1 .. L
    BY <1>7, <1>9 DEF EndsSysex
  <2>2. pc' = IF byte.kind = "F0" THEN "Open"
              ELSE IF byte.kind = "F7" /\ p.inSysex THEN "Close" ELSE "Inside"
    BY <1>9 DEF EndsSysex, Go
  <2>3. CASE n = 1
    <3>1. pc' = "Open"
      BY <2>1, <2>2, <2>3
    <3>2. SysexInStep'
      BY <1>1, <1>7, <1>8, <2>1, <2>3, <3>1 DEF SysexInStep
    <3> QED BY <2>1, <3>2
  <2>4. CASE n > 1
    <3>1. HasSysex(n - 1)
      BY <1>4, <2>1, <2>4
    <3>2. p.inSysex
      BY <3>1 DEF HasSysex
    <3>3. pc' = IF n = L THEN "Close" ELSE "Inside"
      BY <1>1, <2>1, <2>2, <2>4, <3>2
    <3>4. HasSysex(n - 1)'
      BY <1>5, <2>1, <3>1
    <3>5. Taken' = n /\ n # 1
      BY <1>7, <2>1, <2>4
    <3>6. SysexInStep'
      BY <1>8, <3>3, <3>4, <3>5 DEF SysexInStep
    <3> QED BY <2>1, <3>6
  <2> QED BY <2>1, <2>3, <2>4
<1>10. CASE InsideSysex
  <2>1. pc = "Inside" /\ p' = p /\ n \in 1 .. L /\ n # 1 /\ n # L
    BY <1>4, <1>7, <1>10 DEF InsideSysex
  <2>2. HasSysex(n - 1)
    BY <1>4, <2>1
  <2>3. p.inSysex /\ p.length = n - 1
    BY <2>2 DEF HasSysex
  <2>4. pc' = "Append" /\ at' = n - 1
    BY <1>10, <2>3 DEF InsideSysex, Go
  <2>5. HasSysex(n - 1)'
    BY <1>5, <2>1, <2>2
  <2>6. Taken' = n
    BY <1>7, <2>1
  <2>7. SysexInStep'
    BY <1>8, <2>1, <2>4, <2>5, <2>6 DEF SysexInStep
  <2> QED BY <2>1, <2>7
<1>11. CASE Open
  <2>1. pc = "Open" /\ pc' = "First" /\ n = 1 /\ p' = [p EXCEPT !.inSysex = TRUE]
    BY <1>4, <1>11 DEF Open, Go
  <2>2. p'.out = p.out /\ p'.inSysex
    BY <1>3, <2>1 DEF Parser
  <2>3. SysexInStep'
    BY <1>1, <1>7, <1>8, <2>1, <2>2 DEF SysexInStep
  <2> QED BY <2>2, <2>3
<1>12. ASSUME NEW i \in Nat, i + 1 = n, p' = PutSysex(p, i, byte), i <= Len(p.sysex),
              p.inSysex, pc # "Idle", \A j \in 1 .. i : p.sysex[j] = want[j]
       PROVE  HasSysex(n)' /\ p'.out = p.out
  <2>1. byte \in Bytes /\ byte = want[i + 1]
    BY <1>7, <1>12
  <2>2. /\ p'.length = i + 1 /\ p'.sysex[i + 1] = byte
        /\ \A j \in 1 .. i : p'.sysex[j] = p.sysex[j]
    BY <1>3, <1>12, <2>1, Puts
  <2>3. p'.inSysex = p.inSysex /\ p'.out = p.out
    BY <1>3, <1>12, <2>1, Puts
  <2>4. \A j \in 1 .. n : p'.sysex[j] = want[j]
    <3> SUFFICES ASSUME NEW j \in 1 .. n PROVE p'.sysex[j] = want[j]
      OBVIOUS
    <3>1. j = i + 1 \/ j \in 1 .. i
      BY <1>12
    <3> QED BY <1>12, <2>1, <2>2, <3>1
  <2> QED BY <1>3, <1>12, <2>2, <2>3, <2>4 DEF HasSysex
<1>13. CASE AppendSysex
  <2>1. /\ pc = "Append" /\ pc' = "Idle" /\ p' = PutSysex(p, at, byte)
        /\ at = n - 1 /\ n \in 1 .. L /\ n # 1 /\ n # L
    BY <1>4, <1>7, <1>13 DEF AppendSysex, Go
  <2>2. HasSysex(n - 1) /\ n - 1 \in Nat /\ n - 1 + 1 = n
    BY <1>4, <2>1
  <2>3. p.inSysex /\ p.length = n - 1 /\ \A j \in 1 .. n - 1 : p.sysex[j] = want[j]
    BY <2>2 DEF HasSysex
  <2>4. n - 1 <= Len(p.sysex)
    BY <1>3, <2>3
  <2>5. HasSysex(n)' /\ p'.out = p.out
    BY <1>12, <2>1, <2>2, <2>3, <2>4
  <2>6. Taken' = n
    BY <1>7, <2>1
  <2>7. SysexInStep'
    BY <1>8, <2>1, <2>5, <2>6 DEF SysexInStep
  <2> QED BY <2>5, <2>7
<1>14. CASE Close
  <2> DEFINE r == PutSysex(p, p.length, byte)
             k == p.length
  <2>1. pc = "Close" /\ pc' = "Closed" /\ p' = HandOverSysex(r) /\ n = L /\ n # 1 /\ byte \in Bytes
    BY <1>4, <1>7, <1>14 DEF Close, Go
  <2>2. n > 1
    BY <1>1, <2>1
  <2>3. HasSysex(n - 1)
    BY <1>4, <2>1, <2>2
  <2>4. k = n - 1 /\ \A j \in 1 .. n - 1 : p.sysex[j] = want[j]
    BY <2>3 DEF HasSysex
  <2>5. k \in Nat /\ k <= Len(p.sysex) /\ k + 1 = L /\ r = PutSysex(p, k, byte)
    BY <1>1, <1>3, <2>1, <2>4
  <2> HIDE DEF k, r
  <2>6. /\ r \in Parser /\ r.length = k + 1 /\ k + 1 <= Len(r.sysex) /\ r.sysex[k + 1] = byte
        /\ \A j \in 1 .. k : r.sysex[j] = p.sysex[j]
    BY <1>3, <2>1, <2>5, Puts
  <2>7. \A j \in 1 .. L : r.sysex[j] = want[j]
    <3> SUFFICES ASSUME NEW j \in 1 .. L PROVE r.sysex[j] = want[j]
      OBVIOUS
    <3>1. j = k + 1 \/ j \in 1 .. k
      BY <2>5
    <3>2. byte = want[k + 1]
      BY <1>7, <2>1, <2>5
    <3> QED BY <2>4, <2>5, <2>6, <3>1, <3>2
  <2>8. p'.out = SubSeq(r.sysex, 1, L % LenMod)
    <3>1. r.length <= Len(r.sysex) /\ r.length = L
      BY <2>5, <2>6
    <3>2. p'.out = SubSeq(r.sysex, 1, r.length % LenMod)
      BY <2>1, <2>6, <3>1, HandsOverSysex
    <3> QED BY <3>1, <3>2
  <2>9. SubSeq(r.sysex, 1, L % LenMod) = SubSeq(want, 1, L % LenMod)
    <3>1. r.sysex \in Seq(Bytes) /\ Len(want) <= Len(r.sysex)
      BY <1>0, <2>5, <2>6 DEF Parser
    <3>2. \A j \in 1 .. Len(want) : r.sysex[j] = want[j]
      BY <1>0, <2>7
    <3> QED BY <1>0, <1>1, <3>1, <3>2, WholeSysex
  <2>10. HandedOver'
    BY <1>3, <1>0, <2>8, <2>9 DEF HandedOver
  <2>11. SysexInStep'
    BY <1>7, <1>8, <2>1, <2>10 DEF SysexInStep
  <2> QED BY <2>10, <2>11
<1>15. CASE First
  <2> DEFINE z == 0
  <2>1. pc = "First" /\ pc' = "Idle" /\ p' = PutSysex(p, z, byte) /\ n = 1
        /\ p.inSysex
    BY <1>4, <1>15 DEF First, Go
  <2>2. z \in Nat /\ z + 1 = n /\ z <= Len(p.sysex) /\ \A j \in 1 .. z : p.sysex[j] = want[j]
    BY <1>3, <2>1 DEF Parser
  <2> HIDE DEF z
  <2>3. HasSysex(n)' /\ p'.out = p.out
    BY <1>12, <2>1, <2>2
  <2>4. Taken' = n
    BY <1>7, <2>1
  <2>5. SysexInStep'
    BY <1>1, <1>8, <2>1, <2>3, <2>4 DEF SysexInStep
  <2> QED BY <2>3, <2>5
<1>16. CASE Closed
  <2>1. pc = "Closed" /\ pc' = "Idle" /\ n = L /\ p' = [p EXCEPT !.inSysex = FALSE, !.length = 0]
        /\ HandedOver
    BY <1>4, <1>16 DEF Closed, Go
  <2>2. ~p'.inSysex /\ p'.out = p.out
    BY <1>3, <2>1 DEF Parser
  <2>3. HandedOver'
    BY <1>3, <2>1, <2>2 DEF HandedOver
  <2>4. SysexInStep'
    BY <1>7, <1>8, <2>1, <2>2, <2>3 DEF SysexInStep
  <2> QED BY <2>2, <2>4
<1>17. ~(Status \/ Store \/ Compare \/ Send \/ Reset)
  BY <1>4 DEF Status, Store, Compare, Send, Reset
<1> QED BY <1>6, <1>9, <1>10, <1>11, <1>13, <1>14, <1>15, <1>16, <1>17 DEF TaskStep

(* A step of the task keeps the invariant, and never overruns data_.       *)
LEMMA TaskInStep ==
  ASSUME ParserInv, ~p.overrun, TaskStep
  PROVE  ParserInv' /\ ~p'.overrun /\ (p'.out # p.out /\ clean' => HandedOver')
<1>1. TypeOK' /\ RoomInv' /\ RestIsSysex' /\ want # <<>> /\ UNCHANGED <<want, clean>> /\ ~p'.overrun
  BY TaskTypes
<1>2. CASE ~clean
  BY <1>1, <1>2 DEF ParserInv, SerialInStep
<1>3. CASE clean
  <2>1. InStep'
    BY <1>1, <1>3, Follows
  <2>2. WellFormed(want')
    BY <1>1, <1>3 DEF ParserInv, SerialInStep
  <2>3. CASE want[1].kind = "F0"
    <3>1. SysexInStep' /\ (p'.out # p.out => HandedOver')
      BY <1>1, <1>3, <2>3, SysexTask
    <3> QED BY <1>1, <2>1, <2>2, <2>3, <3>1 DEF ParserInv, SerialInStep
  <2>4. CASE want[1].kind # "F0"
    <3>1. VoiceInStep' /\ (p'.out # p.out => HandedOver')
      BY <1>1, <1>3, <2>4, VoiceTask
    <3> QED BY <1>1, <2>1, <2>2, <2>4, <3>1 DEF ParserInv, SerialInStep
  <2> QED BY <2>3, <2>4
<1>4. clean \in BOOLEAN
  BY DEF ParserInv, TypeOK
<1> QED BY <1>2, <1>3, <1>4

(* Every step: the invariant, how data_ may overrun, what is handed over.  *)
LEMMA ParserStep ==
  ASSUME ParserInv, [Next]_vars
  PROVE  /\ ParserInv'
         /\ vars' # vars /\ p'.overrun =>
              packets # <<>> /\ ~p.inSysex /\ pc \in {"Compare", "Send", "Reset"}
         /\ p'.out # p.out /\ clean' => HandedOver'
<1>1. CASE UNCHANGED vars
  <2>1. UNCHANGED <<p, pc, byte, at, line, packets, sent, want, clean>>
    BY <1>1 DEF vars, source
  <2>2. TypeOK' /\ RoomInv' /\ RestIsSysex'
    BY <2>1 DEF ParserInv, TypeOK, RoomInv, RestIsSysex
  <2>3. SerialInStep'
    BY <2>1 DEF ParserInv, SerialInStep, InStep, Taken, VoiceInStep, SysexInStep, HasData,
                HasSysex, HandedOver
  <2> QED BY <1>1, <2>1, <2>2, <2>3 DEF ParserInv
<1>2. CASE Next /\ (SerialMessage \/ SerialRealtime)
  <2>1. p' = p /\ ~p.overrun
    BY <1>2 DEF Next, SerialMessage, SerialRealtime
  <2> QED BY <1>2, <2>1, SerialStep
<1>3. CASE Next /\ Interrupt
  <2>1. ~p.overrun
    BY <1>3 DEF Next
  <2>2. clean' = FALSE
    BY <1>3 DEF Interrupt, UsbMessage, UsbBegins, UsbRest, Feed
  <2> QED BY <1>3, <2>1, <2>2, InterruptStep
<1>4. CASE Next /\ TaskStep
  <2>1. ~p.overrun
    BY <1>4 DEF Next
  <2> QED BY <1>4, <2>1, TaskInStep
<1> QED BY <1>1, <1>2, <1>3, <1>4 DEF Next

(* In every state the parser's members are of their types, the places the  *)
(* task has read are in the arrays, and, unless another source came        *)
(* between, the parser is in step with the serial message.                 *)
THEOREM ParserInvariant == Spec => []ParserInv
<1>1. ParserInv /\ [Next]_vars => ParserInv'
  BY ParserStep
<1> QED BY ParserInit, <1>1, PTL DEF Spec

(* The parser's members and the task's places are always of their types.   *)
THEOREM TypeCorrect == Spec => []TypeOK
<1>1. ParserInv => TypeOK
  BY DEF ParserInv
<1> QED BY ParserInvariant, <1>1, PTL

(* Only the rest of a USB system exclusive message that the serial port    *)
(* has closed can be stored behind data_ (midi.cpp:70), and only while the *)
(* task hands a message over: the finding's cause is the only one.         *)
THEOREM OnlyCutSysexOverruns == Spec => OverrunOnlyByCutSysex
<1>1. ParserInv /\ [Next]_vars =>
        [p'.overrun =>
           packets # <<>> /\ ~p.inSysex /\ pc \in {"Compare", "Send", "Reset"}]_vars
  BY ParserStep
<1> QED BY ParserInvariant, <1>1, PTL DEF Spec, OverrunOnlyByCutSysex

(* A serial message whose bytes neither a packet nor a realtime byte came  *)
(* between is handed over as it was sent, at the latest with its last byte *)
(* (midi.cpp:37-84) ...                                                    *)
THEOREM SerialMessagesWhole == Spec => []SerialWhole
<1>1. ASSUME ParserInv PROVE SerialWhole
  <2> SUFFICES ASSUME pc = "Idle", line = <<>>, clean, want # <<>>
               PROVE  p.out = SubSeq(want, 1, Len(want) % LenMod)
    BY DEF SerialWhole
  <2>1. Taken = Len(want)
    BY <1>1, Wanted DEF Taken
  <2>2. HandedOver
    BY <1>1, <2>1, Zenon DEF ParserInv, SerialInStep, VoiceInStep, SysexInStep
  <2> QED BY <2>2 DEF HandedOver
<1> QED BY ParserInvariant, <1>1, PTL

(* ... and nothing else is handed over until then.                         *)
THEOREM NothingElseHandedOver == Spec => NothingElse
<1>1. ASSUME ParserInv, [Next]_vars
      PROVE  [p'.out # p.out /\ clean' => p'.out = SubSeq(want, 1, Len(want) % LenMod)]_vars
  <2>1. want' = want \/ p' = p
    <3>1. CASE Next /\ SerialMessage
      BY <3>1 DEF SerialMessage
    <3>2. CASE ~(Next /\ SerialMessage)
      BY <1>1, <3>2 DEF Next, SerialRealtime, Interrupt, UsbMessage, UsbBegins, UsbRest, Feed,
         TaskStep, TakeByte, EndsSysex, InsideSysex, Open, First, Close, Closed,
         AppendSysex, Status, Store, Compare, Send, Reset, Go, source, vars
    <3> QED BY <3>1, <3>2
  <2>2. p'.out # p.out /\ clean' => HandedOver'
    BY <1>1, ParserStep
  <2> QED BY <2>1, <2>2 DEF HandedOver
<1> QED BY ParserInvariant, <1>1, PTL DEF Spec, NothingElse
=============================================================================
