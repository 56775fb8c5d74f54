------------------------- MODULE AudioPipelineProofs -------------------------
(***************************************************************************)
(* The ring and the three cores, for every ring size, index width, burst,  *)
(* batch, block and cycle count.  First the ring alone: every step of      *)
(* either side preserves RingInv.  Then the ring while core 2 keeps up,    *)
(* which implements the bounded queue.  Then the cores: PipeInv is an      *)
(* invariant, and with it the stereo alignment of the ring, the emptiness  *)
(* of the ring when a bank switch ends, the peace of the emulator while it *)
(* is reloaded, and the bound on how far the PCM chip's clock leads the    *)
(* MCU's.                                                                  *)
(***************************************************************************)
EXTENDS AudioPipeline, SampleRingFifo, TLAPS

(* Division with remainder: the slot of an index is within its buffer.     *)
LEMMA ModBasic ==
  \A x \in Int, M \in Nat \ {0} :
    /\ x % M \in 0 .. M - 1
    /\ x \div M \in Int
    /\ x = M * (x \div M) + (x % M)
BY Z3

LEMMA EvenIsDouble == \A x \in Int : x % 2 = 0 => \E h \in Int : x = 2 * h
<1> TAKE x \in Int
<1>1. x = 2 * (x \div 2) + (x % 2) /\ x \div 2 \in Int
  BY Z3
<1> QED
  BY <1>1

LEMMA AddDouble == \A x, h \in Int : (x + 2 * h) % 2 = x % 2
OBVIOUS

LEMMA SumParity == \A a, b, c \in Int : a % 2 = b % 2 => (a + c) % 2 = (b + c) % 2
OBVIOUS

LEMMA EvenSum == \A a, b \in Int : a % 2 = 0 /\ b % 2 = 0 => (a + b) % 2 = 0
OBVIOUS

(* Reducing an index modulo an even size keeps its parity: left samples    *)
(* stay left samples when the index wraps or is mapped to its slot.        *)
LEMMA ModParity ==
  ASSUME NEW M \in Nat, M > 0, M % 2 = 0, NEW x \in Int
  PROVE  (x % M) % 2 = x % 2
<1>1. PICK h \in Int : M = 2 * h
  BY EvenIsDouble
<1>2. /\ x = M * (x \div M) + (x % M)
      /\ x \div M \in Int
      /\ x % M \in Int
  BY ModBasic
<1> DEFINE q == x \div M
           k == x % M
<1>3. M * q = 2 * (h * q) /\ h * q \in Int
  BY <1>1, <1>2
<1>4. x = k + 2 * (h * q) /\ k \in Int
  BY <1>2, <1>3
<1> QED
  BY <1>3, <1>4, AddDouble
-----------------------------------------------------------------------------
(* The ring.                                                               *)

(* Index arithmetic stays within the index width and keeps parities.       *)
LEMMA IndexArithmetic ==
  \A i, k \in Int :
    /\ Plus(i, k) \in Index /\ Plus(i, k) % 2 = (i + k) % 2
    /\ Dist(i, k) \in Index /\ Dist(i, k) % 2 = (i - k) % 2
<1> TAKE i, k \in Int
<1>1. W \in Nat \ {0} /\ W > 0 /\ W % 2 = 0
  BY WidthAssumption, SizeAssumption
<1>2. /\ (i + k) % W \in 0 .. W - 1
      /\ (i - k) % W \in 0 .. W - 1
  BY <1>1, ModBasic
<1>3. ((i + k) % W) % 2 = (i + k) % 2
  BY <1>1, ModParity
<1>4. ((i - k) % W) % 2 = (i - k) % 2
  BY <1>1, ModParity
<1> QED
  BY <1>2, <1>3, <1>4 DEF Plus, Dist, Index

(* The slot of an index is a slot of the buffer, of the index's channel.   *)
LEMMA SlotChannel ==
  \A i \in Int : Slot(i) \in 0 .. SIZE - 1 /\ Slot(i) % 2 = i % 2
<1> TAKE i \in Int
<1>1. SIZE \in Nat \ {0} /\ SIZE > 0 /\ SIZE % 2 = 0
  BY SizeAssumption
<1>2. i % SIZE \in 0 .. SIZE - 1
  BY <1>1, ModBasic
<1>3. (i % SIZE) % 2 = i % 2
  BY <1>1, ModParity
<1> QED
  BY <1>2, <1>3 DEF Slot

(* Writing the sample of index i into its slot keeps every slot's channel. *)
LEMMA SlotWrite ==
  ASSUME NEW i \in Index, buf \in [0 .. SIZE - 1 -> Index], SlotParity,
         buf' = [buf EXCEPT ![Slot(i)] = i]
  PROVE  buf' \in [0 .. SIZE - 1 -> Index] /\ SlotParity'
<1>1. i \in Int
  BY DEF Index
<1>2. Slot(i) \in 0 .. SIZE - 1 /\ Slot(i) % 2 = i % 2
  BY <1>1, SlotChannel
<1> QED
  BY <1>2 DEF SlotParity

LEMMA InitialRing == RingInit => RingInv
<1> SUFFICES ASSUME RingInit PROVE RingInv
  OBVIOUS
<1>3. \E g \in Int : W = 2 * g
  BY EvenIsDouble, WidthAssumption
<1>4. \E h \in Int : SIZE = 2 * h
  <2>1. SIZE \in Int /\ SIZE % 2 = 0
    BY SizeAssumption
  <2> QED
    BY <2>1, EvenIsDouble
<1> USE SizeAssumption, WidthAssumption DEF RingInit
<1>1. TypeOK
  BY DEF TypeOK, Index, FillStates
<1>2. SlotParity
  <2> SUFFICES ASSUME NEW s \in 0 .. SIZE - 1 PROVE buf[s] % 2 = s % 2
    BY DEF SlotParity
  <2>1. buf[s] = s + (W - SIZE)
    OBVIOUS
  <2>2. PICK g \in Int : W = 2 * g
    BY <1>3
  <2>4. PICK h \in Int : SIZE = 2 * h
    BY <1>4
  <2>3. buf[s] = s + 2 * (g - h)
    BY <2>1, <2>2, <2>4
  <2> QED
    BY <2>3, AddDouble
<1> QED
  BY <1>1, <1>2 DEF RingInv, IndicesEven, BlockParity, BlockSize, FillStates,
                    ChannelAligned, BlockNotOverrun

(* The steps of core 3.                                                    *)
LEMMA ProducerStep == RingInv /\ (PostLeft \/ Posting) => RingInv'
<1> SUFFICES ASSUME RingInv, PostLeft \/ Posting PROVE RingInv'
  OBVIOUS
<1>0. /\ TypeOK /\ IndicesEven /\ SlotParity
      /\ UNCHANGED consumerVars
  BY DEF RingInv, PostLeft, Posting, PostRight, CheckOverflow, DropOldest, Publish
<1>1. /\ widx \in Int /\ cur \in Int /\ SIZE \in Int
      /\ Plus(cur, 1) \in Index /\ Plus(cur, 2) \in Index
      /\ Plus(cur, 2) % 2 = 0
      /\ Dist(Plus(cur, 2), SIZE) \in Index
      /\ Dist(Plus(cur, 2), SIZE) % 2 = 0
  <2>1. widx \in Int /\ cur \in Int /\ SIZE \in Int /\ SIZE % 2 = 0
    BY <1>0, SizeAssumption, WidthAssumption DEF TypeOK, Index
  <2>2. cur % 2 = 0
    BY <1>0 DEF IndicesEven
  <2>3. Plus(cur, 1) \in Index /\ Plus(cur, 2) \in Index /\ Plus(cur, 2) % 2 = (cur + 2) % 2
    BY <2>1, IndexArithmetic
  <2>4. Plus(cur, 2) \in Int /\ Plus(cur, 2) % 2 = 0
    BY <2>1, <2>2, <2>3, WidthAssumption DEF Index
  <2>5. /\ Dist(Plus(cur, 2), SIZE) \in Index
        /\ Dist(Plus(cur, 2), SIZE) % 2 = (Plus(cur, 2) - SIZE) % 2
    BY <2>1, <2>4, IndexArithmetic
  <2> HIDE DEF Plus, Dist
  <2> QED
    BY <2>1, <2>3, <2>4, <2>5
<1>2. TypeOK' /\ IndicesEven' /\ SlotParity'
  <2>1. CASE PostLeft
    <3>1. buf' \in [0 .. SIZE - 1 -> Index] /\ SlotParity'
      BY <2>1, <1>0, SlotWrite DEF PostLeft, TypeOK
    <3> QED
      BY <3>1, <2>1, <1>0 DEF PostLeft, TypeOK, IndicesEven, consumerVars
  <2>2. CASE PostRight
    <3>1. buf' \in [0 .. SIZE - 1 -> Index] /\ SlotParity'
      BY <2>2, <1>0, <1>1, SlotWrite DEF PostRight, TypeOK
    <3> QED
      BY <3>1, <2>2, <1>0 DEF PostRight, TypeOK, IndicesEven, consumerVars
  <2>3. CASE CheckOverflow
    BY <2>3, <1>0 DEF CheckOverflow, TypeOK, IndicesEven, SlotParity, consumerVars
  <2>4. CASE DropOldest
    BY <2>4, <1>0, <1>1 DEF DropOldest, TypeOK, IndicesEven, SlotParity, consumerVars
  <2>5. CASE Publish
    BY <2>5, <1>0, <1>1 DEF Publish, TypeOK, IndicesEven, SlotParity, consumerVars
  <2> QED
    BY <2>1, <2>2, <2>3, <2>4, <2>5 DEF Posting
<1>3. BlockParity' /\ BlockSize' /\ ChannelAligned' /\ BlockNotOverrun'
  BY <1>0 DEF RingInv, consumerVars, BlockParity, BlockSize, ChannelAligned, BlockNotOverrun
<1> QED
  BY <1>2, <1>3 DEF RingInv

(* The steps of core 2.                                                    *)
LEMMA CopyStep == RingInv /\ CopySample => RingInv'
<1> SUFFICES ASSUME RingInv, CopySample PROVE RingInv'
  OBVIOUS
<1>1. /\ TypeOK /\ IndicesEven /\ BlockParity /\ BlockSize
      /\ SlotParity /\ ChannelAligned /\ BlockNotOverrun
      /\ cpc = "Copy"
      /\ UNCHANGED <<widx, ridx, buf, n, w, producerVars>>
      /\ out' = Append(out, buf[Slot(r)])
      /\ r' = Plus(r, 1)
      /\ left' = left - 1
      /\ cpc' = IF left = 1 THEN "StoreRead" ELSE "Copy"
  BY DEF RingInv, CopySample
<1>2. /\ r \in Int /\ left \in Nat /\ left > 0 /\ left <= SIZE
      /\ out \in Seq(Index) /\ Len(out) \in Nat
      /\ n \in Nat
      /\ (r + left) % 2 = 0 /\ (Len(out) + left) % 2 = 0
      /\ Len(out) + left <= n
  <2>1. /\ r \in Int /\ left \in 0 .. SIZE
        /\ out \in Seq(Index) /\ Len(out) \in Nat
        /\ SIZE \in Nat
    BY <1>1, SizeAssumption DEF TypeOK, Index
  <2>2. n \in BlockSizes
    BY <1>1 DEF BlockSize, FillStates
  <2>3. n \in Nat
    BY <2>2, BlockAssumption
  <2>4. left > 0 /\ Len(out) + left <= n
    BY <1>1 DEF BlockNotOverrun
  <2>5. (r + left) % 2 = 0 /\ (Len(out) + left) % 2 = 0
    BY <1>1 DEF BlockParity
  <2> QED
    BY <2>1, <2>3, <2>4, <2>5
<1>3. r' \in Index /\ r' \in Int /\ r' % 2 = (r + 1) % 2
  BY <1>1, <1>2, IndexArithmetic DEF Index
<1>4. buf[Slot(r)] \in Index /\ buf[Slot(r)] % 2 = r % 2
  <2>1. Slot(r) \in 0 .. SIZE - 1 /\ Slot(r) % 2 = r % 2
    BY <1>2, SlotChannel
  <2> QED
    BY <2>1, <1>1 DEF TypeOK, SlotParity
<1>5. /\ out' \in Seq(Index) /\ Len(out') = Len(out) + 1
      /\ \A k \in 1 .. Len(out) : out'[k] = out[k]
      /\ out'[Len(out) + 1] = buf[Slot(r)]
  BY <1>1, <1>2, <1>4
<1>6. IndicesEven' /\ SlotParity'
  BY <1>1 DEF IndicesEven, SlotParity, producerVars
<1>10. TypeOK'
  <2>1. left' \in 0 .. SIZE
    BY <1>1, <1>2, SizeAssumption
  <2>2. cpc' \in FillStates
    BY <1>1 DEF FillStates
  <2> QED
    BY <2>1, <2>2, <1>1, <1>3, <1>5 DEF TypeOK, producerVars
<1>7. BlockParity'
  <2>1. (r + 1 + (left - 1)) % 2 = 0 /\ (Len(out) + 1 + (left - 1)) % 2 = 0
    BY <1>2
  <2>2. (r' + (left - 1)) % 2 = (r + 1 + (left - 1)) % 2
    <3>1. r' \in Int /\ r' % 2 = (r + 1) % 2
      BY <1>3
    <3>2. r + 1 \in Int /\ left - 1 \in Int
      BY <1>2
    <3> QED
      BY <3>1, <3>2, SumParity
  <2>3. cpc' = "StoreRead" => left = 1
    BY <1>1
  <2>4. left' = left - 1 /\ Len(out') = Len(out) + 1
    BY <1>1, <1>5
  <2>5. (r' + left') % 2 = 0 /\ (Len(out') + left') % 2 = 0
    BY <2>1, <2>2, <2>4
  <2>6. cpc' = "StoreRead" => r' % 2 = 0 /\ Len(out') % 2 = 0
    BY <2>3, <2>4, <2>5, <1>2, <1>3
  <2> QED
    BY <2>5, <2>6, <1>1 DEF BlockParity, FillStates
<1>8. BlockSize' /\ BlockNotOverrun'
  BY <1>1, <1>2, <1>5 DEF BlockSize, BlockNotOverrun, FillStates
<1>9. ChannelAligned'
  <2>1. r % 2 = (Len(out) + 1 + 1) % 2
    BY <1>2
  <2>2. SUFFICES ASSUME NEW k \in 1 .. Len(out) + 1
                 PROVE  out'[k] % 2 = (k + 1) % 2
    BY <1>5 DEF ChannelAligned
  <2>3. CASE k \in 1 .. Len(out)
    BY <2>3, <1>1, <1>5 DEF ChannelAligned
  <2>4. CASE k = Len(out) + 1
    BY <2>4, <2>1, <1>4, <1>5
  <2> QED
    BY <2>2, <2>3, <2>4, <1>2
<1> QED
  BY <1>6, <1>7, <1>8, <1>9, <1>10 DEF RingInv

LEMMA ConsumerStep == RingInv /\ Consuming => RingInv'
<1> SUFFICES ASSUME RingInv, Consuming PROVE RingInv'
  OBVIOUS
<1>1. /\ TypeOK /\ IndicesEven /\ BlockParity /\ BlockSize
      /\ SlotParity /\ ChannelAligned /\ BlockNotOverrun
  BY DEF RingInv
<1> USE DEF FillStates, producerVars
<1>2. CASE BeginBlock
  <2>1. n' \in BlockSizes /\ n' \in Nat /\ 0 < n' /\ out' = <<>>
    BY <1>2, BlockAssumption DEF BeginBlock
  <2> QED
    BY <2>1, <1>1, <1>2
       DEF RingInv, BeginBlock, TypeOK, IndicesEven, BlockParity, BlockSize, SlotParity,
           ChannelAligned, BlockNotOverrun
<1>3. CASE LoadWrite
  BY <1>1, <1>3
     DEF RingInv, LoadWrite, TypeOK, IndicesEven, BlockParity, BlockSize, SlotParity,
         ChannelAligned, BlockNotOverrun
<1>4. CASE LoadRead
  <2> DEFINE avail == Dist(w, ridx)
  <2>1. avail \in Nat /\ avail % 2 = 0
    <3>1. w \in Int /\ ridx \in Int /\ (w - ridx) % 2 = 0
      BY <1>1 DEF TypeOK, IndicesEven, Index
    <3>2. avail \in Index /\ avail % 2 = (w - ridx) % 2
      BY <3>1, IndexArithmetic
    <3> QED
      BY <3>1, <3>2 DEF Index
  <2>2. /\ n \in Nat /\ n % 2 = 0 /\ n <= SIZE
        /\ Len(out) \in Nat /\ Len(out) % 2 = 0 /\ Len(out) < n
        /\ SIZE \in Nat
    BY <1>1, <1>4, BlockAssumption, SizeAssumption
       DEF LoadRead, TypeOK, BlockSize, BlockParity
  <2>3. /\ left' = IF avail < n - Len(out) THEN avail ELSE n - Len(out)
        /\ cpc' = IF avail > 0 THEN "Copy" ELSE "Burst"
        /\ r' = ridx /\ r' \in Index /\ ridx \in Int /\ ridx % 2 = 0
    BY <1>1, <1>4 DEF LoadRead, TypeOK, IndicesEven, Index
  <2> HIDE DEF avail
  <2>4. /\ left' \in 0 .. SIZE /\ left' % 2 = 0
        /\ Len(out) + left' <= n
        /\ cpc' = "Copy" => left' > 0
    <3>1. CASE avail < n - Len(out)
      BY <3>1, <2>1, <2>2, <2>3
    <3>2. CASE ~(avail < n - Len(out))
      <4>1. left' = n - Len(out) /\ left' \in 0 .. SIZE /\ left' > 0
        BY <3>2, <2>1, <2>2, <2>3
      <4>2. (n - Len(out)) % 2 = 0
        BY <2>2
      <4> QED
        BY <4>1, <4>2, <2>2
    <3> QED
      BY <3>1, <3>2
  <2>5. TypeOK' /\ IndicesEven' /\ SlotParity' /\ ChannelAligned'
    BY <2>3, <2>4, <1>1, <1>4 DEF LoadRead, TypeOK, IndicesEven, SlotParity, ChannelAligned
  <2>6. BlockParity' /\ BlockSize' /\ BlockNotOverrun'
    <3>1. n' = n /\ out' = out /\ n \in BlockSizes /\ cpc' \in {"Copy", "Burst"}
      BY <2>3, <1>1, <1>4 DEF LoadRead, BlockSize
    <3>2. left' \in Nat /\ (ridx + left') % 2 = 0 /\ (Len(out) + left') % 2 = 0
      <4>1. left' \in Nat
        BY <2>2, <2>4
      <4>4. left' % 2 = 0
        BY <2>4
      <4>2. ridx \in Int /\ ridx % 2 = 0
        BY <2>3
      <4>3. Len(out) \in Int /\ Len(out) % 2 = 0
        BY <2>2
      <4>5. left' \in Int
        BY <4>1
      <4>6. (ridx + left') % 2 = 0
        BY <4>2, <4>4, <4>5, EvenSum
      <4>7. (Len(out) + left') % 2 = 0
        BY <4>3, <4>4, <4>5, EvenSum
      <4> QED
        BY <4>1, <4>6, <4>7
    <3> QED
      BY <3>1, <3>2, <2>2, <2>3, <2>4 DEF BlockParity, BlockSize, BlockNotOverrun
  <2> QED
    BY <2>5, <2>6 DEF RingInv
<1>5. CASE StoreRead
  BY <1>1, <1>5
     DEF RingInv, StoreRead, TypeOK, IndicesEven, BlockParity, BlockSize, SlotParity,
         ChannelAligned, BlockNotOverrun
<1>6. CASE RetryFill
  BY <1>1, <1>6
     DEF RingInv, RetryFill, TypeOK, IndicesEven, BlockParity, BlockSize, SlotParity,
         ChannelAligned, BlockNotOverrun
<1>7. CASE Output
  BY <1>1, <1>7
     DEF RingInv, Output, TypeOK, IndicesEven, BlockParity, BlockSize, SlotParity,
         ChannelAligned, BlockNotOverrun
<1> QED
  BY <1>2, <1>3, <1>4, <1>5, <1>6, <1>7 DEF Consuming
-----------------------------------------------------------------------------
LEMMA RingStutter == RingInv /\ UNCHANGED ringVars => RingInv'
BY DEF RingInv, ringVars, TypeOK, IndicesEven, BlockParity, BlockSize, SlotParity,
       ChannelAligned, BlockNotOverrun

(* RingInv is an invariant of the ring.                                    *)
THEOREM RingInvariant == RingSpec => []RingInv
<1>1. RingInv /\ [RingNext]_ringVars => RingInv'
  BY ProducerStep, CopyStep, ConsumerStep, RingStutter DEF RingNext
<1> QED
  BY <1>1, InitialRing, PTL DEF RingSpec

(* Every index keeps to its width and every local to its range.            *)
THEOREM RingTypeCorrect == RingSpec => []TypeOK
<1>1. RingInv => TypeOK
  BY DEF RingInv
<1> QED
  BY <1>1, RingInvariant, PTL

(* No interleaving of the copy with MCU_PostSample, an overrun included,   *)
(* ever swaps the left and right channels of a block.                      *)
THEOREM RingKeepsChannels == RingSpec => []ChannelAligned
<1>1. RingInv => ChannelAligned
  BY DEF RingInv
<1> QED
  BY <1>1, RingInvariant, PTL

(* The copy never writes past the block, even when the unsigned difference *)
(* of the indices is far larger than the ring.                             *)
THEOREM RingKeepsBlock == RingSpec => []BlockNotOverrun
<1>1. RingInv => BlockNotOverrun
  BY DEF RingInv
<1> QED
  BY <1>1, RingInvariant, PTL
-----------------------------------------------------------------------------
(* The ring as a queue, while core 2 keeps up.  First the arithmetic of    *)
(* indices that wrap: it is that of the stream positions as long as no two *)
(* of them are a whole index width apart.                                  *)

(* A multiple of M nearer to zero than M is zero.                          *)
LEMMA SmallMultiple ==
  ASSUME NEW M \in Nat \ {0}, NEW q \in Int, -M < M * q, M * q < M
  PROVE  q = 0
<1>1. CASE q >= 1
  <2>1. M * (q - 1) >= 0
    BY <1>1, Z3
  <2>2. M * q = M * (q - 1) + M
    BY Z3
  <2> QED BY <2>1, <2>2, Z3
<1>2. CASE q <= -1
  <2>1. M * (-1 - q) >= 0
    BY <1>2, Z3
  <2>2. M * (-1 - q) = (-M) - M * q
    BY Z3
  <2> QED BY <2>1, <2>2, Z3
<1> QED BY <1>1, <1>2

(* Quotient and remainder are unique.                                      *)
LEMMA ModUnique ==
  ASSUME NEW M \in Nat \ {0}, NEW x \in Int, NEW q \in Int, NEW t \in 0 .. M - 1,
         x = M * q + t
  PROVE  x % M = t
<1>1. x = M * (x \div M) + (x % M) /\ x \div M \in Int /\ x % M \in 0 .. M - 1
  BY ModBasic
<1> DEFINE d == x \div M
           s == x % M
<1>2. M * (q - d) = s - t
  <2>1. M * (q - d) = M * q - M * d
    BY <1>1, Z3
  <2>2. M * q \in Int /\ M * d \in Int /\ s \in Int /\ x = M * d + s
    BY <1>1
  <2> HIDE DEF d, s
  <2> QED BY <2>1, <2>2
<1>3. -M < M * (q - d) /\ M * (q - d) < M
  BY <1>1, <1>2
<1>4. q - d = 0
  <2>1. q - d \in Int
    BY <1>1
  <2>2. -M < M * (q - d) /\ M * (q - d) < M
    BY <1>3
  <2> HIDE DEF d
  <2> QED BY <2>1, <2>2, SmallMultiple
<1> QED BY <1>1, <1>2, <1>4

(* A sum may be reduced early.                                             *)
LEMMA ModOfMod ==
  ASSUME NEW M \in Nat \ {0}, NEW x \in Int, NEW b \in Int
  PROVE  ((x % M) + b) % M = (x + b) % M
<1> DEFINE u == (x % M) + b
           d == x \div M
           e == u \div M
<1>1. x = M * d + (x % M) /\ d \in Int /\ x % M \in Int
  BY ModBasic
<1>2. u \in Int
  BY <1>1
<1>3. u = M * e + (u % M) /\ e \in Int /\ u % M \in 0 .. M - 1
  BY <1>2, ModBasic
<1>4. x + b = M * (d + e) + (u % M)
  <2>1. M * (d + e) = M * d + M * e
    BY <1>1, <1>3, Z3
  <2>2. x + b = M * d + u
    BY <1>1
  <2>3. M * d \in Int /\ M * e \in Int
    BY <1>1, <1>3
  <2> HIDE DEF d, e, u
  <2> QED BY <1>3, <2>1, <2>2, <2>3
<1>5. d + e \in Int /\ x + b \in Int
  BY <1>1, <1>3
<1> HIDE DEF d, e, u
<1>6. (x + b) % M = u % M
  BY <1>3, <1>4, <1>5, ModUnique
<1> QED BY <1>6 DEF u

(* An index within the width stays as it is.                               *)
LEMMA ModSmall ==
  ASSUME NEW M \in Nat \ {0}, NEW t \in 0 .. M - 1
  PROVE  t % M = t
<1>1. t = M * 0 + t /\ 0 \in Int /\ t \in Int
  OBVIOUS
<1> QED BY <1>1, ModUnique

(* The sizes the lemmas below need; W > SIZE + 2 lets the index of a full  *)
(* ring be told from the one a frame later.                                *)
LEMMA Widths == W \in Nat \ {0} /\ SIZE \in Nat \ {0} /\ SIZE + 2 < W
BY WidthAssumption, SizeAssumption

(* Advancing twice is advancing once by the sum.                           *)
LEMMA PlusPlus == \A i, a, b \in Int : Plus(Plus(i, a), b) = Plus(i, a + b)
<1> TAKE i, a, b \in Int
<1> DEFINE x == i + a
<1>1. x \in Int
  OBVIOUS
<1>2. ((x % W) + b) % W = (x + b) % W
  <2> HIDE DEF x
  <2> QED BY <1>1, Widths, ModOfMod
<1>3. x + b = i + (a + b)
  OBVIOUS
<1> QED BY <1>2, <1>3 DEF Plus

(* An index and its unsigned distance to another lead to the other.        *)
LEMMA PlusDist == \A i, j \in Index : Plus(i, Dist(j, i)) = j
<1> TAKE i, j \in Index
<1> DEFINE x == j - i
<1>1. i \in Int /\ j \in Int /\ j \in 0 .. W - 1 /\ x \in Int /\ x % W \in Int
  BY Widths, ModBasic DEF Index
<1>2. ((x % W) + i) % W = (x + i) % W
  <2> HIDE DEF x
  <2> QED BY <1>1, Widths, ModOfMod
<1>3. x + i = j /\ (x % W) + i = i + (x % W)
  BY <1>1
<1>4. j % W = j
  BY <1>1, Widths, ModSmall
<1> QED BY <1>2, <1>3, <1>4 DEF Plus, Dist

(* The unsigned distance of two places of a stretch shorter than the width.*)
LEMMA DistBetween ==
  ASSUME NEW i \in Int, NEW a \in 0 .. W - 1, NEW b \in 0 .. a
  PROVE  Dist(Plus(i, a), Plus(i, b)) = a - b
<1> DEFINE p == (i + b) % W
           q == (i + b) \div W
<1>1. p \in Int /\ q \in Int /\ i + b = W * q + p
  BY Widths, ModBasic
<1>2. (((i + a) % W) + (-p)) % W = (i + a + (-p)) % W
  <2> DEFINE x == i + a
             m == -p
  <2>1. x \in Int /\ m \in Int
    BY <1>1
  <2>2. ((x % W) + m) % W = (x + m) % W
    <3> HIDE DEF x, m
    <3> QED BY <2>1, Widths, ModOfMod
  <2> QED BY <2>2
<1>3. i + a - p = W * q + (a - b)
  <2>1. W * q \in Int
    BY <1>1, Widths
  <2> HIDE DEF p, q
  <2> QED BY <1>1, <2>1
<1>4. (i + a - p) % W = a - b
  <2>1. a - b \in 0 .. W - 1 /\ i + a - p \in Int
    BY <1>1, Widths
  <2> HIDE DEF p, q
  <2> QED BY <1>1, <1>3, <2>1, Widths, ModUnique
<1>5. (i + a) % W \in Int
  BY Widths, ModBasic
<1>6. (((i + a) % W) - p) % W = a - b
  <2>1. ((i + a) % W) + (-p) = ((i + a) % W) - p /\ i + a + (-p) = i + a - p
    BY <1>1, <1>5
  <2> HIDE DEF p, q
  <2> QED BY <1>2, <1>4, <2>1
<1> QED BY <1>6 DEF Dist, Plus

(* An index that wraps keeps its slot, as the width is a multiple of the   *)
(* size.                                                                   *)
LEMMA SlotOfPlus == \A i, k \in Int : Slot(Plus(i, k)) = (i + k) % SIZE
<1> TAKE i, k \in Int
<1> DEFINE x == i + k
           y == x % W
           d == x \div W
           c == W \div SIZE
           e == y \div SIZE
           z == y % SIZE
<1>1. x \in Int /\ y \in Int /\ d \in Int /\ x = W * d + y
  BY Widths, ModBasic
<1>2. c \in Int /\ W = SIZE * c + (W % SIZE) /\ W \in Int
  BY Widths, ModBasic
<1>3. e \in Int /\ y = SIZE * e + z /\ z \in 0 .. SIZE - 1
  BY <1>1, Widths, ModBasic
<1>4. W = SIZE * c
  <2>1. SIZE * c \in Int
    BY <1>2, Widths
  <2> HIDE DEF c
  <2> QED BY <1>2, <2>1, LapAssumption
<1>5. x = SIZE * (c * d + e) + z /\ c * d + e \in Int
  <2>1. SIZE * (c * d + e) = (SIZE * c) * d + SIZE * e
    <3> HIDE DEF x, y, d, c, e, z
    <3> QED BY <1>1, <1>2, <1>3, Widths, Z3
  <2>2. W * d \in Int /\ SIZE * e \in Int /\ c * d \in Int
    BY <1>1, <1>2, <1>3, Widths
  <2>3. (SIZE * c) * d = W * d
    BY <1>4
  <2> HIDE DEF x, y, d, c, e, z
  <2> QED BY <1>1, <1>3, <2>1, <2>2, <2>3
<1>6. x % SIZE = z
  <2> HIDE DEF x, y, d, c, e, z
  <2> QED BY <1>1, <1>3, <1>5, Widths, ModUnique
<1> QED BY <1>6 DEF Slot, Plus

(* Less than a ring apart, two places of the stream have different slots.  *)
LEMMA SlotsApart ==
  ASSUME NEW i \in Int, NEW k \in Int, NEW l \in Int, k < l, l < k + SIZE
  PROVE  Slot(Plus(i, k)) # Slot(Plus(i, l))
<1> SUFFICES ASSUME (i + k) % SIZE = (i + l) % SIZE PROVE FALSE
  BY SlotOfPlus
<1> DEFINE d == (i + k) \div SIZE
           e == (i + l) \div SIZE
<1>1. /\ d \in Int /\ e \in Int /\ (i + k) % SIZE \in Int
      /\ i + k = SIZE * d + ((i + k) % SIZE)
      /\ i + l = SIZE * e + ((i + l) % SIZE)
  BY Widths, ModBasic
<1>2. SIZE * (e - d) = l - k
  <2>1. SIZE * (e - d) = SIZE * e - SIZE * d /\ SIZE * e \in Int /\ SIZE * d \in Int
    BY <1>1, Widths, Z3
  <2> HIDE DEF d, e
  <2> QED BY <1>1, <2>1
<1>3. e - d = 0
  <2>1. e - d \in Int
    BY <1>1
  <2>2. -SIZE < SIZE * (e - d) /\ SIZE * (e - d) < SIZE
    BY <1>2, Widths
  <2> HIDE DEF d, e
  <2> QED BY <2>1, <2>2, Widths, SmallMultiple
<1> QED BY <1>2, <1>3, Widths

(* What was below a bound and shrinks stays below it.                      *)
LEMMA NoFuller ==
  \A a, b \in Int : a <= b =>
    /\ 0 + a <= b
    /\ \A c \in Int : b <= c => a <= c /\ (b + 2 <= c => a + 2 <= c)
OBVIOUS

(* Where the indices are, counted from the read index.                     *)
LEMMA FifoTypes ==
  ASSUME TypeOK
  PROVE  /\ widx \in Int /\ ridx \in Int /\ r \in Int /\ w \in Int
         /\ Stored \in 0 .. W - 1 /\ widx = Plus(ridx, Stored)
         /\ Dist(r, ridx) \in 0 .. W - 1 /\ r = Plus(ridx, Dist(r, ridx))
         /\ left \in Int /\ ridx \in Index /\ Dist(w, ridx) \in Int
         /\ n - Len(out) \in Int
<1>1. widx \in Index /\ ridx \in Index /\ r \in Index /\ w \in Index /\ left \in Int
  BY Widths DEF TypeOK
<1>2. widx \in Int /\ ridx \in Int /\ r \in Int /\ w \in Int
  BY <1>1 DEF Index
<1>3. Dist(widx, ridx) \in 0 .. W - 1 /\ Dist(r, ridx) \in 0 .. W - 1
  BY <1>2, Widths, ModBasic DEF Dist
<1>4. Plus(ridx, Dist(widx, ridx)) = widx /\ Plus(ridx, Dist(r, ridx)) = r
  BY <1>1, PlusDist
<1>5. Dist(w, ridx) \in Int
  BY <1>2, Widths, ModBasic DEF Dist
<1>6. n \in Int /\ Len(out) \in Int
  <2>1. n \in BlockSizes \cup {0} /\ out \in Seq(Index)
    BY DEF TypeOK
  <2>2. \A m \in BlockSizes : m \in Int
    BY BlockAssumption
  <2> QED BY <2>1, <2>2
<1>7. n - Len(out) \in Int
  BY <1>6
<1> QED BY <1>1, <1>2, <1>3, <1>4, <1>5, <1>7 DEF Stored

(* A store for the place d behind the stored samples overwrites none.      *)
LEMMA StoredSurvive ==
  ASSUME TypeOK, Contents, NEW d \in {0, 1}, Stored + d < SIZE, NEW x,
         buf' = [buf EXCEPT ![Slot(Plus(widx, d))] = x],
         NEW k \in 0 .. SIZE - 1, k < Stored + d,
         buf[Slot(Plus(ridx, k))] = Plus(ridx, k)
  PROVE  buf'[Slot(Plus(ridx, k))] = Plus(ridx, k)
<1>1. /\ ridx \in Int /\ widx = Plus(ridx, Stored) /\ Stored \in Int
      /\ buf \in [0 .. SIZE - 1 -> Index]
  BY FifoTypes DEF TypeOK
<1>2. Plus(widx, d) = Plus(ridx, Stored + d)
  BY <1>1, PlusPlus
<1>3. Slot(Plus(ridx, k)) # Slot(Plus(widx, d))
  <2>1. Stored + d \in Int /\ k \in Int /\ Stored + d < k + SIZE
    BY <1>1, Widths
  <2> QED BY <1>1, <1>2, <2>1, SlotsApart
<1>4. Slot(Plus(ridx, k)) \in 0 .. SIZE - 1
  <2> DEFINE place == ridx + k
  <2>1. place \in Int /\ k \in Int
    BY <1>1
  <2>2. Slot(Plus(ridx, k)) = place % SIZE
    BY <1>1, <2>1, SlotOfPlus
  <2> HIDE DEF place
  <2> QED BY <2>1, <2>2, Widths, ModBasic
<1> QED BY <1>1, <1>3, <1>4

(* The unsigned distance to the read index undoes advancing from it.       *)
LEMMA FromRead ==
  ASSUME TypeOK, NEW a \in 0 .. W - 1
  PROVE  Dist(Plus(ridx, a), ridx) = a
<1>1. ridx \in Int /\ ridx = Plus(ridx, 0)
  <2>1. ridx \in 0 .. W - 1
    BY DEF TypeOK, Index
  <2>2. ridx % W = ridx
    BY <2>1, Widths, ModSmall
  <2> QED BY <2>1, <2>2, Widths DEF Plus
<1>2. 0 \in 0 .. a
  OBVIOUS
<1>3. Dist(Plus(ridx, a), Plus(ridx, 0)) = a - 0
  BY <1>1, <1>2, DistBetween
<1> QED BY <1>1, <1>3

(* A frame more is stored once it is published.                            *)
LEMMA StoredAfterPost ==
  ASSUME TypeOK, Stored <= SIZE
  PROVE  Dist(Plus(widx, 2), ridx) = Stored + 2
<1>1. ridx \in Int /\ Stored \in 0 .. W - 1 /\ widx = Plus(ridx, Stored)
  BY FifoTypes
<1>2. Plus(widx, 2) = Plus(ridx, Stored + 2)
  BY <1>1, PlusPlus
<1>3. Stored + 2 \in 0 .. W - 1
  BY <1>1, Widths
<1> QED BY <1>2, <1>3, FromRead

(* Core 3 posts a frame: it touches nothing that is stored, and what it    *)
(* adds is there when it publishes it.                                     *)
LEMMA FifoPosts ==
  ASSUME FifoInv, KeepUpPost \/ FifoPosting
  PROVE  RoomKept' /\ ReaderBehind' /\ HandsOutNext' /\ Contents' /\ HalfPosted'
<1> USE DEF consumerVars, FifoInv, RingInv
<1>1. TypeOK /\ UNCHANGED <<cpc, n, w, r, left, out, played>>
  BY DEF KeepUpPost, FifoPosting, Posting, PostLeft, PostRight, CheckOverflow, DropOldest, Publish
<1>2. /\ widx \in Int /\ Stored \in 0 .. W - 1 /\ Stored <= SIZE /\ left \in Int
      /\ Dist(r, ridx) \in Int /\ widx = Plus(widx, 0)
  <2>1. widx \in 0 .. W - 1
    BY <1>1 DEF TypeOK, Index
  <2>2. widx % W = widx
    BY <2>1, Widths, ModSmall
  <2> QED BY <1>1, <2>1, <2>2, FifoTypes DEF RoomKept, Plus
<1>3. Slot(widx) \in 0 .. SIZE - 1 /\ Slot(Plus(widx, 1)) \in 0 .. SIZE - 1
  BY <1>1, <1>2, Widths, ModBasic DEF Slot, Plus
<1>4. buf \in [0 .. SIZE - 1 -> Index]
  BY <1>1 DEF TypeOK
<1>5. CASE KeepUpPost
  <2>1. /\ UNCHANGED <<widx, ridx>>
        /\ ppc' = "Right" /\ cur' = widx /\ buf' = [buf EXCEPT ![Slot(widx)] = widx]
        /\ Dist(Plus(widx, 2), ridx) <= SIZE
    BY <1>5 DEF KeepUpPost, PostLeft
  <2>2. Stored' = Stored /\ Stored + 2 <= SIZE
    BY <1>1, <1>2, <2>1, StoredAfterPost DEF Stored
  <2>3. RoomKept'
    BY <1>2, <2>1, <2>2 DEF RoomKept
  <2>4. ReaderBehind' /\ HandsOutNext'
    BY <1>1, <2>1, <2>2 DEF ReaderBehind, HandsOutNext, Copying
  <2>5. Contents'
    <3> SUFFICES ASSUME NEW k \in 0 .. SIZE - 1, k < Stored
                 PROVE  buf'[Slot(Plus(ridx, k))] = Plus(ridx, k)
      BY <2>1, <2>2 DEF Contents
    <3>1. buf[Slot(Plus(ridx, k))] = Plus(ridx, k)
      BY DEF Contents
    <3>2. buf' = [buf EXCEPT ![Slot(Plus(widx, 0))] = widx] /\ Stored + 0 < SIZE /\ k < Stored + 0
      <4>1. Slot(Plus(widx, 0)) = Slot(widx)
        BY <1>2
      <4>2. Stored + 0 < SIZE /\ k < Stored + 0
        BY <1>2, <2>2, Widths
      <4> QED BY <2>1, <4>1, <4>2
    <3> QED BY <1>1, <3>1, <3>2, StoredSurvive
  <2>6. HalfPosted'
    BY <1>3, <1>4, <2>1 DEF HalfPosted
  <2> QED BY <2>3, <2>4, <2>5, <2>6
<1>6. CASE FifoPosting /\ PostRight
  <2>1. /\ UNCHANGED <<widx, ridx, cur>>
        /\ ppc = "Right" /\ ppc' = "Check" /\ cur = widx /\ Stored + 2 <= SIZE
        /\ buf' = [buf EXCEPT ![Slot(Plus(widx, 1))] = Plus(widx, 1)]
        /\ buf[Slot(widx)] = widx
    BY <1>6 DEF PostRight, RoomKept, HalfPosted
  <2>2. Stored' = Stored
    BY <2>1 DEF Stored
  <2>3. RoomKept'
    BY <1>2, <2>1, <2>2 DEF RoomKept
  <2>4. ReaderBehind' /\ HandsOutNext'
    BY <1>1, <2>1, <2>2 DEF ReaderBehind, HandsOutNext, Copying
  <2>5. Contents'
    <3> SUFFICES ASSUME NEW k \in 0 .. SIZE - 1, k < Stored
                 PROVE  buf'[Slot(Plus(ridx, k))] = Plus(ridx, k)
      BY <2>1, <2>2 DEF Contents
    <3>1. buf[Slot(Plus(ridx, k))] = Plus(ridx, k)
      BY DEF Contents
    <3>2. Stored + 1 < SIZE /\ k < Stored + 1
      BY <1>2, <2>1, Widths
    <3> QED BY <1>1, <2>1, <3>1, <3>2, StoredSurvive
  <2>6. HalfPosted'
    <3>1. Slot(Plus(widx, 0)) # Slot(Plus(widx, 1))
      <4>1. 0 < 1 /\ 1 < 0 + SIZE
        BY <1>2, <2>1, Widths
      <4> QED BY <1>2, <4>1, SlotsApart
    <3>2. buf'[Slot(widx)] = widx /\ buf'[Slot(Plus(widx, 1))] = Plus(widx, 1)
      BY <1>2, <1>3, <1>4, <2>1, <3>1
    <3> QED BY <2>1, <3>2 DEF HalfPosted
  <2> QED BY <2>3, <2>4, <2>5, <2>6
<1>7. CASE FifoPosting /\ CheckOverflow
  <2>1. /\ UNCHANGED <<widx, ridx, cur, buf>>
        /\ ppc = "Check" /\ cur = widx /\ Stored + 2 <= SIZE
        /\ ppc' = IF Dist(Plus(widx, 2), ridx) > SIZE THEN "Drop" ELSE "Publish"
    BY <1>7 DEF CheckOverflow, RoomKept
  <2>2. ppc' = "Publish"
    BY <1>1, <1>2, <2>1, Widths, StoredAfterPost
  <2> QED
    BY <1>1, <2>1, <2>2
       DEF RoomKept, ReaderBehind, HandsOutNext, Contents, HalfPosted, Stored, Copying
<1>8. CASE FifoPosting /\ DropOldest
  BY <1>8 DEF DropOldest, RoomKept
<1>9. CASE FifoPosting /\ Publish
  <2>1. /\ UNCHANGED <<ridx, cur, buf>>
        /\ ppc = "Publish" /\ ppc' = "Idle" /\ widx' = Plus(widx, 2) /\ Stored + 2 <= SIZE
        /\ buf[Slot(widx)] = widx /\ buf[Slot(Plus(widx, 1))] = Plus(widx, 1)
    BY <1>9 DEF Publish, RoomKept, HalfPosted
  <2>2. Stored' = Stored + 2
    BY <1>1, <1>2, <2>1, StoredAfterPost DEF Stored
  <2>3. RoomKept' /\ HalfPosted'
    BY <1>2, <2>1, <2>2 DEF RoomKept, HalfPosted
  <2>4. ReaderBehind' /\ HandsOutNext'
    <3>1. Dist(w, ridx) \in Int
      BY <1>1, FifoTypes
    <3> QED BY <1>1, <1>2, <2>1, <2>2, <3>1 DEF ReaderBehind, HandsOutNext, Copying
  <2>5. Contents'
    <3> SUFFICES ASSUME NEW k \in 0 .. SIZE - 1, k < Stored + 2
                 PROVE  buf[Slot(Plus(ridx, k))] = Plus(ridx, k)
      BY <2>1, <2>2 DEF Contents
    <3>1. CASE k < Stored
      BY <3>1 DEF Contents
    <3>2. widx = Plus(ridx, Stored) /\ Plus(widx, 1) = Plus(ridx, Stored + 1)
      BY <1>1, <1>2, FifoTypes, PlusPlus
    <3> QED BY <1>2, <2>1, <3>1, <3>2
  <2> QED BY <2>3, <2>4, <2>5
<1> QED BY <1>5, <1>6, <1>7, <1>8, <1>9 DEF FifoPosting, Posting

(* What core 2 copies is the sample that is due.                           *)
LEMMA CopiesTheNext ==
  ASSUME FifoInv, cpc = "Copy"
  PROVE  /\ Dist(r, ridx) \in 0 .. SIZE - 1 /\ Dist(r, ridx) < Stored
         /\ buf[Slot(r)] = played /\ played = r
<1>1. /\ TypeOK /\ left > 0 /\ Dist(r, ridx) + left <= Stored /\ Stored <= SIZE /\ played = r
      /\ left \in Int /\ Dist(r, ridx) \in 0 .. W - 1 /\ Stored \in 0 .. W - 1
      /\ r = Plus(ridx, Dist(r, ridx))
  BY FifoTypes DEF FifoInv, RingInv, BlockNotOverrun, ReaderBehind, RoomKept, HandsOutNext, Copying
<1>2. Dist(r, ridx) \in 0 .. SIZE - 1 /\ Dist(r, ridx) < Stored
  BY <1>1, Widths
<1> QED BY <1>1, <1>2 DEF FifoInv, Contents

(* The copy takes the oldest sample, and nothing is stored or dropped.     *)
LEMMA FifoCopies ==
  ASSUME FifoInv, FifoCopy
  PROVE  RoomKept' /\ ReaderBehind' /\ HandsOutNext' /\ Contents' /\ HalfPosted'
<1>1. /\ UNCHANGED <<widx, ridx, buf, n, w, ppc, cur>>
      /\ cpc = "Copy" /\ cpc' \in {"Copy", "StoreRead"}
      /\ r' = Plus(r, 1) /\ left' = left - 1 /\ played' = Plus(played, 1)
  BY DEF FifoCopy, CopySample, producerVars
<1>2. TypeOK /\ ridx \in Int /\ left \in Int /\ Stored \in 0 .. W - 1 /\ Stored' = Stored
  BY <1>1, FifoTypes DEF FifoInv, RingInv, Stored
<1>3. RoomKept' /\ Contents' /\ HalfPosted'
  BY <1>1, <1>2 DEF FifoInv, RoomKept, Contents, HalfPosted
<1>4. HandsOutNext'
  BY <1>1, CopiesTheNext DEF HandsOutNext, Copying
<1>5. Dist(r', ridx') = Dist(r, ridx) + 1
  <2> DEFINE k == Dist(r, ridx)
  <2>1. k \in 0 .. SIZE - 1 /\ k < Stored /\ r = Plus(ridx, k)
    BY <1>1, <1>2, CopiesTheNext, FifoTypes
  <2> HIDE DEF k
  <2>2. Plus(r, 1) = Plus(ridx, k + 1)
    BY <1>2, <2>1, PlusPlus
  <2>3. Dist(Plus(ridx, k + 1), ridx) = k + 1
    BY <1>2, <2>1, Widths, FromRead
  <2> QED BY <1>1, <2>2, <2>3 DEF k
<1>6. ReaderBehind'
  BY <1>1, <1>2, <1>5, CopiesTheNext DEF ReaderBehind, FifoInv, Copying
<1> QED BY <1>3, <1>4, <1>6

(* The other steps of core 2: they never claim more than is stored, and what*)
(* StoreRead gives back has been handed out.                               *)
LEMMA FifoConsumes ==
  ASSUME FifoInv, FifoConsume
  PROVE  RoomKept' /\ ReaderBehind' /\ HandsOutNext' /\ Contents' /\ HalfPosted'
<1> USE DEF FifoInv
<1>1. /\ TypeOK /\ UNCHANGED <<widx, buf, ppc, cur, played>>
      /\ ridx \in Int /\ left \in Int /\ Stored \in 0 .. W - 1
  BY FifoTypes
     DEF RingInv, FifoConsume, Consuming, BeginBlock, LoadWrite, LoadRead, StoreRead, RetryFill,
         Output, producerVars
<1>2. CASE BeginBlock \/ LoadWrite \/ RetryFill \/ Output
  <2>1. UNCHANGED <<ridx, r>> /\ cpc \notin {"Copy", "StoreRead"} /\ cpc' \notin {"Copy", "StoreRead"}
        /\ (cpc' = "LoadRead" => w' = widx)
    BY <1>2 DEF BeginBlock, LoadWrite, RetryFill, Output
  <2>2. Stored' = Stored
    BY <1>1, <2>1 DEF Stored
  <2>3. RoomKept' /\ Contents' /\ HalfPosted'
    BY <1>1, <2>1, <2>2 DEF RoomKept, Contents, HalfPosted
  <2>4. HandsOutNext'
    BY <1>1, <2>1 DEF HandsOutNext, Copying
  <2>5. ReaderBehind'
    <3>1. cpc' = "LoadRead" => Dist(w', ridx') = Stored
      BY <2>1 DEF Stored
    <3> QED BY <1>1, <2>1, <2>2, <3>1 DEF ReaderBehind, Copying
  <2> QED BY <2>3, <2>4, <2>5
<1>3. CASE LoadRead
  <2>1. /\ UNCHANGED ridx /\ r' = ridx /\ cpc = "LoadRead" /\ cpc' \in {"Copy", "Burst"}
        /\ \/ left' = Dist(w, ridx)
           \/ left' = n - Len(out) /\ left' <= Dist(w, ridx)
    <3>1. Dist(w, ridx) \in Int /\ n - Len(out) \in Int
      BY <1>1, FifoTypes
    <3> QED BY <1>3, <3>1 DEF LoadRead
  <2>2. Stored' = Stored
    BY <1>1, <2>1 DEF Stored
  <2>3. RoomKept' /\ Contents' /\ HalfPosted'
    BY <1>1, <2>1, <2>2 DEF RoomKept, Contents, HalfPosted
  <2>4. HandsOutNext'
    BY <1>1, <2>1 DEF HandsOutNext, Copying
  <2>5. ReaderBehind'
    <3>1. Dist(ridx, ridx) = 0
      <4>1. 0 \in 0 .. W - 1 /\ ridx - ridx = 0
        BY <1>1, Widths
      <4> QED BY <4>1, Widths, ModSmall DEF Dist
    <3>2. Dist(w, ridx) <= Stored /\ Dist(w, ridx) \in Int /\ n - Len(out) \in Int
      BY <1>1, <2>1, FifoTypes DEF ReaderBehind
    <3>3. left' \in Int /\ left' <= Stored
      BY <1>1, <2>1, <3>2
    <3>4. Dist(r', ridx') = 0
      BY <2>1, <3>1
    <3>5. Dist(r', ridx') + left' <= Stored'
      <4>1. Stored \in Int
        BY <1>1
      <4>2. 0 + left' <= Stored
        BY <3>3, <4>1, NoFuller, Zenon
      <4> QED BY <2>2, <3>4, <4>2, Zenon
    <3> QED BY <2>1, <3>5 DEF ReaderBehind
  <2> QED BY <2>3, <2>4, <2>5
<1>4. CASE StoreRead
  <2> DEFINE k == Dist(r, ridx)
  <2>1. /\ ridx' = r /\ cpc = "StoreRead" /\ cpc' \in {"LoadWrite", "Output"}
        /\ r = Plus(ridx, k) /\ k \in 0 .. W - 1 /\ k <= Stored /\ widx = Plus(ridx, Stored)
        /\ played = r
    <3>1. cpc = "StoreRead" /\ ridx' = r /\ cpc' \in {"LoadWrite", "Output"} /\ k + left <= Stored
      BY <1>4 DEF StoreRead, ReaderBehind, Copying
    <3>2. left \in 0 .. SIZE
      BY <1>1 DEF TypeOK
    <3>3. k \in 0 .. W - 1 /\ r = Plus(ridx, k) /\ widx = Plus(ridx, Stored)
      BY <1>1, FifoTypes
    <3>4. k <= Stored
      <4> HIDE DEF k
      <4> QED BY <1>1, <3>1, <3>2, <3>3, Widths
    <3> QED BY <3>1, <3>3, <3>4 DEF HandsOutNext, Copying
  <2> HIDE DEF k
  <2>2. Stored' = Stored - k
    <3>1. k \in 0 .. Stored
      BY <1>1, <2>1
    <3> QED BY <1>1, <2>1, <3>1, DistBetween DEF Stored
  <2>3. RoomKept' /\ HalfPosted'
    <3>1. Stored' <= Stored /\ Stored' \in Int
      BY <1>1, <2>1, <2>2
    <3>2. Stored' <= SIZE /\ (Stored + 2 <= SIZE => Stored' + 2 <= SIZE)
      <4>1. Stored \in Int /\ Stored <= SIZE /\ SIZE \in Int
        BY <1>1, Widths DEF RoomKept
      <4> QED BY <3>1, <4>1, NoFuller
    <3>3. RoomKept'
      BY <1>1, <3>2 DEF RoomKept
    <3>4. HalfPosted'
      BY <1>1 DEF HalfPosted
    <3> QED BY <3>3, <3>4
  <2>4. HandsOutNext' /\ ReaderBehind'
    BY <1>1, <2>1 DEF HandsOutNext, ReaderBehind, Copying
  <2>5. Contents'
    <3> SUFFICES ASSUME NEW j \in 0 .. SIZE - 1, j < Stored - k
                 PROVE  buf[Slot(Plus(r, j))] = Plus(r, j)
      BY <1>1, <2>1, <2>2 DEF Contents
    <3>1. Plus(r, j) = Plus(ridx, k + j)
      BY <1>1, <2>1, PlusPlus
    <3>2. k + j \in 0 .. SIZE - 1 /\ k + j < Stored
      BY <1>1, <2>1, Widths DEF RoomKept
    <3> QED BY <3>1, <3>2 DEF Contents
  <2> QED BY <2>3, <2>4, <2>5
<1> QED BY <1>2, <1>3, <1>4 DEF FifoConsume, Consuming
-----------------------------------------------------------------------------
(* FifoInv is an invariant of the ring while core 2 keeps up.              *)
THEOREM KeepUpInvariant == KeepUpSpec => []FifoInv
<1>1. FifoInit => FifoInv
  <2> SUFFICES ASSUME FifoInit PROVE FifoInv
    OBVIOUS
  <2> USE DEF FifoInit, RingInit
  <2>1. RingInv
    BY InitialRing
  <2>2. Stored = 0
    <3>1. 0 \in 0 .. W - 1 /\ 0 - 0 = 0
      BY Widths
    <3> QED BY <3>1, Widths, ModSmall DEF Stored, Dist
  <2>3. RoomKept /\ HalfPosted
    BY <2>2, Widths DEF RoomKept, HalfPosted
  <2>4. ReaderBehind /\ HandsOutNext
    BY DEF ReaderBehind, HandsOutNext, Copying
  <2>5. Contents
    BY <2>2 DEF Contents
  <2> QED BY <2>1, <2>3, <2>4, <2>5 DEF FifoInv
<1>2. FifoInv /\ [KeepUpNext]_fifoVars => FifoInv'
  <2> SUFFICES ASSUME FifoInv, [KeepUpNext]_fifoVars PROVE FifoInv'
    OBVIOUS
  <2>1. CASE KeepUpPost \/ FifoPosting
    <3>1. RingInv'
      BY <2>1, ProducerStep DEF FifoInv, KeepUpPost, FifoPosting
    <3> QED BY <2>1, <3>1, FifoPosts DEF FifoInv
  <2>2. CASE FifoCopy
    <3>1. RingInv'
      BY <2>2, CopyStep DEF FifoInv, FifoCopy
    <3> QED BY <2>2, <3>1, FifoCopies DEF FifoInv
  <2>3. CASE FifoConsume
    <3>1. RingInv'
      BY <2>3, ConsumerStep DEF FifoInv, FifoConsume
    <3> QED BY <2>3, <3>1, FifoConsumes DEF FifoInv
  <2>4. CASE UNCHANGED fifoVars
    <3>1. RingInv'
      BY <2>4, RingStutter DEF FifoInv, fifoVars
    <3> QED
      BY <2>4, <3>1 DEF FifoInv, fifoVars, ringVars, RoomKept, ReaderBehind, HandsOutNext,
                        Contents, HalfPosted, Stored, Copying
  <2> QED BY <2>1, <2>2, <2>3, <2>4 DEF KeepUpNext
<1> QED BY <1>1, <1>2, PTL DEF KeepUpSpec

(* What the queue counts as waiting: the stored samples not yet copied.    *)
LEMMA Waiting ==
  ASSUME FifoInv
  PROVE  /\ Dist(widx, played) \in Int /\ Dist(widx, played) <= Stored
         /\ cpc = "Copy" => Dist(widx, played) > 0
<1>1. /\ TypeOK /\ ridx \in Int /\ Stored \in 0 .. W - 1 /\ widx = Plus(ridx, Stored)
      /\ ridx = Plus(ridx, 0)
  <2>1. TypeOK /\ ridx \in 0 .. W - 1
    BY DEF FifoInv, RingInv, TypeOK, Index
  <2>2. ridx % W = ridx
    BY <2>1, Widths, ModSmall
  <2> QED BY <2>1, <2>2, FifoTypes DEF Plus
<1>2. CASE ~ Copying
  BY <1>1, <1>2 DEF FifoInv, HandsOutNext, Copying, Stored
<1>3. CASE Copying
  <2> DEFINE k == Dist(r, ridx)
  <2>1. played = Plus(ridx, k) /\ k \in Int /\ k >= 0
    BY <1>1, <1>3, FifoTypes DEF FifoInv, HandsOutNext
  <2>2. k <= Stored /\ (cpc = "Copy" => k < Stored)
    <3>1. left \in Int /\ left >= 0 /\ (cpc = "Copy" => left > 0) /\ k + left <= Stored
      BY <1>1, <1>3, Widths DEF FifoInv, RingInv, TypeOK, BlockNotOverrun, ReaderBehind
    <3> HIDE DEF k
    <3> QED BY <1>1, <2>1, <3>1
  <2> HIDE DEF k
  <2>3. k \in 0 .. Stored
    BY <1>1, <2>1, <2>2
  <2>4. Dist(widx, played) = Stored - k
    BY <1>1, <2>1, <2>3, DistBetween
  <2> QED BY <1>1, <2>1, <2>2, <2>4
<1> QED BY <1>2, <1>3

(* While core 2 keeps up, every step of MCU_PostSample and of the audio loop*)
(* is a step of the bounded queue or leaves it alone: samples come out once,*)
(* in the order and with the values they were posted.                      *)
THEOREM RingRefinesQueue == KeepUpSpec => Queue!Init /\ [][Queue!Next]_(Queue!queueVars)
<1>1. FifoInit => Queue!Init
  BY DEF FifoInit, RingInit, Queue!Init
<1>2. FifoInv /\ [KeepUpNext]_fifoVars => [Queue!Next]_(Queue!queueVars)
  <2> SUFFICES ASSUME FifoInv, KeepUpNext,
                      ~ UNCHANGED <<widx, played, out>>
               PROVE  Queue!Next
    BY DEF fifoVars, ringVars, Queue!queueVars
  <2>1. TypeOK /\ ridx \in Int /\ Stored \in 0 .. W - 1 /\ SIZE \in Int
    BY FifoTypes, Widths DEF FifoInv, RingInv
  <2>2. CASE FifoPosting /\ Publish
    <3>1. /\ UNCHANGED <<played, out>> /\ widx' = Plus(widx, 2)
          /\ Stored + 2 <= SIZE
      BY <2>2 DEF FifoPosting, Publish, consumerVars, FifoInv, RoomKept
    <3>2. Dist(widx, played) + 2 <= SIZE
      <4> QED BY <2>1, <3>1, Waiting
    <3> QED BY <3>1, <3>2 DEF Queue!Next, Queue!Post, Queue!Waiting, Plus, Dist
  <2>3. CASE FifoCopy
    <3>1. /\ UNCHANGED widx /\ out' = Append(out, played) /\ played' = Plus(played, 1)
          /\ cpc = "Copy"
      BY <2>3, CopiesTheNext DEF FifoCopy, CopySample
    <3>2. Dist(widx, played) > 0
      <4> QED BY <3>1, Waiting
    <3> QED BY <3>1, <3>2 DEF Queue!Next, Queue!Take, Queue!Waiting, Plus, Dist
  <2>4. CASE FifoConsume
    BY <2>4 DEF FifoConsume, Consuming, BeginBlock, LoadWrite, LoadRead, StoreRead, RetryFill,
                Output, Queue!Next, Queue!NewBlock
  <2>5. ~KeepUpPost /\ (FifoPosting => Publish)
    BY DEF KeepUpPost, FifoPosting, Posting, PostLeft, PostRight, CheckOverflow, DropOldest,
           consumerVars
  <2> QED BY <2>2, <2>3, <2>4, <2>5 DEF KeepUpNext
<1> QED BY <1>1, <1>2, KeepUpInvariant, PTL DEF KeepUpSpec
-----------------------------------------------------------------------------
(* The three cores.                                                        *)

(* A multiple of a smaller number is smaller; multiples subtract.          *)
LEMMA Scaling ==
  ASSUME NEW a \in Nat, NEW b \in Nat, NEW c \in Nat, a <= b
  PROVE  a * c <= b * c /\ (b - a) * c = b * c - a * c
<1>1. (b - a) * c = b * c - a * c
  BY Z3
<1>2. b - a \in Nat /\ (b - a) * c >= 0
  BY Z3
<1> QED
  BY <1>1, <1>2, Z3

LEMMA Raise ==
  \A a, b, c, d, e \in Int : c <= d /\ a + b < c + e => a + b < d + e
OBVIOUS

LEMMA Lead ==
  \A p, l, c \in Int : p < l + c => p - l < c
OBVIOUS

LEMMA Constants ==
  /\ BURST \in Nat \ {0} /\ MCUCycles \in Nat \ {0} /\ SampleCyc \in Nat \ {0}
  /\ MaxGen \in Nat \ {0} /\ PcmCyc \in Nat \ {0} /\ BLOCK \in Nat \ {0}
  /\ MaxLead \in Nat \ {0}
BY PipelineAssumption

(* A block of fit samples, or of fewer, never ends beyond the batch by as  *)
(* much as a sample.                                                       *)
LEMMA BlockFits ==
  ASSUME NEW target \in Int, NEW p \in Int, p < target, NEW k \in Nat,
         k = 1 \/ k <= (target - p) \div PcmCyc
  PROVE  p + k * PcmCyc < target + PcmCyc
<1>1. PcmCyc \in Nat \ {0} /\ PcmCyc > 0
  BY Constants
<1>2. CASE k = 1
  BY <1>1, <1>2
<1>3. CASE k <= (target - p) \div PcmCyc
  <2> DEFINE q == (target - p) \div PcmCyc
             rest == (target - p) % PcmCyc
  <2>1. q \in Int /\ rest \in 0 .. PcmCyc - 1 /\ target - p = PcmCyc * q + rest
    BY <1>1, ModBasic
  <2>2. q \in Nat
    BY <1>3, <2>1
  <2>3. k * PcmCyc <= q * PcmCyc
    BY <1>1, <1>3, <2>2, Scaling
  <2>4. PcmCyc * q = q * PcmCyc /\ q * PcmCyc \in Int /\ k * PcmCyc \in Int
    BY <1>1, <2>2, Z3
  <2> HIDE DEF q, rest
  <2> QED
    BY <1>1, <2>1, <2>3, <2>4
<1> QED
  BY <1>2, <1>3

LEMMA InitialPipe == PipeInit => PipeInv
<1> SUFFICES ASSUME PipeInit PROVE PipeInv
  OBVIOUS
<1>1. RingInv
  BY InitialRing DEF PipeInit
<1>2. CountersOK
  <2>2. 0 \in 0 .. BURST /\ 0 \in 0 .. MaxGen /\ 0 \in 0 .. BLOCK /\ 0 \in 0 .. 2 * BLOCK
    BY Constants
  <2>3. 0 \in -1 .. MaxLead /\ 0 \in 0 .. MaxLead
    BY Constants
  <2> QED
    BY <2>2, <2>3 DEF CountersOK, PipeInit
<1>5. TypeOK /\ paused = FALSE
  BY <1>1 DEF RingInv, PipeInit
<1>3. PauseFollowsSwitch /\ Core3Outside /\ BatchCovered /\ SpinsOnEmpty
  BY DEF PipeInit, RingInit, PauseFollowsSwitch, Core3Outside, BatchCovered, SpinsOnEmpty, AfterStop
<1>4. PcmNotAhead
  BY Constants DEF PipeInit, PcmNotAhead
<1> QED
  BY <1>1, <1>2, <1>3, <1>4, <1>5, Zenon DEF PipeInv, PipeTypeOK

(* Setting an index of the ring to zero does not disturb it.               *)
LEMMA ZeroingStep ==
  ASSUME RingInv, widx' \in {0, widx}, ridx' \in {0, ridx},
         UNCHANGED <<buf, producerVars, consumerVars>>
  PROVE  RingInv'
<1>1. /\ TypeOK /\ IndicesEven /\ BlockParity /\ BlockSize
      /\ SlotParity /\ ChannelAligned /\ BlockNotOverrun
  BY DEF RingInv
<1> USE DEF producerVars, consumerVars
<1>2. 0 \in Index /\ 0 % 2 = 0
  BY WidthAssumption, SizeAssumption DEF Index
<1>3. TypeOK' /\ IndicesEven'
  BY <1>1, <1>2 DEF TypeOK, IndicesEven
<1>4. BlockParity' /\ BlockSize' /\ SlotParity' /\ ChannelAligned' /\ BlockNotOverrun'
  BY <1>1 DEF BlockParity, BlockSize, SlotParity, ChannelAligned, BlockNotOverrun
<1> QED
  BY <1>3, <1>4 DEF RingInv

(* Every step of the pipeline keeps the ring's invariant.                  *)
LEMMA PipeRing == RingInv /\ [Next]_vars => RingInv'
<1> SUFFICES ASSUME RingInv, [Next]_vars PROVE RingInv'
  OBVIOUS
<1>1. CASE Core2
  BY <1>1, CopyStep, ConsumerStep, RingStutter
     DEF Core2, Core2Begin, Core2Copy, McuInstruction, EndBurst, Consuming
<1>2. CASE Core3
  BY <1>2, ProducerStep, RingStutter
     DEF Core3, CheckPause, Resync, Measure, StartBatch, StartBlock, PostFrame, FinishFrame,
         EndBlock, EndBatch
<1>3. CASE Pause \/ Stopped \/ Resume \/ UNCHANGED vars
  BY <1>3, RingStutter DEF Pause, Stopped, Resume, vars
<1>4. CASE Reset \/ ZeroWriteIdx
  BY <1>4, ZeroingStep DEF Reset, ZeroWriteIdx
<1>5. CASE ZeroReadIdx
  BY <1>5, ZeroingStep DEF ZeroReadIdx
<1> QED
  BY <1>1, <1>2, <1>3, <1>4, <1>5 DEF Next, Core0Switching
-----------------------------------------------------------------------------
(* Audio is paused from the first step of a switch to its last.            *)
LEMMA PauseStep ==
  ASSUME paused \in BOOLEAN, PauseFollowsSwitch, [Next]_vars
  PROVE  paused' \in BOOLEAN /\ PauseFollowsSwitch'
<1>1. CASE UNCHANGED <<paused, mpc>>
  BY <1>1, Zenon DEF PauseFollowsSwitch
<1>2. CASE Pause
  <2>1. mpc' # "Run"
    BY <1>2 DEF Pause
  <2> QED
    BY <1>2, <2>1, Zenon DEF Pause, PauseFollowsSwitch
<1>3. CASE Stopped \/ Reset \/ ZeroWriteIdx \/ ZeroReadIdx
  <2>1. mpc # "Run" /\ mpc' # "Run" /\ paused' = paused
    BY <1>3 DEF Stopped, Reset, ZeroWriteIdx, ZeroReadIdx
  <2> QED
    BY <2>1, Zenon DEF PauseFollowsSwitch
<1>4. CASE Resume
  BY <1>4, Zenon DEF Resume, PauseFollowsSwitch
<1>5. Core2 => UNCHANGED <<paused, mpc>>
  BY DEF Core2, Core2Begin, Core2Copy, McuInstruction, EndBurst
<1>6. Core3 => UNCHANGED <<paused, mpc>>
  BY DEF Core3, CheckPause, Resync, Measure, StartBatch, StartBlock, PostFrame, FinishFrame,
         EndBlock, EndBatch
<1>7. UNCHANGED vars => UNCHANGED <<paused, mpc>>
  BY DEF vars
<1> QED
  BY <1>1, <1>2, <1>3, <1>4, <1>5, <1>6, <1>7 DEF Next, Core0Switching

(* PipeInv without the ring's own invariant and the pause flag.            *)
Rest == CountersOK /\ Core3Outside /\ BatchCovered /\ SpinsOnEmpty /\ PcmNotAhead

LEMMA Core2Step ==
  ASSUME PipeInv, Core2 PROVE Rest'
<1>1. CountersOK /\ Core3Outside /\ BatchCovered /\ SpinsOnEmpty /\ PcmNotAhead
  BY DEF PipeInv, PipeTypeOK
<1>2. ~paused => mpc = "Run"
  BY Zenon DEF PipeInv, PauseFollowsSwitch
<1>3. mpc = "Run" => mpc \notin {"Draining", "ZeroRead", "Settling"}
  OBVIOUS
<1>4. CASE Core2Begin
  BY <1>1, <1>2, <1>4
     DEF Core2Begin, BeginBlock, Rest, CountersOK, Core3Outside, BatchCovered, SpinsOnEmpty,
         PcmNotAhead, core3Vars, clockVars, producerVars
<1>5. CASE Core2Copy
  <2>1. /\ UNCHANGED <<paused, mpc, core3Vars, clockVars, widx, producerVars>>
        /\ LoadWrite \/ LoadRead \/ CopySample \/ StoreRead \/ Output
    BY <1>5 DEF Core2Copy, LoadWrite, LoadRead, CopySample, StoreRead, Output
  <2>2. CountersOK' /\ Core3Outside' /\ BatchCovered' /\ PcmNotAhead'
    BY <1>1, <2>1 DEF CountersOK, Core3Outside, BatchCovered, PcmNotAhead, core3Vars,
                      clockVars, producerVars
  <2>3. SpinsOnEmpty'
    <3>1. CASE mpc \in {"ZeroRead", "Settling"}
      <4>1. Core2Settled /\ cpc # "Copy" /\ cpc # "StoreRead" /\ cpc # "Output"
        BY <1>1, <3>1 DEF SpinsOnEmpty, Core2Settled
      <4>2. LoadWrite \/ LoadRead
        BY <2>1, <4>1 DEF CopySample, StoreRead, Output
      <4>3. w \in Int /\ (w = widx /\ widx = ridx => Dist(w, ridx) = 0)
        BY WidthAssumption, SizeAssumption DEF PipeInv, RingInv, TypeOK, Index, Dist
      <4>4. Core2Settled' /\ ridx' = ridx
        BY <4>1, <4>2, <4>3, <2>1 DEF LoadWrite, LoadRead, Core2Settled
      <4> QED
        BY <1>1, <2>1, <4>4 DEF SpinsOnEmpty
    <3>2. CASE mpc \notin {"ZeroRead", "Settling"}
      BY <1>1, <2>1, <3>2 DEF SpinsOnEmpty
    <3> QED
      BY <3>1, <3>2
  <2> QED
    BY <2>2, <2>3 DEF Rest
<1>6. CASE McuInstruction
  <2>1. mpc = "Run"
    BY <1>2, <1>6, Zenon DEF McuInstruction
  <2>2. /\ UNCHANGED <<ringVars, mpc, core3Vars>>
        /\ lead' = lead + MCUCycles /\ lead + MCUCycles <= MaxLead
        /\ instr' = instr + 1 /\ instr < BURST
    BY <1>6 DEF McuInstruction
  <2>3. CountersOK'
    BY <1>1, <2>2, Constants DEF CountersOK, core3Vars
  <2>4. Core3Outside' /\ SpinsOnEmpty'
    BY <1>1, <2>1, <2>2 DEF Core3Outside, SpinsOnEmpty, core3Vars, ringVars
  <2>5. BatchCovered' /\ PcmNotAhead'
    <3>1. /\ lead \in Int /\ lead' \in Int /\ lead <= lead' /\ phase \in Int
          /\ togen \in Nat /\ blk \in Nat /\ MCUCycles \in Nat
      BY <1>1, <2>2, Constants DEF CountersOK
    <3>2. togen * SampleCyc \in Int /\ blk * PcmCyc \in Int /\ PcmCyc \in Int
      BY <3>1, Constants, Z3
    <3>3. togen * SampleCyc <= lead => togen * SampleCyc <= lead'
      BY <3>1, <3>2
    <3>4. phase + blk * PcmCyc < lead + PcmCyc => phase + blk * PcmCyc < lead' + PcmCyc
      BY <3>1, <3>2, Raise
    <3>5. BatchCovered'
      BY <1>1, <2>2, <3>3, <3>4 DEF BatchCovered, core3Vars
    <3>6. PcmNotAhead'
      BY <1>1, <2>2, <3>1, <3>2 DEF PcmNotAhead, core3Vars
    <3> QED
      BY <3>5, <3>6
  <2> QED
    BY <2>3, <2>4, <2>5 DEF Rest
<1>7. CASE EndBurst
  <2>1. UNCHANGED <<paused, mpc, core3Vars, lead, widx, ridx, producerVars>>
    BY <1>7 DEF EndBurst, RetryFill
  <2>2. cpc = "Burst" /\ cpc' = "LoadWrite" /\ instr' = 0
    BY <1>7 DEF EndBurst, RetryFill
  <2> QED
    BY <1>1, <2>1, <2>2, Constants
       DEF Rest, CountersOK, Core3Outside, BatchCovered, SpinsOnEmpty, Core2Settled,
           PcmNotAhead, core3Vars, producerVars
<1> QED
  BY <1>4, <1>5, <1>6, <1>7 DEF Core2

LEMMA Core3Step ==
  ASSUME PipeInv, RingInv', Core3 PROVE Rest'
<1>1. /\ CountersOK /\ Core3Outside /\ BatchCovered /\ SpinsOnEmpty /\ PcmNotAhead
      /\ mpc' = mpc
  BY DEF PipeInv, PipeTypeOK, Core3, CheckPause, Resync, Measure, StartBatch, StartBlock,
         PostFrame, FinishFrame, EndBlock, EndBatch
<1>2. mpc # "Run" => paused
  BY Zenon DEF PipeInv, PauseFollowsSwitch
<1>3. /\ lead \in -1 .. MaxLead /\ lead \in Int /\ phase \in Int
      /\ togen \in Nat /\ gen \in Nat /\ blk \in Nat
      /\ SampleCyc \in Nat /\ SampleCyc > 0 /\ PcmCyc \in Nat /\ PcmCyc > 0
      /\ MaxLead \in Nat /\ MaxGen \in Nat /\ MaxGen > 0 /\ BLOCK \in Nat /\ BLOCK > 0
  BY <1>1, Constants DEF CountersOK
\* Only posting touches the ring, and it leaves what core 2 spins on alone
\* while core 0 is past the stop.
<1>4. UNCHANGED <<widx, ridx, cpc, w>> => SpinsOnEmpty'
  BY <1>1 DEF SpinsOnEmpty, Core2Settled
<1>5. CASE CheckPause
  <2>1. UNCHANGED <<ringVars, mpc, clockVars, phase, togen, gen, blk, toPost>>
    BY <1>5 DEF CheckPause
  <2>2. /\ kpc' \in {"Resync", "Measure"}
        /\ mpc # "Run" => kpc' = "Resync"
    BY <1>2, <1>5 DEF CheckPause
  <2>3. kpc = "Loop"
    BY <1>5 DEF CheckPause
  <2>4. SpinsOnEmpty'
    BY <1>4, <2>1 DEF ringVars
  <2> QED
    BY <1>1, <2>1, <2>2, <2>3, <2>4
       DEF Rest, CountersOK, Core3Outside, BatchCovered, PcmNotAhead, AfterStop, ringVars, clockVars
<1>6. CASE Resync
  <2>1. /\ UNCHANGED <<ringVars, mpc, instr, togen, gen, blk, toPost>>
        /\ lead' = 0 /\ phase' = phase - lead /\ kpc' = "Loop" /\ kpc = "Resync"
    BY <1>6 DEF Resync
  <2>2. SpinsOnEmpty'
    BY <1>4, <2>1 DEF ringVars
  <2>3. CountersOK' /\ PcmNotAhead'
    BY <1>1, <1>3, <2>1 DEF CountersOK, PcmNotAhead
  <2> QED
    BY <1>1, <2>1, <2>2, <2>3 DEF Rest, Core3Outside, BatchCovered, ringVars
<1>7. CASE Measure
  <2>1. /\ UNCHANGED <<ringVars, mpc, clockVars, phase, gen, blk, toPost>>
        /\ kpc = "Measure"
    BY <1>7 DEF Measure
  <2>2. SpinsOnEmpty'
    BY <1>4, <2>1 DEF ringVars
  <2>3. CASE lead >= SampleCyc
    <3> DEFINE q == lead \div SampleCyc
               k == lead % SampleCyc
    <3>1. togen' = q /\ kpc' = "Batch"
      BY <1>7, <2>3 DEF Measure
    <3>2. q \in Int /\ k \in 0 .. SampleCyc - 1 /\ lead = SampleCyc * q + k
      BY <1>3, ModBasic
    <3>3. q \in Nat /\ q <= lead
      BY <1>3, <2>3, Z3
    <3>4. q * SampleCyc = SampleCyc * q /\ q * SampleCyc \in Int
      BY <1>3, <3>2, Z3
    <3>5. togen' * SampleCyc <= lead /\ togen' \in 0 .. MaxLead
      <4> HIDE DEF q, k
      <4>1. q * SampleCyc <= lead
        BY <3>2, <3>4, <1>3
      <4>2. q \in 0 .. MaxLead
        BY <3>3, <1>3
      <4> QED
        BY <4>1, <4>2, <3>1
    <3> HIDE DEF q, k
    <3> QED
      BY <1>1, <2>1, <2>2, <3>1, <3>5
         DEF Rest, CountersOK, Core3Outside, BatchCovered, PcmNotAhead, AfterStop, ringVars,
             clockVars
  <2>4. CASE ~(lead >= SampleCyc)
    <3>1. kpc' = "Loop" /\ togen' = togen
      BY <1>7, <2>4 DEF Measure
    <3> QED
      BY <1>1, <2>1, <2>2, <3>1
         DEF Rest, CountersOK, Core3Outside, BatchCovered, PcmNotAhead, ringVars, clockVars
  <2> QED
    BY <2>3, <2>4
<1>8. CASE StartBatch
  <2>1. /\ UNCHANGED <<ringVars, mpc, clockVars, phase, togen, blk, toPost>>
        /\ kpc = "Batch" /\ gen' = LeastOf(togen, MaxGen)
        /\ kpc' \in {"Update", "Loop"}
    BY <1>8 DEF StartBatch
  <2>2. gen' \in 0 .. MaxGen /\ gen' <= togen
    BY <1>3, <2>1 DEF LeastOf
  <2>3. SpinsOnEmpty'
    BY <1>4, <2>1 DEF ringVars
  <2> QED
    BY <1>1, <2>1, <2>2, <2>3
       DEF Rest, CountersOK, Core3Outside, BatchCovered, PcmNotAhead, AfterStop, ringVars, clockVars
<1>9. CASE StartBlock
  <2> DEFINE fit == (gen * SampleCyc - phase) \div PcmCyc
  <2>1. /\ UNCHANGED <<ringVars, mpc, clockVars, phase, togen, gen>>
        /\ kpc = "Update" /\ kpc' = "Post" /\ phase < gen * SampleCyc
        /\ blk' = IF fit <= 0 THEN 1 ELSE LeastOf(fit, BLOCK)
        /\ toPost' = 2 * blk'
    BY <1>9 DEF StartBlock
  <2>2. gen * SampleCyc \in Int /\ togen * SampleCyc \in Int
        /\ gen * SampleCyc <= togen * SampleCyc
    <3>1. gen <= togen
      BY <1>1, <2>1 DEF BatchCovered
    <3> QED
      BY <1>3, <3>1, Scaling, Z3
  <2>3. togen * SampleCyc <= lead
    BY <1>1, <2>1 DEF BatchCovered
  <2>4. fit \in Int
    BY <1>3, <2>2, ModBasic
  <2> HIDE DEF fit
  <2>5. blk' \in 1 .. BLOCK /\ (blk' = 1 \/ blk' <= fit)
    BY <1>3, <2>1, <2>4 DEF LeastOf
  <2>6. blk' \in Nat /\ toPost' \in 0 .. 2 * BLOCK
    BY <1>3, <2>1, <2>5
  <2>7. phase + blk' * PcmCyc < gen * SampleCyc + PcmCyc
    BY <1>3, <2>1, <2>2, <2>5, <2>6, BlockFits DEF fit
  <2>8. phase + blk' * PcmCyc < lead + PcmCyc
    <3>1. blk' * PcmCyc \in Int
      BY <1>3, <2>6, Z3
    <3>2. gen * SampleCyc <= lead
      BY <1>3, <2>2, <2>3
    <3> QED
      BY <1>3, <2>2, <2>7, <3>1, <3>2, Raise
  <2>9. SpinsOnEmpty'
    BY <1>4, <2>1 DEF ringVars
  <2> QED
    BY <1>1, <1>3, <2>1, <2>5, <2>6, <2>8, <2>9
       DEF Rest, CountersOK, Core3Outside, BatchCovered, PcmNotAhead, AfterStop, ringVars, clockVars
<1>10. CASE PostFrame
  <2>1. /\ UNCHANGED <<widx, ridx, consumerVars, mpc, clockVars, kpc, phase, togen, gen, blk>>
        /\ kpc = "Post" /\ toPost' = toPost - 1 /\ toPost > 0
    BY <1>10 DEF PostFrame, PostLeft
  <2>2. SpinsOnEmpty'
    BY <1>4, <2>1 DEF consumerVars
  <2>3. toPost' \in 0 .. 2 * BLOCK
    BY <1>1, <1>3, <2>1 DEF CountersOK
  <2> QED
    BY <1>1, <2>1, <2>2, <2>3
       DEF Rest, CountersOK, Core3Outside, BatchCovered, PcmNotAhead, AfterStop, clockVars
<1>11. CASE FinishFrame
  <2>1. /\ UNCHANGED <<consumerVars, mpc, clockVars, core3Vars>>
        /\ ppc # "Idle"
    BY <1>11 DEF FinishFrame, Posting, PostRight, CheckOverflow, DropOldest, Publish
  <2>2. kpc = "Post" /\ mpc \notin AfterStop
    BY <1>1, <2>1 DEF Core3Outside
  <2> QED
    BY <1>1, <2>1, <2>2
       DEF Rest, CountersOK, Core3Outside, BatchCovered, SpinsOnEmpty, PcmNotAhead, AfterStop,
           clockVars, core3Vars
<1>12. CASE EndBlock
  <2>1. /\ UNCHANGED <<ringVars, mpc, clockVars, togen, gen, blk, toPost>>
        /\ kpc = "Post" /\ ppc = "Idle" /\ kpc' = "Update"
        /\ phase' = phase + blk * PcmCyc
    BY <1>12 DEF EndBlock
  <2>2. SpinsOnEmpty'
    BY <1>4, <2>1 DEF ringVars
  <2>3. phase' \in Int
    <3>1. blk * PcmCyc \in Int
      BY <1>3, Z3
    <3> QED
      BY <1>3, <2>1, <3>1
  <2>4. phase' - lead' < PcmCyc
    <3>1. phase' < lead + PcmCyc /\ lead' = lead
      BY <1>1, <2>1 DEF BatchCovered, clockVars
    <3>2. lead \in Int /\ PcmCyc \in Int
      BY <1>3
    <3>3. phase' - lead < PcmCyc
      BY <2>3, <3>1, <3>2, Lead
    <3> QED
      BY <3>1, <3>3
  <2> QED
    BY <1>1, <2>1, <2>2, <2>3, <2>4
       DEF Rest, CountersOK, Core3Outside, BatchCovered, PcmNotAhead, AfterStop, ringVars, clockVars
<1>13. CASE EndBatch
  <2> DEFINE g == gen * SampleCyc
  <2>1. /\ UNCHANGED <<ringVars, mpc, instr, gen, blk, toPost>>
        /\ kpc = "Update" /\ kpc' = "Batch"
        /\ lead' = lead - g /\ phase' = phase - g /\ togen' = togen - gen
    BY <1>13 DEF EndBatch
  <2>2. gen <= togen /\ togen * SampleCyc <= lead
    BY <1>1, <2>1 DEF BatchCovered
  <2>3. g \in Int /\ g >= 0 /\ g <= togen * SampleCyc /\ togen * SampleCyc \in Int
        /\ (togen - gen) * SampleCyc = togen * SampleCyc - g
    BY <1>3, <2>2, Scaling, Z3
  <2> HIDE DEF g
  <2>4. togen' * SampleCyc <= lead' /\ lead' \in 0 .. MaxLead
    <3>1. lead' \in 0 .. MaxLead
      BY <1>3, <2>1, <2>2, <2>3
    <3>2. togen * SampleCyc - g <= lead - g
      BY <1>3, <2>2, <2>3
    <3> QED
      BY <2>1, <2>3, <3>1, <3>2
  <2>5. togen' \in 0 .. MaxLead
    BY <1>1, <1>3, <2>1, <2>2 DEF CountersOK
  <2>6. phase' \in Int /\ PcmNotAhead'
    <3>1. phase - lead < PcmCyc
      BY <1>1 DEF PcmNotAhead
    <3> QED
      BY <1>3, <2>1, <2>3, <3>1 DEF PcmNotAhead
  <2>7. SpinsOnEmpty'
    BY <1>4, <2>1 DEF ringVars
  <2> QED
    BY <1>1, <1>3, <2>1, <2>4, <2>5, <2>6, <2>7
       DEF Rest, CountersOK, Core3Outside, BatchCovered, AfterStop, ringVars
<1> QED
  BY <1>5, <1>6, <1>7, <1>8, <1>9, <1>10, <1>11, <1>12, <1>13 DEF Core3

LEMMA Core0Step ==
  ASSUME PipeInv, Pause \/ Core0Switching PROVE Rest'
<1>1. /\ CountersOK /\ Core3Outside /\ BatchCovered /\ SpinsOnEmpty /\ PcmNotAhead
      /\ 0 < PcmCyc /\ PcmCyc \in Nat /\ lead \in Int /\ phase \in Int
  BY Constants DEF PipeInv, PipeTypeOK, CountersOK
<1> USE DEF AfterStop, core3Vars, clockVars, ringVars, producerVars, consumerVars
<1>2. CASE Pause
  BY <1>1, <1>2
     DEF Pause, Rest, CountersOK, Core3Outside, BatchCovered, SpinsOnEmpty, PcmNotAhead
<1>3. CASE Stopped
  BY <1>1, <1>3
     DEF Stopped, Settled, Core3Settled, Rest, CountersOK, Core3Outside, BatchCovered,
         SpinsOnEmpty, PcmNotAhead
<1>4. CASE Reset
  <2>1. lead' = -1 /\ phase' = -1 /\ lead' \in -1 .. MaxLead /\ phase' - lead' < PcmCyc
    BY <1>1, <1>4, Constants DEF Reset
  <2> QED
    BY <1>1, <1>4, <2>1
       DEF Reset, Rest, CountersOK, Core3Outside, BatchCovered, SpinsOnEmpty, PcmNotAhead
<1>5. CASE ZeroWriteIdx
  BY <1>1, <1>5
     DEF ZeroWriteIdx, Settled, Core2Settled, Core3Settled, Rest, CountersOK, Core3Outside,
         BatchCovered, SpinsOnEmpty, PcmNotAhead
<1>6. CASE ZeroReadIdx
  BY <1>1, <1>6
     DEF ZeroReadIdx, Core2Settled, Rest, CountersOK, Core3Outside, BatchCovered,
         SpinsOnEmpty, PcmNotAhead
<1>7. CASE Resume
  BY <1>1, <1>7
     DEF Resume, Rest, CountersOK, Core3Outside, BatchCovered, SpinsOnEmpty, PcmNotAhead
<1> QED
  BY <1>2, <1>3, <1>4, <1>5, <1>6, <1>7 DEF Core0Switching

LEMMA PipeStep == PipeInv /\ [Next]_vars => PipeInv'
<1> SUFFICES ASSUME PipeInv, [Next]_vars PROVE PipeInv'
  OBVIOUS
<1>1. RingInv' /\ TypeOK'
  BY PipeRing DEF PipeInv, RingInv
<1>2. paused' \in BOOLEAN /\ PauseFollowsSwitch'
  <2>1. paused \in BOOLEAN /\ PauseFollowsSwitch
    BY Zenon DEF PipeInv, PipeTypeOK
  <2> QED
    BY <2>1, PauseStep
<1>3. Rest'
  <2>1. CASE UNCHANGED vars
    BY <2>1 DEF vars, ringVars, core3Vars, clockVars, producerVars, consumerVars, PipeInv,
                PipeTypeOK, Rest, CountersOK, Core3Outside, BatchCovered, SpinsOnEmpty,
                Core2Settled, PcmNotAhead
  <2> QED
    BY <1>1, <2>1, Core2Step, Core3Step, Core0Step DEF Next
<1> QED
  BY <1>1, <1>2, <1>3, Zenon DEF PipeInv, PipeTypeOK, Rest
-----------------------------------------------------------------------------
(* PipeInv is an invariant of the three cores.                             *)
THEOREM PipeInvariant == Spec => []PipeInv
BY InitialPipe, PipeStep, PTL DEF Spec

(* Every counter of the three cores stays in its range.                    *)
THEOREM PipeTypeCorrect == Spec => []PipeTypeOK
<1>1. PipeInv => PipeTypeOK
  BY Zenon DEF PipeInv
<1> QED
  BY <1>1, PipeInvariant, PTL

(* The channels stay aligned through every bank switch as well.            *)
THEOREM PipeKeepsChannels == Spec => []ChannelAligned
<1>1. PipeInv => ChannelAligned
  BY DEF PipeInv, RingInv
<1> QED
  BY <1>1, PipeInvariant, PTL

(* No copy writes past its block, through every bank switch.               *)
THEOREM PipeKeepsBlock == Spec => []BlockNotOverrun
<1>1. PipeInv => BlockNotOverrun
  BY DEF PipeInv, RingInv
<1> QED
  BY <1>1, PipeInvariant, PTL

(* A bank switch ends with an empty ring.                                  *)
THEOREM SwitchEmptiesRing == Spec => []ResumesEmpty
<1>1. PipeInv => ResumesEmpty
  BY DEF PipeInv, SpinsOnEmpty, ResumesEmpty
<1> QED
  BY <1>1, PipeInvariant, PTL

(* The PCM clock never leads the MCU clock by a whole sample.              *)
THEOREM PcmKeepsPace == Spec => []PcmNotAhead
<1>1. PipeInv => PcmNotAhead
  BY DEF PipeInv
<1> QED
  BY <1>1, PipeInvariant, PTL

(* Cores 2 and 3 leave the emulator alone while it is reloaded.            *)
THEOREM ReloadIsUndisturbed == Spec => ReloadUndisturbed
<1> DEFINE Quiet == mpc \in AfterStop => (buf' = buf /\ (lead' > lead => lead' = 0))
<1>1. PipeInv /\ [Next]_vars => [Quiet]_vars
  <2> SUFFICES ASSUME PipeInv, Next, mpc \in AfterStop
               PROVE  buf' = buf /\ (lead' > lead => lead' = 0)
    OBVIOUS
  <2>1. /\ Core3Outside /\ lead \in -1 .. MaxLead /\ MaxLead \in Nat /\ mpc # "Run"
    BY Constants DEF PipeInv, PipeTypeOK, CountersOK, AfterStop
  <2>2. paused /\ mpc # "Run"
    BY <2>1, Zenon DEF PipeInv, PauseFollowsSwitch
  <2>3. kpc \in {"Loop", "Resync"} /\ ppc = "Idle"
    BY <2>1 DEF Core3Outside
  <2> USE DEF ringVars, core3Vars, clockVars, producerVars, consumerVars
  <2>4. CASE Core2
    <3>1. ~McuInstruction
      BY <2>2, Zenon DEF McuInstruction
    <3>2. buf' = buf /\ lead' = lead
      BY <2>4, <3>1 DEF Core2, Core2Begin, Core2Copy, EndBurst, BeginBlock, LoadWrite, LoadRead,
                        CopySample, StoreRead, RetryFill, Output
    <3> QED
      BY <2>1, <3>2
  <2>5. CASE Core3
    <3>1. CheckPause \/ Resync
      BY <2>3, <2>5 DEF Core3, Measure, StartBatch, StartBlock, PostFrame, FinishFrame, Posting,
                        PostRight, CheckOverflow, DropOldest, Publish, EndBlock, EndBatch
    <3> QED
      BY <2>1, <3>1 DEF CheckPause, Resync
  <2>6. CASE Pause \/ Core0Switching
    <3>1. buf' = buf /\ (lead' = lead \/ lead' = -1)
      BY <2>6 DEF Pause, Core0Switching, Stopped, Reset, ZeroWriteIdx, ZeroReadIdx, Resume
    <3> QED
      BY <2>1, <3>1
  <2> QED
    BY <2>4, <2>5, <2>6 DEF Next
<1> QED
  BY <1>1, PipeInvariant, PTL DEF Spec, ReloadUndisturbed
=============================================================================
