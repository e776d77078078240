--------------------------- MODULE MachineProofs ---------------------------
(***************************************************************************)
(* Proofs about the machine and its emulator, for every value of the       *)
(* constants.  The keyboard controller keeps its distance to the keyboard  *)
(* bit by bit, and at distance 0 hands over every code whole.  The graphics*)
(* module presents the memory.  The lists of the debugger end, and it stops*)
(* for a reason.  The arithmetic of the processor is exact, but for the    *)
(* carries its code is known to miss.                                      *)
(***************************************************************************)
EXTENDS Kbc, Vga, Debugger, Cpu, TLAPS, FiniteSetTheorems, WellFoundedInduction

(* Numbers. *)

\* A set of numbers has a lowest.
LEMMA Lowest ==
  ASSUME NEW S \in SUBSET Nat, S # {}
  PROVE  \E n \in S : \A m \in S : n <= m
<1>1. PICK n \in S : \A m \in S : ~(<<m, n>> \in OpToRel(<, Nat))
  BY WFMin, NatLessThanWellFounded
<1>2. OpToRel(<, Nat) = {ss \in Nat \X Nat : ss[1] < ss[2]}
  BY Zenon DEF OpToRel
<1>3. \A m \in S : ~(m < n)
  <2> SUFFICES ASSUME NEW m \in S, m < n PROVE FALSE
    OBVIOUS
  <2>1. <<m, n>> \in {ss \in Nat \X Nat : ss[1] < ss[2]}
    OBVIOUS
  <2>2. QED
    BY <1>1, <1>2, <2>1, Zenon
<1>4. QED
  BY <1>3

\* What holds of 0, and of i + 1 when it holds of i, holds up to k; the numbers
\* of which it holds are given as a set.
LEMMA UpTo ==
  ASSUME NEW k \in Nat, NEW S, 0 \in S, \A i \in 0 .. k - 1 : i \in S => i + 1 \in S
  PROVE  \A i \in 0 .. k : i \in S
<1> DEFINE Out == {i \in 0 .. k : i \notin S}
<1>1. SUFFICES ASSUME Out # {} PROVE FALSE
  OBVIOUS
<1>2. PICK n \in Out : \A m \in Out : n <= m
  <2>1. Out \in SUBSET Nat
    OBVIOUS
  <2>2. QED
    BY <1>1, <2>1, Lowest
<1>3. n \in 0 .. k /\ n # 0 /\ n \notin S
  BY <1>2
<1>4. n - 1 \in 0 .. k - 1 /\ n - 1 \in 0 .. k /\ n - 1 + 1 = n /\ ~(n <= n - 1)
  BY <1>3
<1>5. n - 1 \in S
  BY <1>2, <1>4
<1>6. QED
  BY <1>3, <1>4, <1>5

----------------------------------------------------------------------------
(* The keyboard controller. *)

\* What an edge or an access may change.
WireType == [code : 0 .. 255, bit : 0 .. 11, clock : {0, 1}]
ControllerType ==
  [buffer : 0 .. 255, gBitIndex : 0 .. 10, gFallingEdge : BOOLEAN, int0 : BOOLEAN,
   outputRegister : [0 .. 3 -> Int], tccr0b : Int, ocr0a : Int, pullups : BOOLEAN]
BusType == [wait : {"no", "read", "write"}, address : 0 .. 3, data : Int]
SeenType == [bits : Seq({0, 1}), start : 0 .. 10, last : 0 .. 255]

KbcTyped == wire \in WireType /\ kbc \in ControllerType /\ bus \in BusType /\ seen \in SeenType

\* A rising edge waits for its routine; the last one of a frame.
Late == kbc.int0 /\ ~kbc.gFallingEdge
Whole == Late /\ kbc.gBitIndex = 10

Edges ==
  /\ kbc.gFallingEdge <=> (wire.clock = 1 <=> ~kbc.int0)
  /\ wire.clock = 0 => wire.bit < 11

Counts ==
  /\ (kbc.gBitIndex + seen.start + (IF Late THEN 1 ELSE 0)) % 11 = wire.bit % 11
  /\ Len(seen.bits) = kbc.gBitIndex + (IF kbc.gFallingEdge THEN 0 ELSE 1)

\* The buffer holds the data bits seen, from the top.
Buffered ==
  \A k \in 0 .. 7 : BitOf(kbc.buffer, k) = IF k + DataSeen >= 8 THEN seen.bits[k + DataSeen - 6] ELSE 0

\* Between two frames the keyboard may already have its next code.
FramesKept ==
  seen.start = 0 =>
    /\ \A j \in 1 .. Len(seen.bits) : seen.bits[j] = Level(IF Whole THEN seen.last ELSE wire.code, j - 1)
    /\ ~Whole => kbc.outputRegister[0] = seen.last

KbcIInv == KbcTyped /\ Edges /\ Counts /\ Buffered /\ FramesKept

(* Bits. *)

\* The table, entry by entry.
LEMMA Powers ==
  /\ Power[0] = 1 /\ Power[1] = 2 /\ Power[2] = 4 /\ Power[3] = 8
  /\ Power[4] = 16 /\ Power[5] = 32 /\ Power[6] = 64 /\ Power[7] = 128
BY DEF Power

\* A bit is 0 or 1.
LEMMA BitIs ==
  ASSUME NEW b \in Int, NEW k \in 0 .. 7
  PROVE  BitOf(b, k) \in {0, 1}
<1>1. PICK p \in {1, 2, 4, 8, 16, 32, 64, 128} : p = Power[k]
  BY Powers
<1>2. BitOf(b, k) = (b \div p) % 2
  BY <1>1 DEF BitOf
<1>3. (b \div p) % 2 \in {0, 1}
  OBVIOUS
<1>4. QED
  BY <1>2, <1>3

\* A byte is what its bits make.
LEMMA Binary ==
  ASSUME NEW b \in 0 .. 255
  PROVE  b = (b % 2) + 2 * ((b \div 2) % 2) + 4 * ((b \div 4) % 2) + 8 * ((b \div 8) % 2)
             + 16 * ((b \div 16) % 2) + 32 * ((b \div 32) % 2) + 64 * ((b \div 64) % 2) + 128 * ((b \div 128) % 2)
OBVIOUS

\* Two bytes whose bits agree are one.
LEMMA SameBits ==
  ASSUME NEW a \in 0 .. 255, NEW b \in 0 .. 255, \A k \in 0 .. 7 : BitOf(a, k) = BitOf(b, k)
  PROVE  a = b
<1>1. /\ BitOf(a, 0) = BitOf(b, 0) /\ BitOf(a, 1) = BitOf(b, 1) /\ BitOf(a, 2) = BitOf(b, 2)
      /\ BitOf(a, 3) = BitOf(b, 3) /\ BitOf(a, 4) = BitOf(b, 4) /\ BitOf(a, 5) = BitOf(b, 5)
      /\ BitOf(a, 6) = BitOf(b, 6) /\ BitOf(a, 7) = BitOf(b, 7)
  OBVIOUS
<1>2. /\ a % 2 = b % 2 /\ (a \div 2) % 2 = (b \div 2) % 2 /\ (a \div 4) % 2 = (b \div 4) % 2
      /\ (a \div 8) % 2 = (b \div 8) % 2 /\ (a \div 16) % 2 = (b \div 16) % 2
      /\ (a \div 32) % 2 = (b \div 32) % 2 /\ (a \div 64) % 2 = (b \div 64) % 2
      /\ (a \div 128) % 2 = (b \div 128) % 2
  BY <1>1, Powers DEF BitOf
<1>3. QED
  BY <1>2, Binary

\* 0 has no bit.
LEMMA ZeroBits == \A k \in 0 .. 7 : BitOf(0, k) = 0
<1> TAKE k \in 0 .. 7
<1>1. PICK p \in {1, 2, 4, 8, 16, 32, 64, 128} : p = Power[k]
  BY Powers
<1>2. BitOf(0, k) = (0 \div p) % 2
  BY <1>1 DEF BitOf
<1>3. QED
  BY <1>2

\* n is b shifted right by one place, with x shifted in.
ShiftedIn(n, b, x) ==
  /\ n \in 0 .. 255
  /\ \A k \in 0 .. 7 : BitOf(n, k) = IF k = 7 THEN x ELSE BitOf(b, k + 1)

\* A bit is shifted in from the top.
LEMMA ShiftedBits ==
  ASSUME NEW b \in 0 .. 255, NEW x \in {0, 1}, NEW n, n = b \div 2 + 128 * x
  PROVE  ShiftedIn(n, b, x)
<1>1. n \in 0 .. 255
  OBVIOUS
<1>2. /\ n % 2 = (b \div 2) % 2 /\ (n \div 2) % 2 = (b \div 4) % 2 /\ (n \div 4) % 2 = (b \div 8) % 2
      /\ (n \div 8) % 2 = (b \div 16) % 2
  OBVIOUS
<1>3. /\ (n \div 16) % 2 = (b \div 32) % 2 /\ (n \div 32) % 2 = (b \div 64) % 2
      /\ (n \div 64) % 2 = (b \div 128) % 2 /\ (n \div 128) % 2 = x
  OBVIOUS
<1>4. /\ BitOf(n, 0) = BitOf(b, 1) /\ BitOf(n, 1) = BitOf(b, 2) /\ BitOf(n, 2) = BitOf(b, 3)
      /\ BitOf(n, 3) = BitOf(b, 4) /\ BitOf(n, 4) = BitOf(b, 5) /\ BitOf(n, 5) = BitOf(b, 6)
      /\ BitOf(n, 6) = BitOf(b, 7) /\ BitOf(n, 7) = x
  BY <1>2, <1>3, Powers DEF BitOf
<1>5. \A k \in 0 .. 7 : BitOf(n, k) = IF k = 7 THEN x ELSE BitOf(b, k + 1)
  BY <1>4
<1>6. QED
  BY <1>1, <1>5 DEF ShiftedIn

\* The line is low or high at every bit, and the bits of the code follow the start bit.
LEMMA LevelIs ==
  ASSUME NEW code \in 0 .. 255, NEW k \in 0 .. 10
  PROVE  Level(code, k) \in {0, 1} /\ (k \in 1 .. 8 => Level(code, k) = BitOf(code, k - 1))
<1>1. \A j \in 0 .. 7 : BitOf(code, j) \in {0, 1}
  BY BitIs
<1>2. Parity(code) \in {0, 1}
  BY <1>1 DEF Parity
<1>3. QED
  BY <1>1, <1>2 DEF Level

(* Steps. *)

\* Counts that agree modulo 11 still do when both go on.
LEMMA OneMore ==
  ASSUME NEW x \in 0 .. 10, NEW s \in 0 .. 10, NEW y \in 0 .. 11, (x + s + 0) % 11 = y % 11
  PROVE  (x + s + 1) % 11 = (y + 1) % 11
OBVIOUS

\* The line carries a bit.
LEMMA PinIs ==
  ASSUME KbcTyped
  PROVE  DataPin \in {0, 1} /\ (wire.bit < 11 => DataPin = Level(wire.code, wire.bit))
<1>1. wire.code \in 0 .. 255 /\ wire.bit \in 0 .. 11
  BY DEF KbcTyped, WireType
<1>2. wire.bit < 11 => wire.bit \in 0 .. 10
  BY <1>1
<1>3. wire.bit < 11 => Level(wire.code, wire.bit) \in {0, 1}
  BY <1>1, <1>2, LevelIs
<1>4. QED
  BY <1>1, <1>3 DEF DataPin

\* The bus, and what the Z80 writes, leave the frames alone.
LEMMA BusStep ==
  ASSUME BytesAre, KbcIInv, Access \/ ServeRead \/ ServeWrite
  PROVE  KbcIInv'
<1>1. KbcTyped /\ wire' = wire /\ seen' = seen
  BY DEF KbcIInv, Access, ServeRead, ServeWrite
<1>a. kbc \in ControllerType /\ bus \in BusType
  BY <1>1 DEF KbcTyped
<1>2. bus' \in BusType
  <2>1. CASE Access
    BY <2>1 DEF Access, BytesAre, BusType
  <2>2. CASE ServeRead
    BY <1>a, <2>2 DEF ServeRead, BusType, ControllerType
  <2>3. CASE ServeWrite
    BY <2>3 DEF ServeWrite, BusType
  <2>4. QED
    BY <2>1, <2>2, <2>3
<1> DEFINE Same(k) == /\ k \in ControllerType
                      /\ k.buffer = kbc.buffer /\ k.gBitIndex = kbc.gBitIndex
                      /\ k.gFallingEdge = kbc.gFallingEdge /\ k.int0 = kbc.int0
                      /\ k.outputRegister[0] = kbc.outputRegister[0]
<1>3. Same(kbc')
  <2>0. PICK k : k = Released(kbc)
    OBVIOUS
  <2>1. k \in ControllerType
    BY <1>a, <2>0, ZenonT(60) DEF Released, ControllerType
  <2>2. Same(k)
    BY <1>a, <2>0, <2>1 DEF Released, ControllerType
  <2>3. \A n \in Int : Same([k EXCEPT !.tccr0b = n]) /\ Same([k EXCEPT !.ocr0a = n])
    BY <2>1, <2>2 DEF ControllerType
  <2>4. \A n \in Int : Same([k EXCEPT !.outputRegister[1] = n])
    <3> TAKE n \in Int
    <3>1. PICK r : r = [k EXCEPT !.outputRegister[1] = n]
      OBVIOUS
    <3>2. k.outputRegister \in [0 .. 3 -> Int]
      BY <2>1 DEF ControllerType
    <3>3. PICK o : o = [k.outputRegister EXCEPT ![1] = n]
      OBVIOUS
    <3>a. o \in [0 .. 3 -> Int]
      BY <3>2, <3>3
    <3>b. 0 \in 0 .. 3 /\ 0 # 1
      OBVIOUS
    <3>c. o[0] = k.outputRegister[0]
      BY <3>2, <3>3, <3>b
    <3>4. r = [k EXCEPT !.outputRegister = o]
      BY <2>1, <3>1, <3>3 DEF ControllerType
    <3>5. r \in ControllerType
      BY <2>1, <3>a, <3>4 DEF ControllerType
    <3>d. /\ r.buffer = k.buffer /\ r.gBitIndex = k.gBitIndex /\ r.gFallingEdge = k.gFallingEdge
          /\ r.int0 = k.int0 /\ r.outputRegister = o
      BY <2>1, <3>4 DEF ControllerType
    <3>6. Same(r)
      BY <2>2, <3>c, <3>d, <3>5
    <3>7. QED
      BY <3>1, <3>6
  <2>5. CASE Access
    BY <1>a, <2>5 DEF Access
  <2>6. CASE ServeRead
    BY <2>0, <2>2, <2>6 DEF ServeRead
  <2>7. CASE ServeWrite
    <3>1. bus.address \in 0 .. 3 /\ bus.data \in Int /\ bus.data % 8 \in Int
      BY <1>a DEF BusType
    <3>2. kbc' \in {k, [k EXCEPT !.outputRegister[1] = bus.data], [k EXCEPT !.tccr0b = bus.data % 8],
                    [k EXCEPT !.ocr0a = bus.data]}
      BY <2>0, <2>7, <3>1 DEF ServeWrite
    <3> HIDE DEF Same
    <3>3. QED
      BY <2>2, <2>3, <2>4, <3>1, <3>2
  <2>8. QED
    BY <2>5, <2>6, <2>7
<1>4. KbcTyped'
  BY <1>1, <1>2, <1>3 DEF KbcTyped
<1>5. Late' = Late /\ Whole' = Whole
  BY <1>3 DEF Late, Whole
<1>6. Edges'
  BY <1>1, <1>3 DEF KbcIInv, Edges
<1>7. Counts'
  BY <1>1, <1>3, <1>5 DEF KbcIInv, Counts
<1>8. Buffered'
  <2>1. DataSeen' = DataSeen /\ Buffered
    BY <1>1 DEF DataSeen, KbcIInv
  <2>2. QED
    BY <1>1, <1>3, <2>1 DEF Buffered
<1>9. FramesKept'
  BY <1>1, <1>3, <1>5 DEF KbcIInv, FramesKept
<1>10. QED
  BY <1>4, <1>6, <1>7, <1>8, <1>9 DEF KbcIInv

\* A new code may come while the last one still waits in the buffer: no bit of
\* the new one has been clocked in.
LEMMA KeyStep ==
  ASSUME BytesAre, KbcIInv, KeyPressed
  PROVE  KbcIInv'
<1>1. PICK code \in 0 .. 255 : wire' = [wire EXCEPT !.code = code, !.bit = 0]
  BY ZenonT(60) DEF KeyPressed, BytesAre
<1>2. KbcTyped /\ wire.bit = 11 /\ kbc' = kbc /\ bus' = bus /\ seen' = seen /\ Edges /\ Counts /\ Buffered
      /\ FramesKept
  BY DEF KbcIInv, KeyPressed
<1>3. wire' \in WireType /\ wire'.bit = 0 /\ wire'.clock = wire.clock
  <2>1. wire \in WireType /\ code \in 0 .. 255 /\ 0 \in 0 .. 11
    BY <1>1, <1>2 DEF KbcTyped
  <2>2. PICK w : w = [wire EXCEPT !.code = code]
    OBVIOUS
  <2>3. w \in WireType
    BY <2>1, <2>2 DEF WireType
  <2>4. wire' = [w EXCEPT !.bit = 0] /\ w.clock = wire.clock
    BY <1>1, <2>1, <2>2 DEF WireType
  <2>5. wire' \in WireType
    BY <2>1, <2>3, <2>4 DEF WireType
  <2>6. QED
    BY <2>3, <2>4, <2>5 DEF WireType
<1>4. KbcTyped' /\ Late' = Late /\ Whole' = Whole
  BY <1>2, <1>3 DEF KbcTyped, Late, Whole
<1>5. Edges'
  BY <1>2, <1>3 DEF Edges
<1>6. Counts'
  BY <1>2, <1>3, <1>4 DEF Counts
<1>7. Buffered'
  <2>1. DataSeen' = DataSeen
    BY <1>2 DEF DataSeen
  <2>2. QED
    BY <1>2, <2>1 DEF Buffered
<1>8. FramesKept'
  <2>1. wire.clock = 1 /\ (kbc.gFallingEdge <=> ~kbc.int0)
    BY <1>2 DEF Edges, KbcTyped, ControllerType, WireType
  <2>2. ASSUME seen.start = 0, ~Whole
        PROVE  Len(seen.bits) = 0
    <3>1. /\ kbc.gBitIndex \in 0 .. 10 /\ kbc.int0 \in BOOLEAN
      BY <1>2 DEF KbcTyped, ControllerType
    <3>2. ~Late
      BY <1>2, <2>2, <3>1 DEF Counts, Whole
    <3>3. kbc.gBitIndex % 11 = 0
      <4>1. (kbc.gBitIndex + 0 + 0) % 11 = 11 % 11
        BY <1>2, <2>2, <3>2 DEF Counts
      <4>2. QED
        BY <3>1, <4>1
    <3>4. QED
      BY <1>2, <2>1, <3>1, <3>2, <3>3 DEF Counts, Late
  <2>3. CASE Whole
    BY <1>2, <1>4, <2>3 DEF FramesKept
  <2>4. CASE ~Whole
    BY <1>2, <1>4, <2>2, <2>4 DEF FramesKept
  <2>5. QED
    BY <2>3, <2>4
<1>9. QED
  BY <1>4, <1>5, <1>6, <1>7, <1>8 DEF KbcIInv

\* The clock falls: the routine has only to run.
LEMMA FallStep ==
  ASSUME KbcIInv, ClockFalls
  PROVE  KbcIInv'
<1>1. /\ wire.bit < 11 /\ wire.clock = 1 /\ ~kbc.int0 /\ wire' = [wire EXCEPT !.clock = 0]
      /\ kbc' = [kbc EXCEPT !.int0 = kbc.gFallingEdge] /\ bus' = bus /\ seen' = seen
      /\ KbcTyped /\ Edges /\ Counts /\ Buffered /\ FramesKept
  BY DEF KbcIInv, ClockFalls
<1>2. /\ wire' \in WireType
      /\ wire'.code = wire.code /\ wire'.bit = wire.bit /\ wire'.clock = 0
  <2>1. wire \in WireType
    BY <1>1 DEF KbcTyped
  <2>2. wire' \in WireType
    BY <1>1, <2>1 DEF WireType
  <2>3. QED
    BY <1>1, <2>1, <2>2 DEF WireType
<1>3. kbc.gFallingEdge = TRUE
  BY <1>1 DEF Edges, KbcTyped, ControllerType, WireType
<1>4. kbc' = [kbc EXCEPT !.int0 = TRUE]
  BY <1>1, <1>3
<1>5. /\ kbc' \in ControllerType
      /\ kbc'.buffer = kbc.buffer /\ kbc'.gBitIndex = kbc.gBitIndex /\ kbc'.gFallingEdge = TRUE
      /\ kbc'.int0 = TRUE /\ kbc'.outputRegister = kbc.outputRegister
  <2>1. kbc \in ControllerType
    BY <1>1 DEF KbcTyped
  <2>2. kbc' \in ControllerType
    BY <1>4, <2>1, ZenonT(60) DEF ControllerType
  <2>3. QED
    BY <1>3, <1>4, <2>1, <2>2 DEF ControllerType
<1>6. KbcTyped' /\ ~Late /\ ~Whole /\ ~(Late') /\ ~(Whole')
  BY <1>1, <1>2, <1>5 DEF KbcTyped, Late, Whole
<1>7. Edges' /\ Counts' /\ Buffered' /\ FramesKept'
  BY <1>1, <1>2, <1>3, <1>5, <1>6 DEF Edges, Counts, Buffered, FramesKept, DataSeen
<1>8. QED
  BY <1>6, <1>7 DEF KbcIInv

\* The clock rises: with the eleventh bit the frame is whole, the routine is late.
LEMMA RiseStep ==
  ASSUME KbcIInv, ClockRises
  PROVE  KbcIInv'
<1>1. /\ wire.clock = 0 /\ ~kbc.int0 /\ wire' = [wire EXCEPT !.clock = 1, !.bit = @ + 1]
      /\ kbc' = [kbc EXCEPT !.int0 = ~kbc.gFallingEdge] /\ bus' = bus
      /\ seen' = [seen EXCEPT !.last = IF wire.bit = 10 THEN wire.code ELSE @]
      /\ KbcTyped /\ Edges /\ Counts /\ Buffered /\ FramesKept
  BY DEF KbcIInv, ClockRises
<1>2. kbc.gFallingEdge = FALSE /\ wire.bit \in 0 .. 10 /\ wire.code \in 0 .. 255 /\ kbc.gBitIndex \in 0 .. 10
  BY <1>1 DEF Edges, KbcTyped, ControllerType, WireType
<1>3. /\ wire' \in WireType
      /\ wire'.code = wire.code /\ wire'.bit = wire.bit + 1 /\ wire'.clock = 1
  <2>1. wire \in WireType /\ wire.bit + 1 \in 0 .. 11
    BY <1>1, <1>2 DEF KbcTyped
  <2>2. wire' \in WireType
    BY <1>1, <2>1, ZenonT(60) DEF WireType
  <2>3. QED
    BY <1>1, <2>1, <2>2 DEF WireType
<1>4. kbc' = [kbc EXCEPT !.int0 = TRUE]
  BY <1>1, <1>2
<1>5. /\ kbc' \in ControllerType
      /\ kbc'.buffer = kbc.buffer /\ kbc'.gBitIndex = kbc.gBitIndex /\ kbc'.gFallingEdge = FALSE
      /\ kbc'.int0 = TRUE /\ kbc'.outputRegister = kbc.outputRegister
  <2>1. kbc \in ControllerType
    BY <1>1 DEF KbcTyped
  <2>2. kbc' \in ControllerType
    BY <1>4, <2>1, ZenonT(60) DEF ControllerType
  <2>3. QED
    BY <1>2, <1>4, <2>1, <2>2 DEF ControllerType
<1>6. /\ seen' \in SeenType
      /\ seen'.bits = seen.bits /\ seen'.start = seen.start
      /\ seen'.last = IF wire.bit = 10 THEN wire.code ELSE seen.last
  <2>1. PICK code \in 0 .. 255 : code = IF wire.bit = 10 THEN wire.code ELSE seen.last
    BY <1>1, <1>2, ZenonT(60) DEF KbcTyped, SeenType
  <2>2. seen \in SeenType /\ seen' = [seen EXCEPT !.last = code]
    BY <1>1, <2>1 DEF KbcTyped
  <2>3. seen' \in SeenType
    BY <2>2 DEF SeenType
  <2>4. QED
    BY <2>1, <2>2, <2>3 DEF SeenType
<1>7. KbcTyped' /\ ~Late /\ ~Whole /\ Late' /\ (Whole' <=> kbc.gBitIndex = 10)
  BY <1>1, <1>3, <1>5, <1>6 DEF KbcTyped, Late, Whole
<1>8. Edges' /\ Buffered'
  BY <1>1, <1>3, <1>5, <1>6 DEF Edges, Buffered, DataSeen
<1>9. Counts'
  <2>1. seen.start \in 0 .. 10 /\ Len(seen.bits) = kbc.gBitIndex + 1
        /\ (kbc.gBitIndex + seen.start + 0) % 11 = wire.bit % 11
    BY <1>1, <1>2, <1>7 DEF Counts, KbcTyped, SeenType
  <2>2. (kbc.gBitIndex + seen.start + 1) % 11 = (wire.bit + 1) % 11
    <3>1. wire.bit \in 0 .. 11
      BY <1>2
    <3>2. QED
      BY <1>2, <2>1, <3>1, OneMore
  <2>3. QED
    BY <1>3, <1>5, <1>6, <1>7, <2>1, <2>2 DEF Counts
<1>10. FramesKept'
  <2>1. SUFFICES ASSUME seen.start = 0
                 PROVE  FramesKept'
    BY <1>6 DEF FramesKept
  <2>2. kbc.gBitIndex = wire.bit
    BY <1>1, <1>2, <1>7, <2>1 DEF Counts
  <2>3. Whole' <=> wire.bit = 10
    BY <1>7, <2>2
  <2>4. \A j \in 1 .. Len(seen.bits) : seen.bits[j] = Level(wire.code, j - 1)
    BY <1>1, <1>7, <2>1 DEF FramesKept
  <2>5. kbc.outputRegister[0] = seen.last
    BY <1>1, <1>7, <2>1 DEF FramesKept
  <2>6. QED
    BY <1>3, <1>5, <1>6, <2>3, <2>4, <2>5 DEF FramesKept
<1>11. QED
  BY <1>7, <1>8, <1>9, <1>10 DEF KbcIInv

\* The bit the falling edge finds on the line goes to the buffer if it is data.
LEMMA FallingStep ==
  ASSUME KbcIInv, Falling
  PROVE  KbcIInv'
<1>n. PICK n \in 0 .. 10 : n = kbc.gBitIndex
  BY DEF KbcIInv, KbcTyped, ControllerType
<1>x. PICK x \in {0, 1} : x = DataPin
  BY PinIs DEF KbcIInv
<1>1. /\ kbc.int0 /\ kbc.gFallingEdge /\ wire' = wire /\ bus' = bus
      /\ seen' = [seen EXCEPT !.bits = Append(seen.bits, x)]
      /\ KbcTyped /\ Edges /\ Counts /\ Buffered /\ FramesKept
  BY <1>x DEF KbcIInv, Falling
<1>2. /\ wire.clock = 0 /\ wire.bit \in 0 .. 10 /\ wire.code \in 0 .. 255
      /\ kbc \in ControllerType /\ seen \in SeenType /\ kbc.buffer \in 0 .. 255
      /\ seen.bits \in Seq({0, 1}) /\ seen.start \in 0 .. 10
  BY <1>1 DEF Edges, KbcTyped, ControllerType, WireType, SeenType
<1>3. ~Late /\ ~Whole
  BY <1>1 DEF Late, Whole
<1>4. Len(seen.bits) = n /\ (n + seen.start + 0) % 11 = wire.bit % 11
  BY <1>n, <1>1, <1>3 DEF Counts
<1>5. x = Level(wire.code, wire.bit)
  BY <1>x, <1>1, <1>2, PinIs
<1>6. PICK b : b = IF n \in 1 .. 8 THEN kbc.buffer \div 2 + 128 * x ELSE kbc.buffer
  OBVIOUS
<1>7. b \in 0 .. 255
      /\ (n \in 1 .. 8 => \A k \in 0 .. 7 : BitOf(b, k) = IF k = 7 THEN x ELSE BitOf(kbc.buffer, k + 1))
  <2>1. PICK c \in 0 .. 255 : c = kbc.buffer
    BY <1>2
  <2>2. CASE n \in 1 .. 8
    <3>1. b = c \div 2 + 128 * x
      BY <1>6, <2>1, <2>2
    <3>2. /\ b \in 0 .. 255
          /\ \A k \in 0 .. 7 : BitOf(b, k) = IF k = 7 THEN x ELSE BitOf(c, k + 1)
      <4>1. ShiftedIn(b, c, x)
        BY <3>1, ShiftedBits
      <4>2. QED
        BY <4>1, Zenon DEF ShiftedIn
    <3>3. QED
      BY <2>1, <3>2, Zenon
  <2>3. CASE n \notin 1 .. 8
    <3>1. b = c
      BY <1>6, <2>1, <2>3
    <3>2. QED
      BY <2>3, <3>1
  <2>4. QED
    BY <2>2, <2>3
<1>8. kbc' = [kbc EXCEPT !.int0 = FALSE, !.gFallingEdge = FALSE, !.buffer = b]
  BY <1>n, <1>x, <1>6 DEF Falling, Shifted
<1>9. /\ kbc' \in ControllerType
      /\ kbc'.buffer = b /\ kbc'.gBitIndex = n /\ kbc'.gFallingEdge = FALSE /\ kbc'.int0 = FALSE
      /\ kbc'.outputRegister = kbc.outputRegister
  <2>1. kbc' \in ControllerType
    <3>1. kbc \in ControllerType /\ b \in 0 .. 255
      BY <1>2, <1>7
    <3>2. QED
      BY <1>8, <3>1, ZenonT(60) DEF ControllerType
  <2>2. QED
    BY <1>n, <1>2, <1>8, <2>1 DEF ControllerType
<1>10. PICK s \in Seq({0, 1}) : /\ s = Append(seen.bits, x)
                                /\ Len(s) = n + 1 /\ s[n + 1] = x
                                /\ \A j \in 1 .. n : s[j] = seen.bits[j]
  <2>1. PICK q \in Seq({0, 1}) : q = seen.bits /\ Len(q) = n
    BY <1>2, <1>4
  <2>2. PICK s : s = Append(q, x)
    OBVIOUS
  <2>3. s \in Seq({0, 1}) /\ Len(s) = n + 1 /\ s[n + 1] = x
    BY <2>1, <2>2
  <2>4. \A j \in 1 .. n : s[j] = q[j]
    BY <2>1, <2>2
  <2>5. QED
    BY <2>1, <2>2, <2>3, <2>4
<1>11. seen' \in SeenType /\ seen'.bits = s /\ seen'.start = seen.start /\ seen'.last = seen.last
  <2>1. seen' = [seen EXCEPT !.bits = s]
    BY <1>1, <1>10
  <2>2. seen' \in SeenType
    <3>1. seen \in SeenType /\ s \in Seq({0, 1})
      BY <1>2
    <3>2. QED
      BY <2>1, <3>1, ZenonT(60) DEF SeenType
  <2>3. QED
    BY <1>2, <2>1, <2>2 DEF SeenType
<1>12. KbcTyped' /\ ~(Late') /\ ~(Whole')
  BY <1>1, <1>9, <1>11 DEF KbcTyped, Late, Whole
<1>13. Edges'
  BY <1>1, <1>2, <1>9 DEF Edges
<1>14. Counts'
  <2>1. (kbc'.gBitIndex + seen'.start + 0) % 11 = wire'.bit % 11
    BY <1>1, <1>4, <1>9, <1>11
  <2>2. Len(seen'.bits) = kbc'.gBitIndex + 1
    BY <1>9, <1>10, <1>11
  <2>3. QED
    BY <1>9, <1>12, <2>1, <2>2 DEF Counts
<1>15. Buffered'
  <2>1. DataSeen = (IF n < 9 THEN n - 1 ELSE 8) /\ DataSeen' = (IF n + 1 < 9 THEN n ELSE 8)
    BY <1>2, <1>4, <1>10, <1>11 DEF DataSeen
  <2>2. SUFFICES ASSUME NEW k \in 0 .. 7
                 PROVE  BitOf(b, k) = IF k + DataSeen' >= 8 THEN s[k + DataSeen' - 6] ELSE 0
    BY <1>7, <1>9, <1>11 DEF Buffered
  <2>3. \A j \in 0 .. 7 : BitOf(kbc.buffer, j) = IF j + DataSeen >= 8 THEN seen.bits[j + DataSeen - 6] ELSE 0
    BY <1>1 DEF Buffered
  <2>4. CASE n = 0
    BY <1>6, <2>1, <2>3, <2>4
  <2>5. CASE n \in 1 .. 8 /\ k = 7
    <3>1. DataSeen' = n
      BY <2>1, <2>5
    <3>2. 7 + n - 6 = n + 1 /\ 7 + n >= 8
      BY <2>5
    <3>3. QED
      BY <1>7, <1>10, <2>5, <3>1, <3>2
  <2>6. CASE n \in 1 .. 8 /\ k < 7
    <3>1. DataSeen' = n /\ DataSeen = n - 1
      BY <2>1, <2>6
    <3>2. k + 1 \in 0 .. 7 /\ (k + 1) + (n - 1) = k + n /\ (k + 1) + (n - 1) - 6 = k + n - 6
      BY <2>6
    <3>3. BitOf(b, k) = BitOf(kbc.buffer, k + 1)
      BY <1>7, <2>6
    <3>4. BitOf(b, k) = IF k + n >= 8 THEN seen.bits[k + n - 6] ELSE 0
      BY <2>3, <3>1, <3>2, <3>3
    <3>5. k + n >= 8 => k + n - 6 \in 1 .. n
      BY <2>6
    <3>6. QED
      BY <1>10, <3>1, <3>4, <3>5
  <2>7. CASE n \in 9 .. 10
    <3>1. DataSeen' = 8 /\ DataSeen = 8 /\ b = kbc.buffer
      BY <1>6, <2>1, <2>7
    <3>2. k + 8 >= 8 /\ k + 8 - 6 \in 1 .. n
      BY <2>7
    <3>3. QED
      BY <1>10, <2>3, <3>1, <3>2
  <2>8. QED
    BY <1>2, <2>4, <2>5, <2>6, <2>7
<1>16. FramesKept'
  <2>1. SUFFICES ASSUME seen.start = 0
                 PROVE  FramesKept'
    BY <1>11 DEF FramesKept
  <2>2. n = wire.bit
    <3>1. (n + 0 + 0) % 11 = wire.bit % 11
      BY <1>4, <2>1
    <3>2. QED
      BY <1>2, <3>1
  <2>3. /\ \A j \in 1 .. n : seen.bits[j] = Level(wire.code, j - 1)
        /\ kbc.outputRegister[0] = seen.last
    BY <1>1, <1>3, <1>4, <2>1 DEF FramesKept
  <2>4. \A j \in 1 .. n + 1 : s[j] = Level(wire.code, j - 1)
    <3>1. s[n + 1] = Level(wire.code, n + 1 - 1)
      BY <1>2, <1>5, <1>10, <2>2
    <3>2. \A j \in 1 .. n : s[j] = Level(wire.code, j - 1)
      BY <1>10, <2>3
    <3>3. \A j \in 1 .. n + 1 : j = n + 1 \/ j \in 1 .. n
      BY <1>2
    <3>4. QED
      BY <3>1, <3>2, <3>3
  <2>5. QED
    BY <1>1, <1>9, <1>10, <1>11, <1>12, <2>3, <2>4 DEF FramesKept
<1>17. QED
  BY <1>12, <1>13, <1>14, <1>15, <1>16 DEF KbcIInv

\* Eight bits that agree with a code are the code.
LEMMA WholeCode ==
  ASSUME KbcIInv, Whole, seen.start = 0
  PROVE  kbc.buffer = seen.last
<1>1. /\ kbc.buffer \in 0 .. 255 /\ seen.last \in 0 .. 255 /\ seen.bits \in Seq({0, 1})
      /\ Counts /\ Buffered /\ FramesKept /\ kbc.gBitIndex = 10 /\ ~kbc.gFallingEdge
  BY DEF KbcIInv, KbcTyped, ControllerType, SeenType, Whole, Late
<1>2. Len(seen.bits) = 11
  BY <1>1 DEF Counts
<1>3. DataSeen = 8
  BY <1>2 DEF DataSeen
<1>4. \A j \in 1 .. 11 : seen.bits[j] = Level(seen.last, j - 1)
  BY <1>1, <1>2 DEF FramesKept
<1>5. \A k \in 0 .. 7 : BitOf(kbc.buffer, k) = BitOf(seen.last, k)
  <2> TAKE k \in 0 .. 7
  <2>1. k + 8 >= 8 /\ k + 8 - 6 = k + 2 /\ k + 2 \in 1 .. 11 /\ k + 2 - 1 = k + 1 /\ k + 1 \in 1 .. 8 /\ k + 1 - 1 = k
        /\ k + 1 \in 0 .. 10
    OBVIOUS
  <2>2. BitOf(kbc.buffer, k) = seen.bits[k + 2]
    BY <1>1, <1>3, <2>1 DEF Buffered
  <2>3. seen.bits[k + 2] = Level(seen.last, k + 1)
    BY <1>4, <2>1
  <2>4. Level(seen.last, k + 1) = BitOf(seen.last, k)
    <3>1. PICK j \in 1 .. 8 : j = k + 1 /\ j - 1 = k
      BY <2>1
    <3>2. Level(seen.last, j) = BitOf(seen.last, j - 1)
      <4>1. j \in 0 .. 10 /\ seen.last \in 0 .. 255
        BY <1>1
      <4>2. QED
        BY <4>1, LevelIs, Zenon
    <3>3. QED
      BY <3>1, <3>2
  <2>5. QED
    BY <2>2, <2>3, <2>4
<1>6. QED
  BY <1>1, <1>5, SameBits, ZenonT(60)

\* The eleventh bit hands the code over; any other one is counted.
LEMMA RisingStep ==
  ASSUME KbcIInv, Rising
  PROVE  KbcIInv'
<1>1. /\ kbc.int0 /\ ~kbc.gFallingEdge /\ wire' = wire /\ bus' = bus
      /\ KbcTyped /\ Edges /\ Counts /\ Buffered /\ FramesKept
  BY DEF KbcIInv, Rising
<1>2. /\ wire.clock = 1 /\ wire.bit \in 0 .. 11 /\ kbc.gBitIndex \in 0 .. 10
      /\ kbc \in ControllerType /\ seen \in SeenType /\ kbc.buffer \in 0 .. 255
      /\ seen.bits \in Seq({0, 1}) /\ seen.start \in 0 .. 10
  BY <1>1 DEF Edges, KbcTyped, ControllerType, WireType, SeenType
<1>3. Late /\ (Whole <=> kbc.gBitIndex = 10)
  BY <1>1 DEF Late, Whole
<1>4. Len(seen.bits) = kbc.gBitIndex + 1 /\ (kbc.gBitIndex + seen.start + 1) % 11 = wire.bit % 11
  BY <1>1, <1>3 DEF Counts
<1>5. CASE kbc.gBitIndex = 10
  <2>1. /\ kbc' = [kbc EXCEPT !.int0 = FALSE, !.gFallingEdge = TRUE, !.gBitIndex = 0,
                              !.buffer = 0, !.outputRegister[0] = kbc.buffer]
        /\ seen' = [seen EXCEPT !.bits = <<>>]
    BY <1>4, <1>5 DEF Rising
  <2>2. PICK o : o = [kbc.outputRegister EXCEPT ![0] = kbc.buffer]
    OBVIOUS
  <2>3. o \in [0 .. 3 -> Int] /\ o[0] = kbc.buffer
    <3>1. kbc.outputRegister \in [0 .. 3 -> Int]
      BY <1>2 DEF ControllerType
    <3>2. PICK n \in Int : n = kbc.buffer
      <4>1. kbc.buffer \in 0 .. 255
        BY <1>2
      <4>2. QED
        BY <4>1
    <3>3. 0 \in 0 .. 3
      OBVIOUS
    <3>4. QED
      BY <2>2, <3>1, <3>2, <3>3
  <2>4. kbc' = [kbc EXCEPT !.int0 = FALSE, !.gFallingEdge = TRUE, !.gBitIndex = 0, !.buffer = 0,
                           !.outputRegister = o]
    BY <1>2, <2>1, <2>2 DEF ControllerType
  <2>5. /\ kbc' \in ControllerType
        /\ kbc'.buffer = 0 /\ kbc'.gBitIndex = 0 /\ kbc'.gFallingEdge = TRUE /\ kbc'.int0 = FALSE
        /\ kbc'.outputRegister = o
    <3>1. 0 \in 0 .. 255 /\ 0 \in 0 .. 10
      OBVIOUS
    <3>2. kbc' \in ControllerType
      BY <1>2, <2>3, <2>4, <3>1, ZenonT(60) DEF ControllerType
    <3>3. QED
      BY <1>2, <2>4, <3>2 DEF ControllerType
  <2>6. seen' \in SeenType /\ seen'.bits = <<>> /\ seen'.start = seen.start /\ seen'.last = seen.last
    <3>1. <<>> \in Seq({0, 1})
      OBVIOUS
    <3>2. seen' \in SeenType
      BY <1>2, <2>1, <3>1, ZenonT(60) DEF SeenType
    <3>3. QED
      BY <1>2, <2>1, <3>2 DEF SeenType
  <2>7. KbcTyped' /\ ~(Late') /\ ~(Whole') /\ Len(seen'.bits) = 0
    BY <1>1, <2>5, <2>6 DEF KbcTyped, Late, Whole
  <2>8. Edges'
    BY <1>1, <1>2, <2>5 DEF Edges
  <2>9. Counts'
    <3>1. (0 + seen.start + 0) % 11 = wire.bit % 11
      BY <1>2, <1>4, <1>5
    <3>2. QED
      BY <1>1, <2>5, <2>6, <2>7, <3>1 DEF Counts
  <2>10. Buffered'
    <3>1. DataSeen' = 0 - 1
      BY <2>7 DEF DataSeen
    <3>2. \A k \in 0 .. 7 : BitOf(kbc'.buffer, k) = 0 /\ ~(k + DataSeen' >= 8)
      BY <2>5, <3>1, ZeroBits
    <3>3. QED
      BY <3>2 DEF Buffered
  <2>11. FramesKept'
    <3>1. seen.start = 0 => kbc.buffer = seen.last
      BY <1>3, <1>5, WholeCode
    <3>2. QED
      BY <2>3, <2>5, <2>6, <2>7, <3>1 DEF FramesKept
  <2>12. QED
    BY <2>7, <2>8, <2>9, <2>10, <2>11 DEF KbcIInv
<1>6. CASE kbc.gBitIndex < 10
  <2>1. /\ kbc' = [kbc EXCEPT !.int0 = FALSE, !.gFallingEdge = TRUE, !.gBitIndex = kbc.gBitIndex + 1]
        /\ seen' = [seen EXCEPT !.bits = seen.bits]
    BY <1>2, <1>4, <1>6 DEF Rising
  <2>2. PICK n \in 0 .. 10 : n = kbc.gBitIndex + 1
    BY <1>2, <1>6
  <2>3. /\ kbc' \in ControllerType
        /\ kbc'.buffer = kbc.buffer /\ kbc'.gBitIndex = n /\ kbc'.gFallingEdge = TRUE
        /\ kbc'.int0 = FALSE /\ kbc'.outputRegister = kbc.outputRegister
    <3>1. kbc' = [kbc EXCEPT !.int0 = FALSE, !.gFallingEdge = TRUE, !.gBitIndex = n]
      BY <2>1, <2>2
    <3>2. kbc' \in ControllerType
      BY <1>2, <3>1, ZenonT(60) DEF ControllerType
    <3>3. QED
      BY <1>2, <3>1, <3>2 DEF ControllerType
  <2>4. seen' = seen
    BY <1>2, <2>1 DEF SeenType
  <2>5. KbcTyped' /\ ~(Late') /\ ~(Whole') /\ ~Whole
    BY <1>1, <1>3, <1>6, <2>3, <2>4 DEF KbcTyped, Late, Whole
  <2>6. Edges'
    BY <1>1, <1>2, <2>3 DEF Edges
  <2>7. Counts'
    <3>1. (n + seen.start + 0) % 11 = wire.bit % 11
      <4>1. kbc.gBitIndex \in 0 .. 10 /\ seen.start \in 0 .. 10
        BY <1>2
      <4>2. n + seen.start + 0 = kbc.gBitIndex + seen.start + 1
        BY <2>2, <4>1
      <4>3. QED
        BY <1>4, <4>2
    <3>2. Len(seen.bits) = n + 0
      BY <1>4, <2>2
    <3>3. QED
      BY <1>1, <2>3, <2>4, <2>5, <3>1, <3>2 DEF Counts
  <2>8. Buffered'
    <3>1. DataSeen' = DataSeen /\ Buffered
      BY <1>1, <2>4 DEF DataSeen
    <3>2. QED
      BY <2>3, <2>4, <3>1 DEF Buffered
  <2>9. FramesKept'
    BY <1>1, <2>3, <2>4, <2>5 DEF FramesKept
  <2>10. QED
    BY <2>5, <2>6, <2>7, <2>8, <2>9 DEF KbcIInv
<1>7. QED
  BY <1>2, <1>5, <1>6

\* A controller that starts has seen nothing.
LEMMA FreshKbc ==
  ASSUME kbc' = Fresh, wire' \in WireType, bus' \in BusType, wire'.clock = 1,
         NEW d \in 0 .. 10, d % 11 = wire'.bit % 11, seen' = [bits |-> <<>>, start |-> d, last |-> 0]
  PROVE  KbcIInv'
<1>1. /\ kbc' \in ControllerType
      /\ kbc'.buffer = 0 /\ kbc'.gBitIndex = 0 /\ kbc'.gFallingEdge = TRUE /\ kbc'.int0 = FALSE
      /\ kbc'.outputRegister[0] = 0
  <2>a. PICK o : o = [a \in 0 .. 3 |-> 0]
    OBVIOUS
  <2>1. o \in [0 .. 3 -> Int] /\ o[0] = 0
    BY <2>a
  <2>2. 0 \in 0 .. 255 /\ 0 \in 0 .. 10
    OBVIOUS
  <2>3. QED
    BY <2>a, <2>1, <2>2 DEF Fresh, ControllerType
<1>2. seen' \in SeenType /\ seen'.bits = <<>> /\ seen'.start = d /\ seen'.last = 0
  <2>1. 0 \in 0 .. 255 /\ <<>> \in Seq({0, 1})
    OBVIOUS
  <2>2. QED
    BY <2>1 DEF SeenType
<1>3. KbcTyped' /\ ~(Late') /\ ~(Whole') /\ Len(seen'.bits) = 0
  BY <1>1, <1>2 DEF KbcTyped, Late, Whole
<1>4. Edges'
  BY <1>1 DEF Edges
<1>5. Counts'
  <2>1. (0 + d + 0) % 11 = wire'.bit % 11
    OBVIOUS
  <2>2. QED
    BY <1>1, <1>2, <1>3, <2>1 DEF Counts
<1>6. Buffered'
  <2>1. DataSeen' = 0 - 1
    BY <1>3 DEF DataSeen
  <2>2. \A k \in 0 .. 7 : BitOf(kbc'.buffer, k) = 0 /\ ~(k + DataSeen' >= 8)
    BY <1>1, <2>1, ZeroBits
  <2>3. QED
    BY <2>2 DEF Buffered
<1>7. FramesKept'
  BY <1>1, <1>2, <1>3 DEF FramesKept
<1>8. QED
  BY <1>3, <1>4, <1>5, <1>6, <1>7 DEF KbcIInv

\* A restart keeps the position of the keyboard as the distance.
LEMMA RestartStep ==
  ASSUME KbcIInv, Restart
  PROVE  KbcIInv'
<1>1. PICK d \in 0 .. 10 : d = wire.bit % 11
  BY DEF KbcIInv, KbcTyped, WireType
<1>2. /\ kbc' = Fresh /\ wire' = wire /\ bus' = bus /\ wire.clock = 1
      /\ seen' = [bits |-> <<>>, start |-> d, last |-> 0]
      /\ wire \in WireType /\ bus \in BusType
  BY <1>1 DEF KbcIInv, KbcTyped, Restart
<1>3. d % 11 = wire'.bit % 11
  BY <1>1, <1>2
<1>4. QED
  BY <1>1, <1>2, <1>3, FreshKbc

\* Whatever the codes, the Z80 and the moment of a restart: the counter of the
\* routine and the position of the keyboard keep their distance, the buffer holds
\* the data bits seen, and at distance 0 the register holds the last whole code.
THEOREM KbcInStepHolds == KbcSpec => []KbcInStep
<1>1. KbcInit => KbcIInv
  <2> SUFFICES ASSUME KbcInit PROVE KbcIInv
    OBVIOUS
  <2>1. /\ wire \in WireType /\ wire.clock = 1 /\ wire.bit = 11
    BY DEF KbcInit, WireType
  <2>2. /\ bus \in BusType
    BY DEF KbcInit, BusType
  <2>3. /\ kbc \in ControllerType
        /\ kbc.buffer = 0 /\ kbc.gBitIndex = 0 /\ kbc.gFallingEdge = TRUE /\ kbc.int0 = FALSE
        /\ kbc.outputRegister[0] = 0
    BY DEF KbcInit, Fresh, ControllerType
  <2>4. /\ seen \in SeenType /\ seen.bits = <<>> /\ seen.start = 0 /\ seen.last = 0
    BY DEF KbcInit, SeenType
  <2>5. KbcTyped /\ ~Late /\ ~Whole /\ Len(seen.bits) = 0
    BY <2>1, <2>2, <2>3, <2>4 DEF KbcTyped, Late, Whole
  <2>6. Edges /\ Counts
    BY <2>1, <2>3, <2>4, <2>5 DEF Edges, Counts
  <2>7. DataSeen = 0 - 1
    BY <2>5 DEF DataSeen
  <2>8. Buffered
    BY <2>3, <2>7, ZeroBits DEF Buffered
  <2>9. FramesKept
    BY <2>3, <2>4, <2>5 DEF FramesKept
  <2>10. QED
    BY <2>5, <2>6, <2>8, <2>9 DEF KbcIInv
<1>2. KbcIInv /\ [KbcNext]_kbcVars => KbcIInv'
  <2> SUFFICES ASSUME KbcIInv, [KbcNext]_kbcVars
               PROVE  KbcIInv'
    OBVIOUS
  <2>1. CASE KbcNext
    BY <2>1, BytesAre, KeyStep, FallStep, RiseStep, FallingStep, RisingStep, BusStep, RestartStep DEF KbcNext
  <2>2. CASE UNCHANGED kbcVars
    BY <2>2 DEF kbcVars, KbcIInv, KbcTyped, Edges, Counts, Late, Whole, Buffered, FramesKept, DataSeen
  <2>3. QED
    BY <2>1, <2>2
<1>3. KbcIInv => KbcInStep
  <2> SUFFICES ASSUME KbcIInv, ~kbc.int0
               PROVE  /\ (kbc.gBitIndex + seen.start) % 11 = wire.bit % 11
                      /\ kbc.gFallingEdge = (wire.clock = 1)
                      /\ kbc.buffer \in 0 .. 255
                      /\ Buffered
                      /\ seen.start = 0 => kbc.outputRegister[0] = seen.last
    BY DEF KbcInStep, Buffered
  <2>1. /\ kbc.gBitIndex \in 0 .. 10 /\ seen.start \in 0 .. 10 /\ kbc.buffer \in 0 .. 255
        /\ kbc.gFallingEdge \in BOOLEAN /\ ~Late /\ ~Whole
        /\ Edges /\ Counts /\ Buffered /\ FramesKept
    BY DEF KbcIInv, KbcTyped, ControllerType, SeenType, Late, Whole
  <2>2. (kbc.gBitIndex + seen.start) % 11 = wire.bit % 11
    <3>1. (kbc.gBitIndex + seen.start + 0) % 11 = wire.bit % 11
      BY <2>1 DEF Counts
    <3>2. QED
      BY <2>1, <3>1
  <2>3. kbc.gFallingEdge = (wire.clock = 1)
    BY <2>1 DEF Edges
  <2>4. QED
    BY <2>1, <2>2, <2>3 DEF FramesKept
<1>4. QED
  BY <1>1, <1>2, <1>3, PTL DEF KbcSpec

----------------------------------------------------------------------------
(* The graphics module. *)

\* The bytes of the picture.
Shown == 0 .. Width * Visible - 1

VgaTyped ==
  /\ vram \in [Cells -> Colors \X Colors] /\ oldVram \in [Cells -> Colors \X Colors]
  /\ scan \in [does : {"fill", "events", "draw", "present"}, at : Nat, update : BOOLEAN, first : BOOLEAN]
  /\ scan.does = "fill" => scan.at \in Cells /\ scan.first
  /\ scan.does = "draw" => scan.at \in Pixels
  /\ screen \in [back : [Pixels -> Colors], front : [Pixels -> Colors]]
  /\ coord \in [x : 0 .. Width - 1, y : 0 .. Rows - 1]

\* The left pixel of a byte is forgotten when the right one has been drawn.
LeftForgotten(c) == oldVram[c][1] = 0

\* Behind the place of the thread all left pixels are forgotten, and in any frame
\* but the first those before it are still; between the two pixels of a byte the
\* right one is.
Forgotten ==
  /\ scan.does \in {"events", "present"} /\ (scan.first => scan.does = "present") =>
       \A c \in Shown : LeftForgotten(c)
  /\ scan.does = "draw" => \A c \in Shown :
       /\ 2 * c + 1 < scan.at \/ (~scan.first /\ 2 * c >= scan.at) => LeftForgotten(c)
       /\ 2 * c + 1 = scan.at => oldVram[c][2] = 0

\* So every pixel is compared with black.
UpdateIfBright ==
  ~scan.first =>
    /\ scan.does = "draw" => (scan.update <=> \E p \in Pixels : p < scan.at /\ screen.back[p] # 0)
    /\ scan.does = "present" => (scan.update <=> \E p \in Pixels : screen.back[p] # 0)

VgaIInv == VgaTyped /\ Forgotten /\ UpdateIfBright

\* The pixels, the bytes shown and the bytes of the memory are numbered from 0.
LEMMA VgaSizes ==
  \E n \in Nat \ {0}, m \in Nat : n <= m /\ Pixels = 0 .. 2 * n - 1 /\ Shown = 0 .. n - 1 /\ Cells = 0 .. m - 1
<1>1. PICK w \in Nat, v \in Nat, r \in Nat, d \in Nat :
         w = Width /\ v = Visible /\ r = Rows /\ w > 0 /\ v > 0 /\ r = v + d
  <2>1. Rows - Visible \in Nat /\ Rows = Visible + (Rows - Visible)
    BY VgaFits
  <2>2. QED
    BY <2>1, VgaFits
<1>2. w * v \in Nat \ {0} /\ w * d \in Nat /\ w * r = w * v + w * d /\ 2 * w * v = 2 * (w * v)
  BY <1>1
<1>3. PICK n \in Nat, m \in Nat : n = w * v /\ m = w * r
  BY <1>1, <1>2
<1>4. n > 0 /\ n <= m
  BY <1>2, <1>3
<1>5. QED
  BY <1>1, <1>2, <1>3, <1>4 DEF Pixels, Shown, Cells

\* A pixel is the left or the right one of a byte that is shown.
LEMMA PixelPlace ==
  ASSUME NEW at \in Pixels
  PROVE  \E c \in Shown :
           /\ c \in Cells /\ at \div 2 = c
           /\ \/ at = 2 * c /\ at % 2 = 0
              \/ at = 2 * c + 1 /\ at % 2 = 1
<1>1. PICK n \in Nat, m \in Nat :
         n <= m /\ Pixels = 0 .. 2 * n - 1 /\ Shown = 0 .. n - 1 /\ Cells = 0 .. m - 1
  BY VgaSizes
<1>2. at \in 0 .. 2 * n - 1
  BY <1>1
<1>3. at \div 2 \in 0 .. n - 1 /\ at \div 2 \in 0 .. m - 1
  BY <1>1, <1>2
<1>4. QED
  BY <1>1, <1>2, <1>3

LEMMA ShownCells == Shown \subseteq Cells
BY VgaSizes

LEMMA VgaInitIInv ==
  ASSUME VgaInit
  PROVE  VgaIInv
<1>1. /\ vram = [k \in Cells |-> <<0, 0>>] /\ oldVram = vram
      /\ coord = [x |-> 0, y |-> 0]
      /\ scan = [does |-> "fill", at |-> 0, update |-> FALSE, first |-> TRUE]
      /\ screen = [back |-> Black, front |-> Black]
  BY DEF VgaInit
<1>2. 0 \in Colors /\ 0 \in Cells /\ 0 \in 0 .. Width - 1 /\ 0 \in 0 .. Rows - 1
  BY VgaFits, VgaSizes DEF Colors
<1>3. Black \in [Pixels -> Colors]
  BY <1>2 DEF Black
<1>4. vram \in [Cells -> Colors \X Colors]
  BY <1>1, <1>2
<1>5. screen \in [back : [Pixels -> Colors], front : [Pixels -> Colors]]
  BY <1>1, <1>3
<1>6. coord \in [x : 0 .. Width - 1, y : 0 .. Rows - 1]
  BY <1>1, <1>2
<1>7. VgaTyped
  BY <1>1, <1>2, <1>4, <1>5, <1>6 DEF VgaTyped
<1>8. QED
  BY <1>1, <1>7 DEF VgaIInv, Forgotten, UpdateIfBright

LEMMA AdvancedTyped ==
  ASSUME NEW c \in [x : 0 .. Width - 1, y : 0 .. Rows - 1]
  PROVE  Advanced(c) \in [x : 0 .. Width - 1, y : 0 .. Rows - 1]
<1>1. c.x \in 0 .. Width - 1 /\ c.y \in 0 .. Rows - 1 /\ Rows \in Nat \ {0} /\ Width \in Nat \ {0}
  BY VgaFits
<1>2. CASE c.x + 1 < Width
  <2>1. Advanced(c) = [c EXCEPT !.x = c.x + 1] /\ c.x + 1 \in 0 .. Width - 1
    BY <1>1, <1>2 DEF Advanced
  <2>2. QED
    BY <2>1
<1>3. CASE ~(c.x + 1 < Width)
  <2>1. Advanced(c) = [x |-> 0, y |-> (c.y + 1) % Rows]
    BY <1>3 DEF Advanced
  <2>2. (c.y + 1) % Rows \in 0 .. Rows - 1 /\ 0 \in 0 .. Width - 1
    BY <1>1
  <2>3. QED
    BY <2>1, <2>2
<1>4. QED
  BY <1>2, <1>3

\* The accesses of the machine change the memory and the place in it, no more.
LEMMA PortIInv ==
  ASSUME VgaIInv, VgaRead \/ VgaWrite \/ VgaSetCoord \/ VgaShowHide
  PROVE  VgaIInv'
<1>1. /\ oldVram' = oldVram /\ scan' = scan /\ screen' = screen
      /\ VgaTyped /\ Forgotten /\ UpdateIfBright
  BY DEF VgaIInv, VgaRead, VgaWrite, VgaSetCoord, VgaShowHide
<1>2. coord \in [x : 0 .. Width - 1, y : 0 .. Rows - 1] /\ vram \in [Cells -> Colors \X Colors]
  BY <1>1 DEF VgaTyped
<1>3. coord' \in [x : 0 .. Width - 1, y : 0 .. Rows - 1]
  <2>1. CASE VgaRead
    BY <1>2, <2>1, AdvancedTyped DEF VgaRead
  <2>2. CASE VgaWrite
    BY <1>2, <2>2, AdvancedTyped DEF VgaWrite
  <2>3. CASE VgaSetCoord
    BY <1>2, <2>3 DEF VgaSetCoord
  <2>4. CASE VgaShowHide
    BY <1>2, <2>4 DEF VgaShowHide
  <2>5. QED
    BY <2>1, <2>2, <2>3, <2>4
<1>4. vram' \in [Cells -> Colors \X Colors]
  <2>1. CASE VgaWrite
    <3>1. PICK data \in Colors \X Colors : vram' = [vram EXCEPT ![Cell] = data]
      BY <2>1, VgaFits DEF VgaWrite
    <3>2. QED
      BY <1>2, <3>1
  <2>2. CASE ~VgaWrite
    BY <1>2, <2>2 DEF VgaRead, VgaSetCoord, VgaShowHide
  <2>3. QED
    BY <2>1, <2>2
<1>5. VgaTyped'
  BY <1>1, <1>3, <1>4 DEF VgaTyped
<1>6. Forgotten' /\ UpdateIfBright'
  BY <1>1 DEF Forgotten, UpdateIfBright, LeftForgotten
<1>7. QED
  BY <1>5, <1>6 DEF VgaIInv

LEMMA FillIInv ==
  ASSUME VgaIInv, Fill
  PROVE  VgaIInv'
<1>1. /\ scan.does = "fill" /\ screen' = screen /\ coord' = coord
      /\ scan' = IF scan.at + 1 \in Cells THEN [scan EXCEPT !.at = scan.at + 1]
                 ELSE [scan EXCEPT !.does = "events", !.at = 0]
      /\ VgaTyped
  BY DEF VgaIInv, Fill
<1>2. PICK data \in Colors \X Colors :
        vram' = [vram EXCEPT ![scan.at] = data] /\ oldVram' = [oldVram EXCEPT ![scan.at] = data]
  BY VgaFits DEF Fill
<1>3. /\ scan \in [does : {"fill", "events", "draw", "present"}, at : Nat, update : BOOLEAN, first : BOOLEAN]
      /\ scan.first /\ vram \in [Cells -> Colors \X Colors] /\ oldVram \in [Cells -> Colors \X Colors]
  BY <1>1 DEF VgaTyped
<1>4. vram' \in [Cells -> Colors \X Colors] /\ oldVram' \in [Cells -> Colors \X Colors]
  BY <1>2, <1>3
<1>5. /\ scan' \in [does : {"fill", "events", "draw", "present"}, at : Nat, update : BOOLEAN, first : BOOLEAN]
      /\ scan'.first
      /\ (scan'.does = "fill" /\ scan'.at \in Cells) \/ scan'.does = "events"
  <2>1. CASE scan.at + 1 \in Cells
    BY <1>1, <1>3, <2>1
  <2>2. CASE scan.at + 1 \notin Cells
    BY <1>1, <1>3, <2>2
  <2>3. QED
    BY <2>1, <2>2
<1>6. VgaTyped'
  BY <1>1, <1>4, <1>5 DEF VgaTyped
<1>7. Forgotten' /\ UpdateIfBright'
  BY <1>5 DEF Forgotten, UpdateIfBright
<1>8. QED
  BY <1>6, <1>7 DEF VgaIInv

LEMMA EventsIInv ==
  ASSUME VgaIInv, Events
  PROVE  VgaIInv'
<1>1. /\ scan.does = "events" /\ scan' = [scan EXCEPT !.does = "draw", !.at = 0, !.update = FALSE]
      /\ vram' = vram /\ oldVram' = oldVram /\ coord' = coord /\ screen' = screen
      /\ VgaTyped /\ Forgotten
  BY DEF VgaIInv, Events
<1>2. 0 \in Pixels /\ \A p \in Pixels : ~(p < 0)
  BY VgaSizes
<1>3. \A c \in Shown : c \in Nat /\ ~(2 * c + 1 < 0) /\ 2 * c + 1 # 0
  BY VgaSizes
<1>4. /\ scan' \in [does : {"fill", "events", "draw", "present"}, at : Nat, update : BOOLEAN, first : BOOLEAN]
      /\ scan'.does = "draw" /\ scan'.at = 0 /\ scan'.update = FALSE /\ scan'.first = scan.first
  BY <1>1 DEF VgaTyped
<1>5. VgaTyped'
  BY <1>1, <1>2, <1>4 DEF VgaTyped
<1>6. Forgotten'
  BY <1>1, <1>3, <1>4 DEF Forgotten, LeftForgotten
<1>7. UpdateIfBright'
  BY <1>2, <1>4 DEF UpdateIfBright
<1>8. QED
  BY <1>5, <1>6, <1>7 DEF VgaIInv

LEMMA PresentIInv ==
  ASSUME VgaIInv, Present
  PROVE  VgaIInv'
<1>1. /\ scan.does = "present" /\ screen' = Presented(screen)
      /\ scan' = [scan EXCEPT !.does = "events", !.at = 0, !.update = FALSE, !.first = FALSE]
      /\ vram' = vram /\ oldVram' = oldVram /\ coord' = coord
      /\ VgaTyped /\ Forgotten
  BY DEF VgaIInv, Present
<1>2. /\ scan' \in [does : {"fill", "events", "draw", "present"}, at : Nat, update : BOOLEAN, first : BOOLEAN]
      /\ scan'.does = "events" /\ scan'.first = FALSE
  BY <1>1 DEF VgaTyped
<1>3. screen' \in [back : [Pixels -> Colors], front : [Pixels -> Colors]]
  BY <1>1 DEF VgaTyped, Presented
<1>4. VgaTyped'
  BY <1>1, <1>2, <1>3 DEF VgaTyped
<1>5. Forgotten' /\ UpdateIfBright'
  BY <1>1, <1>2 DEF Forgotten, UpdateIfBright, LeftForgotten
<1>6. QED
  BY <1>4, <1>5 DEF VgaIInv

\* One pixel.
LEMMA DrawIInv ==
  ASSUME VgaIInv, Draw
  PROVE  VgaIInv'
<1>1. scan.does = "draw" /\ scan.at \in Pixels /\ VgaTyped /\ Forgotten /\ UpdateIfBright
  BY DEF VgaIInv, VgaTyped, Draw
<1>2. PICK n \in Nat \ {0}, m \in Nat :
         n <= m /\ Pixels = 0 .. 2 * n - 1 /\ Shown = 0 .. n - 1 /\ Cells = 0 .. m - 1
  BY VgaSizes
<1>3. PICK at \in 0 .. 2 * n - 1 : at = scan.at
  BY <1>1, <1>2
<1>4. PICK c \in Shown :
        /\ c \in Cells /\ at \div 2 = c
        /\ \/ at = 2 * c /\ at % 2 = 0
           \/ at = 2 * c + 1 /\ at % 2 = 1
  BY <1>1, <1>3, PixelPlace
<1>5. PICK side \in {1, 2} : side = 1 + (at % 2)
  BY <1>4
<1>6. PICK color \in Colors : color = vram[c][side]
  BY <1>1, <1>4 DEF VgaTyped
<1>7. PICK e \in Colors \X Colors : e = Remembered(oldVram[c], side, color)
  <2>1. 0 \in Colors
    BY DEF Colors
  <2>2. CASE side = 1
    <3>1. Remembered(oldVram[c], side, color) = <<color, 0>>
      BY <2>2 DEF Remembered
    <3>2. <<color, 0>> \in Colors \X Colors
      BY <2>1
    <3>3. QED
      BY <3>1, <3>2
  <2>3. CASE side = 2
    <3>1. Remembered(oldVram[c], side, color) = <<0, color>>
      BY <2>3 DEF Remembered
    <3>2. <<0, color>> \in Colors \X Colors
      BY <2>1
    <3>3. QED
      BY <3>1, <3>2
  <2>4. QED
    BY <2>2, <2>3
<1>8. /\ oldVram' = [oldVram EXCEPT ![c] = e]
      /\ screen' = [screen EXCEPT !.back = [screen.back EXCEPT ![at] = color]]
      /\ scan' = [scan EXCEPT !.update = (scan.update \/ color # oldVram[c][side]),
                              !.at = at + 1, !.does = IF at + 1 \in Pixels THEN "draw" ELSE "present"]
      /\ vram' = vram /\ coord' = coord
  BY <1>3, <1>4, <1>5, <1>6, <1>7 DEF Draw, Changed
<1>9. oldVram' \in [Cells -> Colors \X Colors] /\ oldVram'[c] = e /\ \A d \in Cells : d # c => oldVram'[d] = oldVram[d]
  BY <1>1, <1>4, <1>8 DEF VgaTyped
<1>10. PICK back \in [Pixels -> Colors] :
         /\ back = [screen.back EXCEPT ![at] = color]
         /\ back[at] = color /\ \A p \in Pixels : p # at => back[p] = screen.back[p]
  <2>1. PICK b \in [Pixels -> Colors] : b = screen.back
    BY <1>1 DEF VgaTyped
  <2>2. at \in Pixels
    BY <1>2
  <2>3. PICK back : back = [b EXCEPT ![at] = color]
    OBVIOUS
  <2>4. back \in [Pixels -> Colors] /\ back[at] = color /\ \A p \in Pixels : p # at => back[p] = b[p]
    BY <2>2, <2>3
  <2>5. QED
    BY <2>1, <2>3, <2>4
<1>11. screen' \in [back : [Pixels -> Colors], front : [Pixels -> Colors]] /\ screen'.back = back
  BY <1>1, <1>8, <1>10 DEF VgaTyped
<1>12. PICK u \in BOOLEAN : u = (scan.update \/ color # oldVram[c][side])
  BY <1>1 DEF VgaTyped
<1>13. PICK does \in {"draw", "present"} : does = IF at + 1 \in Pixels THEN "draw" ELSE "present"
  OBVIOUS
<1>14. scan' = [scan EXCEPT !.update = u, !.at = at + 1, !.does = does]
  BY <1>8, <1>12, <1>13
<1>15. /\ scan' \in [does : {"fill", "events", "draw", "present"}, at : Nat, update : BOOLEAN, first : BOOLEAN]
       /\ scan'.does = does /\ scan'.at = at + 1 /\ scan'.update = u /\ scan'.first = scan.first
  <2>1. at + 1 \in Nat
    BY <1>2
  <2>2. QED
    BY <1>1, <1>14, <2>1 DEF VgaTyped
<1>16. VgaTyped'
  <2>1. does = "draw" => at + 1 \in Pixels
    BY <1>13
  <2>2. QED
    BY <1>1, <1>8, <1>9, <1>11, <1>15, <2>1 DEF VgaTyped
\* The byte that is drawn: its left pixel goes to the memory and is lost with the
\* right one.
<1>17. \A d \in Shown : /\ 2 * d + 1 < at + 1 => oldVram'[d][1] = 0
                        /\ 2 * d + 1 = at + 1 => oldVram'[d][2] = 0
                        /\ ~scan.first /\ 2 * d >= at + 1 => oldVram'[d][1] = 0
  <2> TAKE d \in Shown
  <2>1. d \in Nat /\ c \in Nat /\ d \in Cells
    BY <1>2, <1>4
  <2>2. CASE d # c
    <3>1. oldVram'[d] = oldVram[d] /\ 2 * d # at /\ 2 * d + 1 # at
      BY <1>4, <1>9, <2>1, <2>2
    <3>2. 2 * d + 1 < at + 1 => 2 * d + 1 < at
      BY <1>2, <2>1, <3>1
    <3>3. 2 * d >= at + 1 => 2 * d >= at
      BY <1>2, <2>1
    <3>4. 2 * d + 1 # at + 1
      BY <1>2, <2>1, <3>1
    <3>5. QED
      BY <1>1, <1>3, <3>1, <3>2, <3>3, <3>4 DEF Forgotten, LeftForgotten
  <2>3. CASE d = c /\ at = 2 * c /\ at % 2 = 0
    <3>1. e[2] = 0
      BY <1>5, <1>7, <2>3 DEF Remembered
    <3>2. QED
      BY <1>9, <2>1, <2>3, <3>1
  <2>4. CASE d = c /\ at = 2 * c + 1 /\ at % 2 = 1
    <3>1. e[1] = 0
      BY <1>5, <1>7, <2>4 DEF Remembered
    <3>2. QED
      BY <1>9, <2>1, <2>4, <3>1
  <2>5. QED
    BY <1>4, <2>2, <2>3, <2>4
<1>18. Forgotten'
  <2>1. CASE does = "draw"
    BY <1>15, <1>17, <2>1 DEF Forgotten, LeftForgotten
  <2>2. CASE does = "present"
    <3>1. at + 1 \notin Pixels
      BY <1>13, <2>2
    <3>2. \A d \in Shown : 2 * d + 1 < at + 1
      BY <1>2, <3>1
    <3>3. QED
      BY <1>15, <1>17, <2>2, <3>2 DEF Forgotten, LeftForgotten
  <2>3. QED
    BY <2>1, <2>2
<1>19. UpdateIfBright'
  <2>1. SUFFICES ASSUME ~scan.first
                 PROVE  UpdateIfBright'
    BY <1>15 DEF UpdateIfBright
  <2>2. oldVram[c][side] = 0
    <3>1. c \in Nat
      BY <1>2
    <3>2. CASE at = 2 * c /\ at % 2 = 0
      BY <1>1, <1>3, <1>5, <2>1, <3>1, <3>2 DEF Forgotten, LeftForgotten
    <3>3. CASE at = 2 * c + 1 /\ at % 2 = 1
      BY <1>1, <1>3, <1>5, <2>1, <3>1, <3>3 DEF Forgotten, LeftForgotten
    <3>4. QED
      BY <1>4, <3>2, <3>3
  <2>3. scan.update <=> \E p \in Pixels : p < at /\ screen.back[p] # 0
    BY <1>1, <1>3, <2>1 DEF UpdateIfBright
  <2>4. u <=> \E p \in Pixels : p < at + 1 /\ back[p] # 0
    <3>1. u <=> scan.update \/ color # 0
      BY <1>12, <2>2
    <3>2. at \in Pixels /\ \A p \in Pixels : p < at + 1 <=> p < at \/ p = at
      BY <1>2
    <3>3. QED
      BY <1>2, <1>10, <2>3, <3>1, <3>2
  <2>5. CASE does = "draw"
    BY <1>11, <1>15, <2>4, <2>5 DEF UpdateIfBright
  <2>6. CASE does = "present"
    <3>1. at + 1 \notin Pixels
      BY <1>13, <2>6
    <3>2. \A p \in Pixels : p < at + 1
      BY <1>2, <3>1
    <3>3. QED
      BY <1>11, <1>15, <2>4, <2>6, <3>2 DEF UpdateIfBright
  <2>7. QED
    BY <2>5, <2>6
<1>20. QED
  BY <1>16, <1>18, <1>19 DEF VgaIInv

\* The window shows the last frame that was drawn, except one that is all black,
\* whatever the machine writes meanwhile and for pictures of every size.
THEOREM VgaPresentsHolds == VgaSpec => VgaPresents
<1> DEFINE Shows == scan.does = "present" /\ ~scan.first =>
                      screen'.front = IF screen.back = Black THEN screen.front ELSE screen.back
<1>1. VgaInit => VgaIInv
  BY VgaInitIInv
<1>2. VgaIInv /\ [VgaNext]_vgaVars => VgaIInv'
  <2> SUFFICES ASSUME VgaIInv, [VgaNext]_vgaVars
               PROVE  VgaIInv'
    OBVIOUS
  <2>1. CASE VgaNext
    BY <2>1, PortIInv, FillIInv, EventsIInv, DrawIInv, PresentIInv DEF VgaNext
  <2>2. CASE UNCHANGED vgaVars
    BY <2>2 DEF vgaVars, VgaIInv, VgaTyped, Forgotten, UpdateIfBright, LeftForgotten
  <2>3. QED
    BY <2>1, <2>2
<1>3. VgaIInv /\ [VgaNext]_vgaVars => [Shows]_scan
  <2> SUFFICES ASSUME VgaIInv, [VgaNext]_vgaVars, scan' # scan, scan.does = "present", ~scan.first
               PROVE  screen'.front = IF screen.back = Black THEN screen.front ELSE screen.back
    OBVIOUS
  <2>1. Present
    BY DEF VgaNext, vgaVars, VgaRead, VgaWrite, VgaSetCoord, VgaShowHide, Fill, Events, Draw
  <2>2. screen \in [back : [Pixels -> Colors], front : [Pixels -> Colors]]
    BY DEF VgaIInv, VgaTyped
  <2>3. scan.update <=> \E p \in Pixels : screen.back[p] # 0
    BY DEF VgaIInv, UpdateIfBright
  <2>4. screen.back = Black <=> \A p \in Pixels : screen.back[p] = 0
    <3>1. PICK b \in [Pixels -> Colors] : b = screen.back
      BY <2>2
    <3>2. b = [p \in Pixels |-> b[p]]
      BY <3>1
    <3>3. b = Black <=> \A p \in Pixels : b[p] = 0
      BY <3>1, <3>2 DEF Black
    <3>4. QED
      BY <3>1, <3>3
  <2>5. screen' = IF scan.update THEN [screen EXCEPT !.front = screen.back] ELSE screen
    BY <2>1 DEF Present, Presented
  <2>6. QED
    BY <2>2, <2>3, <2>4, <2>5
<1>4. QED
  BY <1>1, <1>2, <1>3, PTL DEF VgaSpec, VgaPresents

----------------------------------------------------------------------------
(* The debugger of the emulator. *)

(* Lists. *)

Points == 1 .. MaxPoints
Links == 0 .. MaxPoints

Successors(l) == l.next \in [Points -> Links]
Closed(l, S) == \A x \in S \ {0} : l.next[x] \in S

\* What a walk along the links meets is the least set that is closed under them.
LEMMA MetIs ==
  ASSUME NEW l, Successors(l), NEW h \in Links
  PROVE  /\ h \in Met(l, h) /\ Met(l, h) \in SUBSET Links /\ Closed(l, Met(l, h))
         /\ \A S \in SUBSET Links : h \in S /\ Closed(l, S) => Met(l, h) \subseteq S
<1>1. Met(l, h) = {x \in Links : \A S \in SUBSET Links : h \in S /\ Closed(l, S) => x \in S}
  BY DEF Met, Links, Closed
<1>2. h \in Met(l, h) /\ Met(l, h) \in SUBSET Links
  BY <1>1
<1>3. Closed(l, Met(l, h))
  <2>1. SUFFICES ASSUME NEW x \in Met(l, h) \ {0} PROVE l.next[x] \in Met(l, h)
    BY DEF Closed
  <2>2. x \in Points
    BY <1>2, DebuggerFits DEF Points, Links
  <2>3. l.next[x] \in Links
    BY <2>2 DEF Successors
  <2>4. \A S \in SUBSET Links : h \in S /\ Closed(l, S) => l.next[x] \in S
    BY <1>1 DEF Closed
  <2>5. QED
    BY <1>1, <2>3, <2>4
<1>4. QED
  BY <1>1, <1>2, <1>3

LEMMA MetNull ==
  ASSUME NEW l, Successors(l)
  PROVE  Met(l, 0) = {0}
<1>1. 0 \in Links /\ {0} \in SUBSET Links /\ Closed(l, {0})
  BY DebuggerFits DEF Links, Closed
<1>2. QED
  BY <1>1, MetIs

\* What is met from a point on the way is met from the start.
LEMMA MetOn ==
  ASSUME NEW l, Successors(l), NEW h \in Links, NEW x \in Met(l, h)
  PROVE  Met(l, x) \subseteq Met(l, h)
<1>1. x \in Links /\ Met(l, h) \in SUBSET Links /\ Closed(l, Met(l, h))
  BY MetIs
<1>2. QED
  BY <1>1, MetIs

\* A walk meets its first point, and what is met from the next one.
LEMMA MetUnfold ==
  ASSUME NEW l, Successors(l), NEW h \in Points
  PROVE  Met(l, h) = {h} \cup Met(l, l.next[h])
<1>1. h \in Links /\ l.next[h] \in Links /\ h # 0
  BY DebuggerFits DEF Points, Links, Successors
<1>2. /\ h \in Met(l, h) /\ Met(l, h) \in SUBSET Links /\ Closed(l, Met(l, h))
      /\ l.next[h] \in Met(l, l.next[h]) /\ Met(l, l.next[h]) \in SUBSET Links /\ Closed(l, Met(l, l.next[h]))
  BY <1>1, MetIs
<1>3. l.next[h] \in Met(l, h)
  BY <1>1, <1>2 DEF Closed
<1>4. Met(l, l.next[h]) \subseteq Met(l, h)
  BY <1>1, <1>3, MetOn
<1>5. Closed(l, {h} \cup Met(l, l.next[h])) /\ {h} \cup Met(l, l.next[h]) \in SUBSET Links
  BY <1>1, <1>2 DEF Closed
<1>6. Met(l, h) \subseteq {h} \cup Met(l, l.next[h])
  BY <1>1, <1>5, MetIs
<1>7. QED
  BY <1>2, <1>4, <1>6

\* Points whose successor is a younger one, themselves or none.
Ascending(l) == \A x \in Points : l.next[x] = 0 \/ l.next[x] >= x
Terminal(l, x) == x \in Points /\ l.next[x] \in {0, x}

\* Every list has a last point.
LEMMA TerminalMet ==
  ASSUME NEW l, Successors(l), Ascending(l), NEW h \in Points
  PROVE  \E t \in Met(l, h) : Terminal(l, t)
<1>1. h \in Links /\ \A x \in Links : x # 0 => x \in Points
  BY DebuggerFits DEF Points, Links
<1>2. /\ h \in Met(l, h) /\ Met(l, h) \in SUBSET Links
      /\ \A x \in Met(l, h) \ {0} : l.next[x] \in Met(l, h)
  BY <1>1, MetIs DEF Closed
<1> DEFINE S == {MaxPoints - x : x \in Met(l, h) \ {0}}
<1>3. S \in SUBSET Nat
  BY <1>2, DebuggerFits DEF Links
<1>4. S # {}
  BY <1>1, <1>2, DebuggerFits DEF Points
<1>5. PICK n \in S : \A m \in S : n <= m
  BY <1>3, <1>4, Lowest
<1>6. PICK t \in Met(l, h) \ {0} : n = MaxPoints - t
  BY <1>5
<1>7. \A x \in Met(l, h) \ {0} : MaxPoints - t <= MaxPoints - x
  BY <1>5, <1>6
<1>8. t \in Points
  BY <1>1, <1>2
<1>9. \A x \in Met(l, h) \ {0} : x <= t
  <2> SUFFICES ASSUME NEW x \in Met(l, h) \ {0} PROVE x <= t
    OBVIOUS
  <2>1. x \in Int /\ t \in Int /\ MaxPoints \in Int
    BY <1>2, <1>8, DebuggerFits DEF Links, Points
  <2>2. MaxPoints - t <= MaxPoints - x
    BY <1>7
  <2>3. QED
    BY <2>1, <2>2
<1>10. l.next[t] \in {0, t}
  <2>1. l.next[t] \in Links /\ t \in Int
    BY <1>8, DebuggerFits DEF Successors, Points
  <2>2. l.next[t] = 0 \/ (l.next[t] >= t /\ l.next[t] <= t)
    BY <1>2, <1>8, <1>9 DEF Ascending
  <2>3. QED
    BY <2>1, <2>2, DebuggerFits DEF Links
<1>11. QED
  BY <1>8, <1>10 DEF Terminal

\* Every point of a list leads to its last point, so that there is only one.
LEMMA TerminalOnly ==
  ASSUME NEW l, Successors(l), NEW h \in Links, NEW t \in Met(l, h), Terminal(l, t),
         NEW x \in Met(l, h) \ {0}
  PROVE  t \in Met(l, x) /\ (Terminal(l, x) => x = t)
<1> DEFINE S == {y \in Met(l, h) : y = 0 \/ t \in Met(l, y)}
<1>1. /\ h \in Met(l, h) /\ Met(l, h) \in SUBSET Links
      /\ \A y \in Met(l, h) \ {0} : y \in Points /\ l.next[y] \in Met(l, h)
  <2>1. \A y \in Links \ {0} : y \in Points
    BY DebuggerFits DEF Points, Links
  <2>2. QED
    BY <2>1, MetIs DEF Closed
<1>2. t \in Points /\ t # 0 /\ l.next[t] \in {0, t} /\ 0 \in Links
  BY DebuggerFits DEF Terminal, Points, Links
<1>3. Met(l, t) \subseteq {0, t}
  <2>1. {0, t} \in SUBSET Links /\ Closed(l, {0, t}) /\ t \in Links
    BY <1>2, DebuggerFits DEF Closed, Points, Links
  <2>2. QED
    BY <2>1, MetIs
<1>4. t \in Met(l, t)
  BY <1>1, MetIs
<1>5. ASSUME NEW y \in S, y # 0
      PROVE  l.next[y] \in S
  <2>1. y \in Points /\ l.next[y] \in Met(l, h) /\ t \in Met(l, y)
    BY <1>1, <1>5
  <2>2. CASE y = t
    BY <1>2, <1>4, <2>1, <2>2
  <2>3. CASE y # t
    <3>1. Met(l, y) = {y} \cup Met(l, l.next[y])
      BY <2>1, MetUnfold
    <3>2. QED
      BY <2>1, <2>3, <3>1
  <2>4. QED
    BY <2>2, <2>3
<1>6. Met(l, h) \subseteq S
  <2>1. S \in SUBSET Links /\ Closed(l, S)
    BY <1>1, <1>5 DEF Closed
  <2>2. h \in S
    <3>1. t \in Met(l, h) /\ h \in Met(l, h)
      BY <1>1
    <3>2. QED
      BY <3>1
  <2>3. QED
    BY <2>1, <2>2, MetIs
<1>7. t \in Met(l, x)
  BY <1>6
<1>8. ASSUME Terminal(l, x)
      PROVE  x = t
  <2>1. {0, x} \in SUBSET Links /\ Closed(l, {0, x}) /\ x \in Links
    BY <1>8, DebuggerFits DEF Closed, Points, Links, Terminal
  <2>2. Met(l, x) \subseteq {0, x}
    BY <2>1, MetIs
  <2>3. QED
    BY <1>2, <1>7, <2>2
<1>9. QED
  BY <1>7, <1>8

\* A list ends exactly if its last point is not its own successor.
LEMMA EndsIs ==
  ASSUME NEW l, Successors(l), NEW h \in Points, NEW t \in Met(l, h), Terminal(l, t)
  PROVE  ListEnds(l, h) <=> l.next[t] = 0
<1>1. h \in Links /\ t \in Points /\ t # 0 /\ l.next[t] \in {0, t}
  BY DebuggerFits DEF Points, Links, Terminal
<1>2. /\ h \in Met(l, h) /\ Met(l, h) \in SUBSET Links
      /\ \A y \in Met(l, h) \ {0} : l.next[y] \in Met(l, h)
  BY <1>1, MetIs DEF Closed
<1>3. l.next[t] = 0 => ListEnds(l, h)
  BY <1>1, <1>2 DEF ListEnds
<1>4. ASSUME l.next[t] = t
      PROVE  ~ListEnds(l, h)
  <2>1. \A y \in Met(l, h) \ {0} : l.next[y] # 0
    <3> SUFFICES ASSUME NEW y \in Met(l, h) \ {0}, l.next[y] = 0 PROVE FALSE
      OBVIOUS
    <3>1. Terminal(l, y)
      BY <1>2, DebuggerFits DEF Terminal, Points, Links
    <3>2. y = t
      BY <1>1, <3>1, TerminalOnly
    <3>3. QED
      BY <1>1, <1>4, <3>2
  <2>2. Closed(l, Met(l, h) \ {0}) /\ Met(l, h) \ {0} \in SUBSET Links /\ h \in Met(l, h) \ {0}
    BY <1>2, <2>1, DebuggerFits DEF Closed, Points
  <2>3. Met(l, h) \subseteq Met(l, h) \ {0}
    BY <1>1, <2>2, MetIs
  <2>4. QED
    BY <2>3 DEF ListEnds
<1>5. QED
  BY <1>1, <1>3, <1>4

(* The lists of the points that are set. *)

WatchOf(ps) == {b \in 1 .. Len(ps) : ps[b].type = "watch"}
OtherOf(ps) == {b \in 1 .. Len(ps) : ps[b].type # "watch"}

\* Point c covers g and the address behind it.
Spans(ps, c, g) == {g, g + 1} \subseteq Covered(ps[c])
\* An older watchpoint covers the last two addresses of b.
Taken(ps, b) ==
  ps[b].size >= 2 /\ \E c \in WatchOf(ps) : c < b /\ Spans(ps, c, ps[b].address + ps[b].size - 2)

Fitting(ps) == ps \in Seq(NewPoints) /\ Len(ps) <= MaxPoints
Tables(l) == l \in [break : [Places -> Links], watch : [Places -> Links], next : [Points -> Links]]
Unset(ps, l) == \A x \in Points : x > Len(ps) => l.next[x] = 0

\* The break and trace points: a list has the points of one address, the younger
\* behind the older, and all of them.
BreakHeads(ps, l) == \A a \in Places : l.break[a] # 0 => l.break[a] \in OtherOf(ps) /\ ps[l.break[a]].address = a
BreakLinks(ps, l) ==
  \A x \in OtherOf(ps) : l.next[x] # 0 => l.next[x] \in OtherOf(ps) /\ l.next[x] > x
                                          /\ ps[l.next[x]].address = ps[x].address
BreakMeets(ps, l) == \A x \in OtherOf(ps) : x \in Met(l, l.break[ps[x].address])

\* The watchpoints: a point is in the list of each address it covers, and leads
\* to itself exactly if its last two addresses were taken.
WatchHeads(ps, l) == \A a \in Places : l.watch[a] # 0 => l.watch[a] \in WatchOf(ps) /\ a \in Covered(ps[l.watch[a]])
WatchLinks(ps, l) == \A x \in WatchOf(ps) : l.next[x] # 0 => l.next[x] \in WatchOf(ps) /\ l.next[x] >= x
WatchMeets(ps, l) == \A x \in WatchOf(ps), a \in Places : a \in Covered(ps[x]) => x \in Met(l, l.watch[a])
WatchCircles(ps, l) == \A x \in WatchOf(ps) : l.next[x] = x <=> Taken(ps, x)
\* No list leads across a gap that no watchpoint spans.
WatchSides(ps, l) ==
  \A g \in Places : (\A c \in WatchOf(ps) : ~Spans(ps, c, g)) =>
    \A x \in WatchOf(ps) : l.next[x] # 0 => (ps[x].address <= g <=> ps[l.next[x]].address <= g)

BreakLists(ps, l) == BreakHeads(ps, l) /\ BreakLinks(ps, l) /\ BreakMeets(ps, l)
WatchLists(ps, l) == WatchHeads(ps, l) /\ WatchLinks(ps, l) /\ WatchMeets(ps, l) /\ WatchCircles(ps, l) /\ WatchSides(ps, l)
ListsSound(ps, l) == Fitting(ps) /\ Tables(l) /\ Unset(ps, l) /\ BreakLists(ps, l) /\ WatchLists(ps, l)

Modes == {"run", "step", "next", "until"}
Returns == {"ok", "interrupt", "break", "error", "raise"}
DebuggerTyped ==
  /\ mach \in [pc : Places, stack : Seq(Places)]
  /\ flag \in [interrupt : BOOLEAN, break : BOOLEAN]
  /\ run \in [mode : Modes, arg : Int, inner : BOOLEAN, ret : Returns, going : BOOLEAN]
  /\ owed \in BOOLEAN
  /\ prompt \in {"prompt", "more", "call", "hung", "closed"}

DebuggerIInv ==
  /\ DebuggerTyped
  /\ prompt = "hung" => ~run.going
  /\ flag.break => owed
  /\ prompt # "hung" => ListsSound(points, lists)
\* Every point that is set is a watchpoint or another, and never both.
LEMMA OfPoints ==
  ASSUME NEW ps, Fitting(ps)
  PROVE  /\ Len(ps) \in Nat /\ Len(ps) <= MaxPoints
         /\ \A x \in 1 .. Len(ps) : x \in Points /\ ps[x] \in NewPoints
         /\ \A x \in 1 .. Len(ps) : x \in WatchOf(ps) \/ x \in OtherOf(ps)
         /\ \A x \in WatchOf(ps) : x \in 1 .. Len(ps) /\ x \in Points /\ x \notin OtherOf(ps)
         /\ \A x \in OtherOf(ps) : x \in 1 .. Len(ps) /\ x \in Points /\ x \notin WatchOf(ps)
<1>1. ps \in Seq(NewPoints) /\ Len(ps) <= MaxPoints /\ MaxPoints \in Nat
  BY DebuggerFits DEF Fitting
<1>2. Len(ps) \in Nat /\ \A x \in 1 .. Len(ps) : ps[x] \in NewPoints
  BY <1>1
<1>3. \A x \in 1 .. Len(ps) : x \in Points
  BY <1>1, <1>2 DEF Points
<1>4. QED
  BY <1>1, <1>2, <1>3 DEF WatchOf, OtherOf

\* What a point of NewPoints looks like.
LEMMA APoint ==
  ASSUME NEW p \in NewPoints
  PROVE  /\ p.type \in {"break", "trace", "watch"} /\ p.address \in Nat /\ p.address \in Places
         /\ p.size \in Nat /\ p.size >= 1
         /\ Covered(p) \subseteq Places
         /\ \A a : a \in Covered(p) <=> a \in Nat /\ p.address <= a /\ a < p.address + p.size
<1>1. p \in [type : {"break", "trace", "watch"}, address : Places, size : Nat \ {0}, condition : BOOLEAN]
  BY DebuggerFits
<1>2. Covered(p) \subseteq Places /\ \A a \in Places : a \in Nat
  BY DebuggerFits
<1>3. p.address \in Nat /\ p.size \in Nat /\ p.size >= 1
  BY <1>1, <1>2
<1>4. \A a : a \in Covered(p) <=> a \in Nat /\ p.address <= a /\ a < p.address + p.size
  BY <1>3 DEF Covered
<1>5. QED
  BY <1>1, <1>2, <1>3, <1>4

LEMMA TheTables ==
  ASSUME NEW l, Tables(l)
  PROVE  /\ Successors(l) /\ l.next \in [Points -> Links]
         /\ l.break \in [Places -> Links] /\ l.watch \in [Places -> Links]
         /\ \A a \in Places : l.break[a] \in Links /\ l.watch[a] \in Links
         /\ \A x \in Links : x # 0 => x \in Points
         /\ 0 \in Links /\ 0 \notin Points
BY DebuggerFits DEF Tables, Successors, Points, Links

\* In sound tables no link leads to an older point.
LEMMA SoundRising ==
  ASSUME NEW ps, NEW l, ListsSound(ps, l)
  PROVE  Ascending(l)
<1>1. Fitting(ps) /\ Tables(l) /\ Unset(ps, l) /\ BreakLinks(ps, l) /\ WatchLinks(ps, l)
  BY DEF ListsSound, BreakLists, WatchLists
<1>2. SUFFICES ASSUME NEW x \in Points PROVE l.next[x] = 0 \/ l.next[x] >= x
  BY DEF Ascending
<1>3. Len(ps) \in Nat /\ x \in Nat /\ x >= 1 /\ l.next[x] \in Nat
  BY <1>1, OfPoints, DebuggerFits DEF Tables, Points, Links
<1>4. CASE x > Len(ps)
  BY <1>1, <1>4 DEF Unset
<1>5. CASE x \in WatchOf(ps)
  BY <1>1, <1>5 DEF WatchLinks
<1>6. CASE x \in OtherOf(ps)
  BY <1>1, <1>3, <1>6 DEF BreakLinks
<1>7. QED
  BY <1>1, <1>3, <1>4, <1>5, <1>6, OfPoints

\* Whom the list of an address leads to.
LEMMA BreakMet ==
  ASSUME NEW ps, NEW l, Fitting(ps), Tables(l), BreakHeads(ps, l), BreakLinks(ps, l), NEW a \in Places
  PROVE  Met(l, l.break[a]) \subseteq {0} \cup {x \in OtherOf(ps) : ps[x].address = a}
<1> DEFINE S == {0} \cup {x \in OtherOf(ps) : ps[x].address = a}
<1>1. S \in SUBSET Links
  <2>1. \A x \in OtherOf(ps) : x \in Points
    BY OfPoints
  <2>2. Points \subseteq Links /\ 0 \in Links
    BY DebuggerFits DEF Points, Links
  <2>3. QED
    BY <2>1, <2>2
<1>2. l.break[a] \in S /\ l.break[a] \in Links
  BY TheTables DEF BreakHeads
<1>3. Closed(l, S)
  BY DEF Closed, BreakLinks
<1>4. QED
  BY <1>1, <1>2, <1>3, MetIs, TheTables

\* The lists of watchpoints meet watchpoints alone.
LEMMA WatchMet ==
  ASSUME NEW ps, NEW l, Fitting(ps), Tables(l), WatchHeads(ps, l), WatchLinks(ps, l), NEW a \in Places
  PROVE  Met(l, l.watch[a]) \subseteq {0} \cup WatchOf(ps)
<1> DEFINE S == {0} \cup WatchOf(ps)
<1>1. S \in SUBSET Links
  <2>1. \A x \in WatchOf(ps) : x \in Points
    BY OfPoints
  <2>2. Points \subseteq Links /\ 0 \in Links
    BY DebuggerFits DEF Points, Links
  <2>3. QED
    BY <2>1, <2>2
<1>2. l.watch[a] \in S /\ l.watch[a] \in Links
  BY TheTables DEF WatchHeads
<1>3. Closed(l, S)
  BY DEF Closed, WatchLinks
<1>4. QED
  BY <1>1, <1>2, <1>3, MetIs, TheTables

\* Every list of breakpoints ends,
LEMMA BreaksEnd ==
  ASSUME NEW ps, NEW l, ListsSound(ps, l), NEW a \in Places
  PROVE  ListEnds(l, l.break[a])
<1>1. /\ Fitting(ps) /\ Tables(l) /\ BreakHeads(ps, l) /\ BreakLinks(ps, l)
      /\ Successors(l) /\ Ascending(l) /\ l.break[a] \in Links
  BY SoundRising, TheTables DEF ListsSound, BreakLists
<1>2. CASE l.break[a] = 0
  BY <1>1, <1>2, MetNull DEF ListEnds
<1>3. CASE l.break[a] # 0
  <2>1. l.break[a] \in Points
    BY <1>1, <1>3, TheTables
  <2>2. PICK t \in Met(l, l.break[a]) : Terminal(l, t)
    BY <1>1, <2>1, TerminalMet
  <2>3. t \in OtherOf(ps) /\ t \in Nat /\ l.next[t] \in {0, t}
    BY <1>1, <2>2, BreakMet, DebuggerFits DEF Terminal, Points
  <2>4. l.next[t] = 0
    BY <1>1, <2>3 DEF BreakLinks
  <2>5. QED
    BY <1>1, <2>1, <2>2, <2>4, EndsIs
<1>4. QED
  BY <1>2, <1>3

\* and a list of watchpoints ends unless it meets one whose last two addresses were taken.
LEMMA WatchesEnd ==
  ASSUME NEW ps, NEW l, ListsSound(ps, l), NEW a \in Places
  PROVE  ~ListEnds(l, l.watch[a]) <=> \E b \in WatchOf(ps) : b \in Met(l, l.watch[a]) /\ Taken(ps, b)
<1>1. /\ Fitting(ps) /\ Tables(l) /\ WatchHeads(ps, l) /\ WatchLinks(ps, l) /\ WatchCircles(ps, l)
      /\ Successors(l) /\ Ascending(l) /\ l.watch[a] \in Links
  BY SoundRising, TheTables DEF ListsSound, WatchLists
<1>2. CASE l.watch[a] = 0
  <2>1. Met(l, l.watch[a]) = {0}
    BY <1>1, <1>2, MetNull
  <2>2. \A b \in WatchOf(ps) : b # 0
    BY <1>1, OfPoints, DebuggerFits DEF Points
  <2>3. QED
    BY <2>1, <2>2 DEF ListEnds
<1>3. CASE l.watch[a] # 0
  <2>1. l.watch[a] \in Points
    BY <1>1, <1>3, TheTables
  <2>2. PICK t \in Met(l, l.watch[a]) : Terminal(l, t)
    BY <1>1, <2>1, TerminalMet
  <2>3. ListEnds(l, l.watch[a]) <=> l.next[t] = 0
    BY <1>1, <2>1, <2>2, EndsIs
  <2>4. t \in WatchOf(ps) /\ t # 0 /\ l.next[t] \in {0, t}
    <3>1. t # 0 /\ l.next[t] \in {0, t}
      BY <2>2, DebuggerFits DEF Terminal, Points
    <3>2. QED
      BY <1>1, <2>2, <3>1, WatchMet
  <2>5. ASSUME NEW b \in WatchOf(ps), b \in Met(l, l.watch[a]), Taken(ps, b)
        PROVE  l.next[t] # 0
    <3>1. b \in Points /\ b # 0 /\ l.next[b] = b
      BY <1>1, <2>5, OfPoints, DebuggerFits DEF WatchCircles, Points
    <3>2. Terminal(l, b)
      BY <3>1 DEF Terminal
    <3>3. b = t
      BY <1>1, <2>2, <2>5, <3>1, <3>2, TerminalOnly
    <3>4. QED
      BY <3>1, <3>3
  <2>6. ASSUME l.next[t] # 0
        PROVE  Taken(ps, t)
    BY <1>1, <2>4, <2>6 DEF WatchCircles
  <2>7. QED
    BY <2>2, <2>3, <2>4, <2>5, <2>6
<1>4. QED
  BY <1>2, <1>3
\* What the invariant says of the lists is what DebuggerListsEnd says.
LEMMA ListsAre ==
  ASSUME ListsSound(points, lists)
  PROVE  /\ \A b \in OfType({"break", "trace"}) : b \in Met(lists, lists.break[points[b].address])
         /\ \A a \in Places : ListEnds(lists, lists.break[a])
         /\ \A b \in OfType({"watch"}), a \in Places : a \in Covered(points[b]) => b \in Met(lists, lists.watch[a])
         /\ \A a \in Places : lists.watch[a] # 0 => \E b \in OfType({"watch"}) : a \in Covered(points[b])
         /\ \A a \in Places :
              ~ListEnds(lists, lists.watch[a]) <=>
                \E b \in OfType({"watch"}) : b \in Met(lists, lists.watch[a]) /\ LastTwoTaken(b)
<1>1. /\ Fitting(points) /\ Tables(lists) /\ BreakMeets(points, lists)
      /\ WatchMeets(points, lists) /\ WatchHeads(points, lists)
  BY DEF ListsSound, BreakLists, WatchLists
<1>2. OfType({"watch"}) = WatchOf(points)
  BY DEF OfType, WatchOf
<1>3. OfType({"break", "trace"}) = OtherOf(points)
  <2>1. \A b \in 1 .. Len(points) : points[b].type \in {"break", "trace", "watch"}
    BY <1>1, OfPoints, APoint
  <2>2. QED
    BY <2>1 DEF OfType, OtherOf
<1>4. ASSUME NEW b \in WatchOf(points)
      PROVE  Taken(points, b) <=> LastTwoTaken(b)
  <2>1. points[b] \in NewPoints
    BY <1>1, OfPoints
  <2>2. points[b].address \in Nat /\ points[b].size \in Nat
    BY <2>1, APoint
  <2>3. LastByte(b) - 1 = points[b].address + points[b].size - 2 /\ LastByte(b) = points[b].address + points[b].size - 2 + 1
    BY <2>2 DEF LastByte
  <2>4. \A c : {LastByte(b) - 1, LastByte(b)} \subseteq Covered(points[c])
                 <=> Spans(points, c, points[b].address + points[b].size - 2)
    BY <2>3 DEF Spans
  <2>5. QED
    BY <1>2, <2>4 DEF Taken, LastTwoTaken
<1>5. QED
  <2>1. \A a \in Places : ListEnds(lists, lists.break[a])
    BY BreaksEnd
  <2>2. \A a \in Places : ~ListEnds(lists, lists.watch[a])
          <=> \E b \in WatchOf(points) : b \in Met(lists, lists.watch[a]) /\ Taken(points, b)
    BY WatchesEnd
  <2>3. \A b \in OtherOf(points) : b \in Met(lists, lists.break[points[b].address])
    BY <1>1 DEF BreakMeets
  <2>4. \A b \in WatchOf(points), a \in Places : a \in Covered(points[b]) => b \in Met(lists, lists.watch[a])
    BY <1>1 DEF WatchMeets
  <2>5. \A a \in Places : lists.watch[a] # 0 => \E b \in WatchOf(points) : a \in Covered(points[b])
    BY <1>1 DEF WatchHeads
  <2>6. QED
    BY <1>2, <1>3, <1>4, <2>1, <2>2, <2>3, <2>4, <2>5

(* Setting a point. *)

\* A list loses nothing when points that had no successor get one.
LEMMA MetGrows ==
  ASSUME NEW l, Successors(l), NEW m, Successors(m), NEW h \in Links,
         \A x \in Points : m.next[x] = l.next[x] \/ l.next[x] = 0
  PROVE  Met(l, h) \subseteq {0} \cup Met(m, h)
<1>1. h \in Met(m, h) /\ Met(m, h) \in SUBSET Links /\ Closed(m, Met(m, h))
  BY MetIs
<1>2. {0} \cup Met(m, h) \in SUBSET Links /\ \A x \in Links : x # 0 => x \in Points
  BY <1>1, DebuggerFits DEF Links, Points
<1>3. Closed(l, {0} \cup Met(m, h))
  BY <1>1, <1>2 DEF Closed
<1>4. QED
  BY <1>1, <1>2, <1>3, MetIs

Cut(l, b) == [l EXCEPT !.next[b] = 0]

\* A new point has no successor.
LEMMA CutIs ==
  ASSUME NEW l, Tables(l), NEW b \in Points
  PROVE  /\ Tables(Cut(l, b)) /\ Cut(l, b).break = l.break /\ Cut(l, b).watch = l.watch
         /\ Cut(l, b).next = [l.next EXCEPT ![b] = 0]
<1>1. 0 \in Links
  BY DebuggerFits DEF Links
<1>2. PICK c : c = [l.next EXCEPT ![b] = 0]
  OBVIOUS
<1>3. c \in [Points -> Links]
  BY <1>1, <1>2 DEF Tables
<1>4. Cut(l, b) = [l EXCEPT !.next = c]
  BY <1>2 DEF Cut
<1>5. QED
  BY <1>2, <1>3, <1>4 DEF Tables

\* Linked, when the list of the address is empty and when t is its last point.
FirstOf(l, table, a) == table \in {"break", "watch"} /\ l[table][a] = 0

HeadSet(l, table, b, a, m) ==
  /\ Tables(m) /\ m.next = [l.next EXCEPT ![b] = 0]
  /\ table = "break" => m.break = [l.break EXCEPT ![a] = b] /\ m.watch = l.watch
  /\ table = "watch" => m.watch = [l.watch EXCEPT ![a] = b] /\ m.break = l.break

\* What linking a point does where its list is empty,
LEMMA LinkedFirst ==
  ASSUME NEW l, Tables(l), NEW b \in Points, NEW a \in Places, NEW table, FirstOf(l, table, a),
         NEW m, m = Linked(l, table, b, a)
  PROVE  HeadSet(l, table, b, a, m)
<1> USE DEF FirstOf, HeadSet
<1>1. PICK c : c = Cut(l, b)
  OBVIOUS
<1>2. Tables(c) /\ c.break = l.break /\ c.watch = l.watch /\ c.next = [l.next EXCEPT ![b] = 0]
  BY <1>1, CutIs
<1>3. m = [c EXCEPT ![table][a] = b]
  BY <1>1 DEF Linked, Cut
<1>4. b \in Links
  BY DebuggerFits DEF Points, Links
<1>5. CASE table = "break"
  <2>1. PICK f : f = [c.break EXCEPT ![a] = b]
    OBVIOUS
  <2>2. f \in [Places -> Links]
    BY <1>2, <1>4, <2>1 DEF Tables
  <2>3. m = [c EXCEPT !.break = f]
    BY <1>3, <1>5, <2>1
  <2>4. QED
    BY <1>2, <1>5, <2>1, <2>2, <2>3 DEF Tables
<1>6. CASE table = "watch"
  <2>1. PICK f : f = [c.watch EXCEPT ![a] = b]
    OBVIOUS
  <2>2. f \in [Places -> Links]
    BY <1>2, <1>4, <2>1 DEF Tables
  <2>3. m = [c EXCEPT !.watch = f]
    BY <1>3, <1>6, <2>1
  <2>4. QED
    BY <1>2, <1>6, <2>1, <2>2, <2>3 DEF Tables
<1>7. QED
  BY <1>5, <1>6

LastOf(l, table, b, a, t) ==
  /\ table \in {"break", "watch"} /\ l[table][a] # 0
  /\ t \in Met(Cut(l, b), l[table][a]) /\ Cut(l, b).next[t] = 0
  /\ \A x \in Met(Cut(l, b), l[table][a]) : x # 0 /\ Cut(l, b).next[x] = 0 => x = t
LinkSet(l, b, t, m) ==
  Tables(m) /\ m.next = [[l.next EXCEPT ![b] = 0] EXCEPT ![t] = b] /\ m.break = l.break /\ m.watch = l.watch

\* and where the list has a last point.
LEMMA LinkedBehind ==
  ASSUME NEW l, Tables(l), NEW b \in Points, NEW a \in Places, NEW table, NEW t \in Points,
         LastOf(l, table, b, a, t), NEW m, m = Linked(l, table, b, a)
  PROVE  LinkSet(l, b, t, m)
<1> USE DEF LastOf, LinkSet
<1>1. PICK c : c = Cut(l, b)
  OBVIOUS
<1>2. Tables(c) /\ c.break = l.break /\ c.watch = l.watch /\ c.next = [l.next EXCEPT ![b] = 0]
  BY <1>1, CutIs
<1>3. b \in Links /\ t # 0
  BY DebuggerFits DEF Points, Links
<1>4. t = CHOOSE x \in Met(c, l[table][a]) : x # 0 /\ c.next[x] = 0
  BY <1>1, <1>3
<1>5. m = [c EXCEPT !.next[t] = b]
  BY <1>1, <1>4 DEF Linked, Cut
<1>6. PICK f : f = [c.next EXCEPT ![t] = b]
  OBVIOUS
<1>7. f \in [Points -> Links]
  BY <1>2, <1>3, <1>6 DEF Tables
<1>8. m = [c EXCEPT !.next = f]
  BY <1>5, <1>6
<1>9. QED
  BY <1>2, <1>6, <1>7, <1>8 DEF Tables
\* Point b is set behind the others.
Behindmost(ps, b) == b = Len(ps) + 1
Sets(ps, p, qs, b) == p \in NewPoints /\ Len(ps) < MaxPoints /\ qs = Append(ps, p) /\ b = Len(ps) + 1

\* A new point is the last one and changes nothing of the others.
LEMMA Appended ==
  ASSUME NEW ps, Fitting(ps), NEW p, NEW qs, NEW b, Sets(ps, p, qs, b)
  PROVE  /\ Fitting(qs) /\ Len(qs) = b /\ b \in Points /\ b # 0
         /\ qs[b] = p /\ \A x \in 1 .. Len(ps) : qs[x] = ps[x] /\ x < b
         /\ p.type = "watch" => WatchOf(qs) = WatchOf(ps) \cup {b} /\ OtherOf(qs) = OtherOf(ps)
         /\ p.type # "watch" => WatchOf(qs) = WatchOf(ps) /\ OtherOf(qs) = OtherOf(ps) \cup {b}
         /\ \A x \in 1 .. Len(ps) : Taken(qs, x) <=> Taken(ps, x)
         /\ \A x \in 1 .. Len(ps) : \A g : Spans(qs, x, g) <=> Spans(ps, x, g)
<1> USE DEF Sets
<1>1. ps \in Seq(NewPoints) /\ Len(ps) \in Nat /\ MaxPoints \in Nat
  BY DebuggerFits DEF Fitting
<1>2. Len(qs) = b /\ qs \in Seq(NewPoints) /\ Fitting(qs)
  BY <1>1 DEF Fitting
<1>3. b \in Points /\ b # 0
  BY <1>1 DEF Points
<1>4. qs[b] = p /\ \A x \in 1 .. Len(ps) : qs[x] = ps[x]
  BY <1>1
<1>5. \A x \in 1 .. b : x = b \/ (x \in 1 .. Len(ps) /\ x < b)
  BY <1>1
<1>6. \A x \in 1 .. Len(ps) : x \in 1 .. b /\ x < b /\ x # b
  BY <1>1
<1>7. b \in 1 .. b
  BY <1>1
<1>8. WatchOf(qs) = IF p.type = "watch" THEN WatchOf(ps) \cup {b} ELSE WatchOf(ps)
  BY <1>2, <1>4, <1>5, <1>6, <1>7, Zenon DEF WatchOf
<1>9. OtherOf(qs) = IF p.type = "watch" THEN OtherOf(ps) ELSE OtherOf(ps) \cup {b}
  BY <1>2, <1>4, <1>5, <1>6, <1>7, Zenon DEF OtherOf
<1>10. \A x \in 1 .. Len(ps) : \A g : Spans(qs, x, g) <=> Spans(ps, x, g)
  BY <1>4 DEF Spans
<1>11. ASSUME NEW x \in 1 .. Len(ps)
       PROVE  Taken(qs, x) <=> Taken(ps, x)
  <2>1. \A c : c \in WatchOf(qs) /\ c < x <=> c \in WatchOf(ps) /\ c < x
    <3>1. ~(b < x) /\ b \notin 1 .. Len(ps)
      BY <1>1
    <3>2. \A c \in WatchOf(ps) : c \in 1 .. Len(ps)
      BY DEF WatchOf
    <3>3. QED
      BY <1>8, <3>1, <3>2
  <2>2. \A c \in WatchOf(ps) : c \in 1 .. Len(ps)
    BY DEF WatchOf
  <2>3. qs[x] = ps[x]
    BY <1>4
  <2>4. QED
    BY <1>10, <2>1, <2>2, <2>3 DEF Taken
<1>12. QED
  BY <1>2, <1>3, <1>4, <1>6, <1>8, <1>9, <1>10, <1>11

\* Where a break or trace point goes.
LEMMA BreakPlaced ==
  ASSUME NEW ps, NEW l, ListsSound(ps, l), NEW b \in Points, Behindmost(ps, b), NEW a \in Places,
         NEW m, m = Linked(l, "break", b, a)
  PROVE  /\ Tables(m) /\ m.watch = l.watch /\ m.next[b] = 0 /\ l.next[b] = 0
         /\ \A c \in Places : m.break[c] = l.break[c] \/ (c = a /\ l.break[c] = 0 /\ m.break[c] = b)
         /\ \A x \in Points : \/ m.next[x] = l.next[x]
                              \/ l.next[x] = 0 /\ m.next[x] = b /\ x \in OtherOf(ps) /\ ps[x].address = a
         /\ b \in Met(m, m.break[a])
<1>1. /\ Fitting(ps) /\ Tables(l) /\ Unset(ps, l) /\ BreakHeads(ps, l) /\ BreakLinks(ps, l)
      /\ Ascending(l) /\ Successors(l)
  BY SoundRising, TheTables DEF ListsSound, BreakLists
<1>2. l.next[b] = 0
  <2>1. Len(ps) \in Nat /\ b = Len(ps) + 1
    BY <1>1, OfPoints DEF Behindmost
  <2>2. b > Len(ps)
    BY <2>1
  <2>3. QED
    BY <1>1, <2>2 DEF Unset
<1>3. Cut(l, b) = l
  <2>1. PICK c : c = Cut(l, b)
    OBVIOUS
  <2>2. Tables(c) /\ c.break = l.break /\ c.watch = l.watch /\ c.next = [l.next EXCEPT ![b] = 0]
    BY <1>1, <2>1, CutIs
  <2>3. c.next = l.next
    BY <1>1, <1>2, <2>2 DEF Tables
  <2>4. /\ c = [break |-> c.break, watch |-> c.watch, next |-> c.next]
        /\ l = [break |-> l.break, watch |-> l.watch, next |-> l.next]
    BY <1>1, <2>2 DEF Tables
  <2>5. QED
    BY <2>1, <2>2, <2>3, <2>4
<1>4. Tables(l) /\ l["break"] = l.break /\ l.break \in [Places -> Links] /\ l.next \in [Points -> Links] /\ 0 \notin Points
  BY <1>1, TheTables
<1>5. CASE l.break[a] = 0
  <2>1. /\ Tables(m) /\ m.next = [l.next EXCEPT ![b] = 0] /\ m.break = [l.break EXCEPT ![a] = b]
        /\ m.watch = l.watch
    <3>1. FirstOf(l, "break", a)
      BY <1>4, <1>5 DEF FirstOf
    <3>2. Tables(l)
      BY <1>1
    <3>3. HeadSet(l, "break", b, a, m)
      BY <3>1, <3>2, LinkedFirst
    <3>4. QED
      BY <3>3 DEF HeadSet
  <2>2. b \in Links /\ m.break[a] = b /\ b \in Met(m, b)
    <3>1. b \in Links /\ m.break[a] = b
      BY <1>4, <2>1, DebuggerFits DEF Points, Links
    <3>2. QED
      BY <2>1, <3>1, MetIs, TheTables
  <2>3. QED
    BY <1>2, <1>4, <1>5, <2>1, <2>2
<1>6. CASE l.break[a] # 0
  <2>1. l.break[a] \in Points /\ l.break[a] \in Links
    BY <1>1, <1>6, TheTables
  <2>2. PICK t \in Met(l, l.break[a]) : Terminal(l, t)
    BY <1>1, <2>1, TerminalMet
  <2>3. ListEnds(l, l.break[a])
    BY BreaksEnd
  <2>4. l.next[t] = 0 /\ t \in Points /\ t # 0
    BY <1>1, <1>4, <2>1, <2>2, <2>3, EndsIs DEF Terminal
  <2>5. t \in OtherOf(ps) /\ ps[t].address = a
    BY <1>1, <2>2, <2>4, BreakMet
  <2>6. \A x \in Met(l, l.break[a]) : x # 0 /\ l.next[x] = 0 => x = t
    <3> SUFFICES ASSUME NEW x \in Met(l, l.break[a]), x # 0, l.next[x] = 0 PROVE x = t
      OBVIOUS
    <3>1. x \in Points
      BY <1>1, <2>1, MetIs, TheTables
    <3>2. QED
      BY <1>1, <2>1, <2>2, <3>1, TerminalOnly DEF Terminal
  <2>7. /\ Tables(m) /\ m.next = [[l.next EXCEPT ![b] = 0] EXCEPT ![t] = b]
        /\ m.break = l.break /\ m.watch = l.watch
    <3>1. LastOf(l, "break", b, a, t)
      BY <1>3, <1>4, <1>6, <2>2, <2>4, <2>6 DEF LastOf
    <3>2. LinkSet(l, b, t, m)
      BY <1>1, <2>4, <3>1, LinkedBehind
    <3>3. QED
      BY <3>2 DEF LinkSet
  <2>8. t # b /\ t < b
    <3>1. Len(ps) \in Nat /\ t \in 1 .. Len(ps) /\ b = Len(ps) + 1
      BY <1>1, <2>5, OfPoints DEF Behindmost
    <3>2. QED
      BY <3>1
  <2>9. m.next[t] = b /\ m.next[b] = 0 /\ \A x \in Points : x # t => m.next[x] = l.next[x]
    BY <1>2, <1>4, <2>4, <2>7, <2>8
  <2>10. b \in Met(m, m.break[a])
    <3>1. Successors(m)
      BY <2>7, TheTables
    <3>2. Met(l, l.break[a]) \subseteq {0} \cup Met(m, l.break[a])
      BY <1>1, <2>1, <2>4, <2>9, <3>1, MetGrows
    <3>3. t \in Met(m, l.break[a])
      BY <2>2, <2>4, <3>2
    <3>4. Closed(m, Met(m, l.break[a]))
      BY <2>1, <3>1, MetIs
    <3>5. QED
      BY <2>4, <2>7, <2>9, <3>3, <3>4 DEF Closed
  <2>11. QED
    BY <1>2, <2>4, <2>5, <2>7, <2>9, <2>10
<1>7. QED
  BY <1>5, <1>6

\* Setting a breakpoint or a trace point keeps the tables sound.
LEMMA BreakSet ==
  ASSUME NEW ps, NEW l, ListsSound(ps, l), NEW p \in NewPoints, p.type # "watch",
         NEW qs, NEW b, Sets(ps, p, qs, b), NEW m, m = Linked(l, "break", b, p.address)
  PROVE  ListsSound(qs, m)
<1>1. /\ Fitting(ps) /\ Tables(l) /\ Unset(ps, l) /\ BreakHeads(ps, l) /\ BreakLinks(ps, l) /\ BreakMeets(ps, l)
      /\ WatchHeads(ps, l) /\ WatchLinks(ps, l) /\ WatchMeets(ps, l) /\ WatchCircles(ps, l) /\ WatchSides(ps, l)
      /\ Successors(l)
  BY TheTables DEF ListsSound, BreakLists, WatchLists
<1>2. /\ Fitting(qs) /\ Len(qs) = b /\ b \in Points /\ b # 0
      /\ qs[b] = p /\ \A x \in 1 .. Len(ps) : qs[x] = ps[x] /\ x < b
      /\ WatchOf(qs) = WatchOf(ps) /\ OtherOf(qs) = OtherOf(ps) \cup {b}
      /\ \A x \in 1 .. Len(ps) : Taken(qs, x) <=> Taken(ps, x)
      /\ \A x \in 1 .. Len(ps) : \A g : Spans(qs, x, g) <=> Spans(ps, x, g)
  BY <1>1, Appended
<1>3. p.address \in Places
  BY APoint
<1>4. /\ Tables(m) /\ m.watch = l.watch /\ m.next[b] = 0 /\ l.next[b] = 0
      /\ \A c \in Places : m.break[c] = l.break[c] \/ (c = p.address /\ l.break[c] = 0 /\ m.break[c] = b)
      /\ \A x \in Points : \/ m.next[x] = l.next[x]
                           \/ l.next[x] = 0 /\ m.next[x] = b /\ x \in OtherOf(ps) /\ ps[x].address = p.address
      /\ b \in Met(m, m.break[p.address])
  <2>1. Behindmost(ps, b)
    BY DEF Sets, Behindmost
  <2>2. QED
    BY <1>2, <1>3, <2>1, BreakPlaced
<1>5. \A x \in WatchOf(ps) : x \in 1 .. Len(ps) /\ x \in Points /\ m.next[x] = l.next[x]
  BY <1>1, <1>4, OfPoints
<1>6. \A x \in OtherOf(ps) : x \in 1 .. Len(ps) /\ x \in Points
  BY <1>1, OfPoints
<1>7. Successors(m) /\ 0 \notin Points /\ 0 \in Links
  BY <1>4, TheTables
<1>8. ASSUME NEW h \in Links
      PROVE  Met(l, h) \subseteq {0} \cup Met(m, h)
  BY <1>1, <1>4, <1>7, MetGrows
<1>9. Unset(qs, m)
  <2> SUFFICES ASSUME NEW x \in Points, x > b PROVE m.next[x] = 0
    BY <1>2 DEF Unset
  <2>1. Len(ps) \in Nat /\ x > Len(ps)
    BY <1>1, OfPoints DEF Points, Sets
  <2>2. x \notin OtherOf(ps)
    BY <1>6, <2>1
  <2>3. QED
    BY <1>1, <1>4, <2>1, <2>2 DEF Unset
<1>10. BreakHeads(qs, m)
  BY <1>1, <1>2, <1>4, <1>6 DEF BreakHeads
<1>11. BreakLinks(qs, m)
  <2> SUFFICES ASSUME NEW x \in OtherOf(qs), m.next[x] # 0
               PROVE  m.next[x] \in OtherOf(qs) /\ m.next[x] > x /\ qs[m.next[x]].address = qs[x].address
    BY DEF BreakLinks
  <2>1. x \in OtherOf(ps) /\ x \in Points /\ qs[x] = ps[x] /\ b > x
    <3>1. x \in OtherOf(ps)
      BY <1>2, <1>4
    <3>2. x \in 1 .. Len(ps) /\ Len(ps) \in Nat
      BY <1>1, <1>6, <3>1, OfPoints
    <3>3. QED
      BY <1>2, <1>6, <3>1, <3>2
  <2>2. CASE m.next[x] = l.next[x]
    <3>1. l.next[x] \in OtherOf(ps) /\ l.next[x] > x /\ ps[l.next[x]].address = ps[x].address
      BY <1>1, <2>1, <2>2 DEF BreakLinks
    <3>2. qs[l.next[x]] = ps[l.next[x]]
      BY <1>2, <1>6, <3>1
    <3>3. QED
      BY <1>2, <2>1, <2>2, <3>1, <3>2
  <2>3. CASE m.next[x] # l.next[x]
    <3>1. m.next[x] = b /\ ps[x].address = p.address
      BY <1>4, <2>1, <2>3
    <3>2. QED
      BY <1>2, <2>1, <3>1
  <2>4. QED
    BY <2>2, <2>3
<1>12. BreakMeets(qs, m)
  <2> SUFFICES ASSUME NEW x \in OtherOf(qs) PROVE x \in Met(m, m.break[qs[x].address])
    BY DEF BreakMeets
  <2>1. CASE x = b
    BY <1>2, <1>4, <2>1
  <2>2. CASE x # b
    <3>1. x \in OtherOf(ps) /\ qs[x] = ps[x] /\ x \in Points /\ ps[x] \in NewPoints
      BY <1>1, <1>2, <1>6, <2>2, OfPoints
    <3> DEFINE a == ps[x].address
    <3>2. a \in Places /\ x \in Met(l, l.break[a]) /\ l.break[a] \in Links
      BY <1>1, <3>1, APoint, TheTables DEF BreakMeets
    <3>3. l.break[a] # 0
      BY <1>1, <1>7, <3>1, <3>2, MetNull
    <3>4. m.break[a] = l.break[a]
      BY <1>4, <3>2, <3>3
    <3>5. QED
      BY <1>7, <1>8, <3>1, <3>2, <3>4
  <2>3. QED
    BY <2>1, <2>2
<1>13. WatchHeads(qs, m)
  BY <1>1, <1>2, <1>4, <1>5 DEF WatchHeads
<1>14. WatchLinks(qs, m)
  BY <1>1, <1>2, <1>5 DEF WatchLinks
<1>15. WatchMeets(qs, m)
  <2> SUFFICES ASSUME NEW x \in WatchOf(ps), NEW a \in Places, a \in Covered(ps[x])
               PROVE  x \in Met(m, l.watch[a])
    BY <1>2, <1>4, <1>5 DEF WatchMeets
  <2>1. x \in Met(l, l.watch[a]) /\ l.watch[a] \in Links /\ x # 0
    BY <1>1, <1>5, <1>7, TheTables DEF WatchMeets
  <2>2. QED
    BY <1>8, <2>1
<1>16. WatchCircles(qs, m)
  BY <1>1, <1>2, <1>5 DEF WatchCircles
<1>17. WatchSides(qs, m)
  <2> SUFFICES ASSUME NEW g \in Places, \A c \in WatchOf(qs) : ~Spans(qs, c, g),
                      NEW x \in WatchOf(qs), m.next[x] # 0
               PROVE  qs[x].address <= g <=> qs[m.next[x]].address <= g
    BY DEF WatchSides
  <2>1. x \in WatchOf(ps) /\ \A c \in WatchOf(ps) : ~Spans(ps, c, g)
    BY <1>2, <1>5
  <2>2. m.next[x] = l.next[x] /\ l.next[x] \in WatchOf(ps)
    BY <1>1, <1>5, <2>1 DEF WatchLinks
  <2>3. qs[x] = ps[x] /\ qs[m.next[x]] = ps[l.next[x]]
    BY <1>2, <1>5, <2>1, <2>2
  <2>4. QED
    BY <1>1, <2>1, <2>2, <2>3 DEF WatchSides
<1>18. QED
  BY <1>2, <1>4, <1>9, <1>10, <1>11, <1>12, <1>13, <1>14, <1>15, <1>16, <1>17 DEF ListsSound, BreakLists, WatchLists
\* The points of a list are on the same side as its address of a gap that no
\* watchpoint spans.
LEMMA SidesMet ==
  ASSUME NEW ps, NEW l, ListsSound(ps, l), NEW g \in Places, \A c \in WatchOf(ps) : ~Spans(ps, c, g),
         NEW a \in Places, NEW x \in Met(l, l.watch[a]), x # 0
  PROVE  ps[x].address <= g <=> a <= g
<1>1. Fitting(ps) /\ Tables(l) /\ WatchHeads(ps, l) /\ WatchLinks(ps, l) /\ WatchSides(ps, l)
  BY DEF ListsSound, WatchLists
<1>2. l.watch[a] \in Links /\ Successors(l)
  BY <1>1, TheTables
<1>3. l.watch[a] # 0
  BY <1>2, MetNull
<1>4. l.watch[a] \in WatchOf(ps) /\ a \in Covered(ps[l.watch[a]])
  BY <1>1, <1>3 DEF WatchHeads
<1>5. a \in Nat /\ g \in Nat
  BY DebuggerFits
<1>6. ps[l.watch[a]].address <= g <=> a <= g
  <2>1. PICK p \in NewPoints : p = ps[l.watch[a]]
    BY <1>1, <1>4, OfPoints
  <2>2. p.address \in Nat /\ p.size \in Nat /\ \A d : d \in Covered(p) <=> d \in Nat /\ p.address <= d /\ d < p.address + p.size
    BY APoint
  <2>3. ~(g \in Covered(p) /\ g + 1 \in Covered(p))
    BY <1>4, <2>1 DEF Spans
  <2>4. p.address <= a /\ a < p.address + p.size
    BY <1>4, <2>1, <2>2
  <2>5. ~(p.address <= g /\ g + 1 < p.address + p.size)
    BY <1>5, <2>2, <2>3
  <2>6. p.address <= g <=> a <= g
    BY <1>5, <2>2, <2>4, <2>5
  <2>7. QED
    BY <2>1, <2>6
<1> DEFINE S == {0} \cup {y \in WatchOf(ps) : ps[y].address <= g <=> a <= g}
<1>7. S \in SUBSET Links
  <2>1. \A y \in WatchOf(ps) : y \in Points
    BY <1>1, OfPoints
  <2>2. Points \subseteq Links /\ 0 \in Links
    BY DebuggerFits DEF Points, Links
  <2>3. QED
    BY <2>1, <2>2
<1>8. Closed(l, S)
  <2> SUFFICES ASSUME NEW y \in WatchOf(ps), ps[y].address <= g <=> a <= g, l.next[y] # 0
               PROVE  l.next[y] \in WatchOf(ps) /\ (ps[l.next[y]].address <= g <=> a <= g)
    BY DEF Closed
  <2>1. l.next[y] \in WatchOf(ps)
    BY <1>1 DEF WatchLinks
  <2>2. ps[y].address <= g <=> ps[l.next[y]].address <= g
    BY <1>1 DEF WatchSides
  <2>3. QED
    BY <2>1, <2>2
<1>9. l.watch[a] \in S
  BY <1>4, <1>6
<1>10. Met(l, l.watch[a]) \subseteq S
  BY <1>2, <1>7, <1>8, <1>9, MetIs
<1>11. QED
  BY <1>10

\* The addresses of p for which it has been registered after k steps.
Done(p, k) == {a \in Covered(p) : a < p.address + k}

\* What k steps have made of the lists l: m.
Extended(l, D, b, m) ==
  \A x \in Points : x # b =>
    m.next[x] = l.next[x] \/ (l.next[x] = 0 /\ m.next[x] = b /\ \E a \in D : x \in Met(l, l.watch[a]))
HeadsSet(l, D, b, m) == \A a \in Places : m.watch[a] = IF a \in D /\ l.watch[a] = 0 THEN b ELSE l.watch[a]
TailsSet(l, D, b, m) == \A a \in D : l.watch[a] # 0 => \A t \in Met(l, l.watch[a]) : Terminal(l, t) => m.next[t] = b
Circled(ps, p, k, b, m) ==
  /\ m.next[b] \in {0, b}
  /\ m.next[b] = b <=> k >= 2 /\ \E c \in WatchOf(ps) : Spans(ps, c, p.address + k - 2)

Registered(ps, l, p, b, k, m) ==
  /\ Tables(m) /\ m.break = l.break
  /\ Extended(l, Done(p, k), b, m) /\ HeadsSet(l, Done(p, k), b, m) /\ TailsSet(l, Done(p, k), b, m)
  /\ Circled(ps, p, k, b, m)

\* The next address.
LEMMA NextDone ==
  ASSUME NEW p \in NewPoints, NEW k \in 0 .. p.size - 1, NEW a, a = p.address + k
  PROVE  /\ a \in Covered(p) /\ a \in Places /\ a \in Nat /\ k \in Nat
         /\ Done(p, k + 1) = Done(p, k) \cup {a} /\ a \notin Done(p, k)
         /\ k >= 1 => a - 1 \in Done(p, k) /\ a - 1 \in Places
         /\ \A d \in Done(p, k) : d \in Places /\ k >= 1 /\ d <= a - 1
<1>1. /\ p.address \in Nat /\ p.size \in Nat /\ k \in Nat /\ k < p.size /\ Covered(p) \subseteq Places
      /\ \A d : d \in Covered(p) <=> d \in Nat /\ p.address <= d /\ d < p.address + p.size
  <2>1. p.size \in Nat
    BY APoint
  <2>2. k \in Nat /\ k < p.size
    BY <2>1
  <2>3. QED
    BY <2>1, <2>2, APoint
<1>2. a \in Covered(p) /\ a \in Places /\ a \in Nat
  BY <1>1
<1>3. \A d \in Nat : d < p.address + (k + 1) <=> d < p.address + k \/ d = a
  BY <1>1
<1>4. Done(p, k + 1) = Done(p, k) \cup {a} /\ a \notin Done(p, k)
  BY <1>1, <1>2, <1>3 DEF Done
<1>5. k >= 1 => a - 1 \in Done(p, k) /\ a - 1 \in Places
  <2> SUFFICES ASSUME k >= 1 PROVE a - 1 \in Done(p, k) /\ a - 1 \in Places
    OBVIOUS
  <2>1. a - 1 \in Nat /\ p.address <= a - 1 /\ a - 1 < p.address + p.size /\ a - 1 < p.address + k
    BY <1>1
  <2>2. QED
    BY <1>1, <2>1 DEF Done
<1>6. ASSUME NEW d \in Done(p, k)
      PROVE  d \in Places /\ k >= 1 /\ d <= a - 1
  <2>1. d \in Covered(p) /\ d < p.address + k
    BY DEF Done
  <2>2. QED
    BY <1>1, <2>1
<1>7. QED
  BY <1>1, <1>2, <1>4, <1>5, <1>6

\* Two lists that share a watchpoint share their last point.
LEMMA SharedTail ==
  ASSUME NEW l, Successors(l), NEW h \in Links, NEW i \in Links,
         NEW t \in Met(l, h), Terminal(l, t), NEW c \in Met(l, h), c \in Met(l, i), c # 0
  PROVE  t \in Met(l, i)
<1>1. t \in Met(l, c)
  BY TerminalOnly
<1>2. QED
  BY <1>1, MetOn
\* The point b = p is registered for address a, the k-th it covers.
Step(ps, l, p, b, k, m, a, n) ==
  /\ ListsSound(ps, l) /\ b \in Points /\ Behindmost(ps, b) /\ p \in NewPoints
  /\ k \in 0 .. p.size - 1 /\ a = p.address + k
  /\ Registered(ps, l, p, b, k, m) /\ n = Linked(m, "watch", b, a)

\* No list meets a point that has not been set.
LEMMA NewPoint ==
  ASSUME NEW ps, NEW l, ListsSound(ps, l), NEW b \in Points, Behindmost(ps, b)
  PROVE  /\ l.next[b] = 0 /\ b # 0 /\ b \notin WatchOf(ps) /\ b \notin OtherOf(ps)
         /\ \A x \in WatchOf(ps) : x \in Points /\ x # 0 /\ x # b
         /\ \A a \in Places : b \notin Met(l, l.watch[a])
<1>1. Fitting(ps) /\ Tables(l) /\ Unset(ps, l) /\ WatchHeads(ps, l) /\ WatchLinks(ps, l)
  BY DEF ListsSound, WatchLists
<1>2. Len(ps) \in Nat /\ b = Len(ps) + 1 /\ b > Len(ps) /\ b # 0
  <2>1. Len(ps) \in Nat /\ b = Len(ps) + 1
    BY <1>1, OfPoints DEF Behindmost
  <2>2. QED
    BY <2>1
<1>3. l.next[b] = 0
  BY <1>1, <1>2 DEF Unset
<1>4. b \notin 1 .. Len(ps)
  BY <1>2
<1>5. b \notin WatchOf(ps) /\ b \notin OtherOf(ps) /\ \A x \in WatchOf(ps) : x \in Points /\ x # 0
  BY <1>1, <1>4, OfPoints, TheTables
<1>6. \A a \in Places : b \notin Met(l, l.watch[a])
  BY <1>1, <1>2, <1>5, WatchMet
<1>7. QED
  BY <1>2, <1>3, <1>5, <1>6

\* What is known before the step,
Before(ps, l, b, m, a) ==
  /\ Tables(l) /\ Successors(l) /\ Tables(m) /\ Successors(m) /\ m.break = l.break /\ b \in Links /\ b # 0
  /\ a \in Places /\ m.watch[a] = l.watch[a] /\ m["watch"] = m.watch /\ l.watch[a] \in Links
  /\ l.next[b] = 0 /\ \A x \in WatchOf(ps) : x \in Points /\ x # 0 /\ x # b
  /\ \A d \in Places : b \notin Met(l, l.watch[d])
  /\ Tables(Cut(m, b)) /\ Cut(m, b).watch = m.watch /\ Cut(m, b).next = [m.next EXCEPT ![b] = 0]

\* and what is enough behind it.
Moved(ps, l, b, k, m, a, n) ==
  /\ Tables(n) /\ n.break = m.break
  /\ \A x \in Points : x # b => \/ n.next[x] = m.next[x]
                                \/ l.next[x] = 0 /\ n.next[x] = b /\ x \in Met(l, l.watch[a])
  /\ \A d \in Places : d # a => n.watch[d] = m.watch[d]
  /\ n.watch[a] = IF l.watch[a] = 0 THEN b ELSE l.watch[a]
  /\ l.watch[a] # 0 => \A t \in Met(l, l.watch[a]) : Terminal(l, t) => n.next[t] = b
  /\ n.next[b] \in {0, b}
  /\ n.next[b] = b <=> k >= 1 /\ \E c \in WatchOf(ps) : Spans(ps, c, a - 1)

LEMMA StepFacts ==
  ASSUME NEW ps, NEW l, NEW p, NEW b, NEW k, NEW m, NEW a, NEW n, Step(ps, l, p, b, k, m, a, n)
  PROVE  Before(ps, l, b, m, a)
<1>1. Tables(l) /\ Tables(m) /\ m.break = l.break /\ HeadsSet(l, Done(p, k), b, m)
  BY DEF Step, Registered, ListsSound
<1>2. a \in Places /\ a \notin Done(p, k)
  BY NextDone DEF Step
<1>3. m.watch[a] = l.watch[a]
  BY <1>1, <1>2 DEF HeadsSet
<1>4. b \in Points /\ b \in Links
  BY DebuggerFits DEF Step, Points, Links
<1>5. m["watch"] = m.watch
  OBVIOUS
<1>6. QED
  <2>1. ListsSound(ps, l) /\ Behindmost(ps, b)
    BY DEF Step
  <2>2. l.next[b] = 0 /\ b # 0 /\ (\A x \in WatchOf(ps) : x \in Points /\ x # 0 /\ x # b)
        /\ \A d \in Places : b \notin Met(l, l.watch[d])
    BY <1>4, <2>1, NewPoint
  <2>3. Tables(Cut(m, b)) /\ Cut(m, b).watch = m.watch /\ Cut(m, b).next = [m.next EXCEPT ![b] = 0]
    BY <1>1, <1>4, CutIs
  <2>4. QED
    BY <1>1, <1>2, <1>3, <1>4, <1>5, <2>2, <2>3, TheTables DEF Before

\* A step that moves the points as it should carries the account on to the next address.
LEMMA StepOn ==
  ASSUME NEW ps, NEW l, NEW p, NEW b, NEW k, NEW m, NEW a, NEW n, Step(ps, l, p, b, k, m, a, n),
         Moved(ps, l, b, k, m, a, n)
  PROVE  Registered(ps, l, p, b, k + 1, n)
<1> USE DEF Moved
<1>1. /\ p \in NewPoints /\ k \in 0 .. p.size - 1 /\ a = p.address + k
      /\ Extended(l, Done(p, k), b, m) /\ HeadsSet(l, Done(p, k), b, m) /\ TailsSet(l, Done(p, k), b, m)
  BY DEF Step, Registered
<1>2. /\ a \in Covered(p) /\ a \in Places /\ a \in Nat /\ k \in Nat
      /\ Done(p, k + 1) = Done(p, k) \cup {a} /\ a \notin Done(p, k)
  BY <1>1, NextDone
<1>3. /\ Tables(l) /\ Successors(l) /\ m.break = l.break /\ b # 0 /\ l.next[b] = 0
      /\ \A d \in Places : b \notin Met(l, l.watch[d])
  <2>1. Before(ps, l, b, m, a)
    BY StepFacts
  <2>2. QED
    BY <2>1 DEF Before
<1>4. PICK D : D = Done(p, k + 1)
  OBVIOUS
<1>5. PICK C : C = Done(p, k)
  OBVIOUS
<1>6. D = C \cup {a} /\ a \notin C /\ C \subseteq Places
  BY <1>1, <1>2, <1>4, <1>5, NextDone
<1>7. Extended(l, C, b, m) /\ HeadsSet(l, C, b, m) /\ TailsSet(l, C, b, m)
  BY <1>1, <1>5
<1>8. Extended(l, D, b, n)
  <2> SUFFICES ASSUME NEW x \in Points, x # b
               PROVE  n.next[x] = l.next[x] \/ (l.next[x] = 0 /\ n.next[x] = b /\ \E d \in D : x \in Met(l, l.watch[d]))
    BY DEF Extended
  <2>1. m.next[x] = l.next[x] \/ (l.next[x] = 0 /\ m.next[x] = b /\ \E d \in C : x \in Met(l, l.watch[d]))
    BY <1>7 DEF Extended
  <2>2. n.next[x] = m.next[x] \/ (l.next[x] = 0 /\ n.next[x] = b /\ x \in Met(l, l.watch[a]))
    OBVIOUS
  <2>3. QED
    BY <1>6, <2>1, <2>2
<1>9. HeadsSet(l, D, b, n)
  BY <1>6, <1>7 DEF HeadsSet
<1>10. TailsSet(l, D, b, n)
  <2> SUFFICES ASSUME NEW d \in D, l.watch[d] # 0, NEW t \in Met(l, l.watch[d]), Terminal(l, t)
               PROVE  n.next[t] = b
    BY DEF TailsSet
  <2>1. CASE d = a
    BY <2>1
  <2>2. CASE d # a
    <3>1. d \in C /\ d \in Places /\ t \in Points
      BY <1>6, <2>2 DEF Terminal
    <3>2. m.next[t] = b /\ t # b
      BY <1>3, <1>7, <3>1 DEF TailsSet
    <3>3. QED
      BY <3>1, <3>2
  <2>3. QED
    BY <2>1, <2>2
<1>11. Circled(ps, p, k + 1, b, n)
  <2>1. p.address + (k + 1) - 2 = a - 1 /\ (k + 1 >= 2 <=> k >= 1)
    BY <1>1, <1>2, APoint
  <2>2. QED
    BY <2>1 DEF Circled
<1>12. QED
  BY <1>3, <1>4, <1>8, <1>9, <1>10, <1>11 DEF Registered

\* No watchpoint has the address yet.
LEMMA StepFirst ==
  ASSUME NEW ps, NEW l, NEW p, NEW b, NEW k, NEW m, NEW a, NEW n, Step(ps, l, p, b, k, m, a, n),
         l.watch[a] = 0
  PROVE  Registered(ps, l, p, b, k + 1, n)
<1>1. /\ Tables(l) /\ Successors(l) /\ Tables(m) /\ m.break = l.break /\ b \in Links /\ b # 0
      /\ a \in Places /\ m.watch[a] = l.watch[a] /\ m["watch"] = m.watch
      /\ \A x \in WatchOf(ps) : x \in Points /\ x # 0 /\ x # b
  <2>1. Before(ps, l, b, m, a)
    BY StepFacts
  <2>2. QED
    BY <2>1 DEF Before
<1>2. b \in Points /\ n = Linked(m, "watch", b, a)
  BY DEF Step
<1>3. FirstOf(m, "watch", a)
  BY <1>1 DEF FirstOf
<1>4. HeadSet(m, "watch", b, a, n)
  BY <1>1, <1>2, <1>3, LinkedFirst
<1>5. Tables(n) /\ n.next = [m.next EXCEPT ![b] = 0] /\ n.watch = [m.watch EXCEPT ![a] = b] /\ n.break = m.break
  BY <1>4 DEF HeadSet
<1>6. n.next[b] = 0 /\ \A x \in Points : x # b => n.next[x] = m.next[x]
  BY <1>1, <1>2, <1>5, TheTables
<1>7. n.watch[a] = b /\ \A d \in Places : d # a => n.watch[d] = m.watch[d]
  BY <1>1, <1>5, TheTables
<1>8. ASSUME k >= 1, NEW c \in WatchOf(ps), Spans(ps, c, a - 1)
      PROVE  FALSE
  <2>1. a \in Covered(ps[c])
    <3>1. a - 1 + 1 = a
      BY <1>1, DebuggerFits
    <3>2. QED
      BY <1>8, <3>1 DEF Spans
  <2>2. c \in Met(l, l.watch[a])
    BY <1>1, <2>1 DEF Step, ListsSound, WatchLists, WatchMeets
  <2>3. QED
    BY <1>1, <2>2, MetNull
<1>9. QED
  <2>1. Moved(ps, l, b, k, m, a, n)
    BY <1>1, <1>5, <1>6, <1>7, <1>8 DEF Moved
  <2>2. QED
    BY <2>1, StepOn
\* The search for the last point of the list of a: in l it is t; in the table the
\* search is done in, c, the list goes on to b if an earlier address has put b there.
Found(ps, l, b, m, a, t) ==
  /\ t \in Met(l, l.watch[a]) /\ Terminal(l, t) /\ l.next[t] = 0 /\ t \in WatchOf(ps)
  /\ t \in Points /\ t # 0 /\ t # b /\ m.next[t] \in {0, b}
  /\ \A x \in Met(l, l.watch[a]) : Terminal(l, x) => x = t
  /\ t \in Met(Cut(m, b), l.watch[a])
  /\ m.next[t] = 0 => \A x \in Met(Cut(m, b), l.watch[a]) : x # 0 /\ Cut(m, b).next[x] = 0 => x = t
  /\ m.next[t] = b => /\ b \in Met(Cut(m, b), l.watch[a])
                      /\ \A x \in Met(Cut(m, b), l.watch[a]) : x # 0 /\ Cut(m, b).next[x] = 0 => x = b

\* A list that ends has a last point where the new one is appended.
LEMMA StepFound ==
  ASSUME NEW ps, NEW l, NEW p, NEW b, NEW k, NEW m, NEW a, NEW n, Step(ps, l, p, b, k, m, a, n),
         l.watch[a] # 0, ListEnds(l, l.watch[a])
  PROVE  \E t \in Points : Found(ps, l, b, m, a, t)
<1>1. Before(ps, l, b, m, a)
  BY StepFacts
<1>2. /\ Tables(l) /\ Successors(l) /\ Tables(m) /\ Successors(m) /\ b \in Links /\ b # 0
      /\ a \in Places /\ l.watch[a] \in Links
      /\ l.next[b] = 0 /\ \A x \in WatchOf(ps) : x \in Points /\ x # 0 /\ x # b
      /\ b \notin Met(l, l.watch[a])
  BY <1>1 DEF Before
<1>3. PICK c : c = Cut(m, b)
  OBVIOUS
<1>4. Tables(c) /\ Successors(c) /\ c.next = [m.next EXCEPT ![b] = 0]
  BY <1>1, <1>3, TheTables DEF Before
<1>5. b \in Points /\ ListsSound(ps, l) /\ Extended(l, Done(p, k), b, m)
  BY DEF Step, Registered
<1>6. /\ Fitting(ps) /\ WatchHeads(ps, l) /\ WatchLinks(ps, l) /\ Ascending(l)
  BY <1>5, SoundRising DEF ListsSound, WatchLists
<1>7. c.next[b] = 0 /\ \A x \in Points : x # b => c.next[x] = m.next[x]
  BY <1>2, <1>4, <1>5 DEF Tables
<1>8. PICK h \in Points : h = l.watch[a]
  BY <1>2, TheTables
<1>9. h \in Links
  BY <1>2, <1>8
<1>10. PICK S : S = Met(l, h)
  OBVIOUS
<1>11. S \subseteq {0} \cup WatchOf(ps) /\ h \in S /\ S \in SUBSET Links /\ Closed(l, S) /\ b \notin S
  <2>1. Met(l, l.watch[a]) \subseteq {0} \cup WatchOf(ps)
    BY <1>2, <1>6, WatchMet
  <2>2. QED
    BY <1>2, <1>8, <1>9, <1>10, <2>1, MetIs
<1>12. PICK t \in S : Terminal(l, t)
  BY <1>2, <1>6, <1>10, TerminalMet
<1>13. t \in Points /\ t # 0 /\ t \in WatchOf(ps) /\ t # b
  BY <1>2, <1>11, <1>12, TheTables DEF Terminal
<1>14. l.next[t] = 0
  BY <1>2, <1>8, <1>10, <1>12, EndsIs
<1>15. \A x \in S : Terminal(l, x) => x = t
  <2> SUFFICES ASSUME NEW x \in S, Terminal(l, x) PROVE x = t
    OBVIOUS
  <2>1. x # 0
    BY <1>2, TheTables DEF Terminal
  <2>2. QED
    BY <1>2, <1>9, <1>10, <1>12, <2>1, TerminalOnly
<1>16. \A x \in Points : x # b => m.next[x] = l.next[x] \/ (l.next[x] = 0 /\ m.next[x] = b)
  BY <1>5 DEF Extended
<1>17. m.next[t] \in {0, b}
  BY <1>13, <1>14, <1>16
<1>18. \A x \in S \ {0} : x # t => x \in Points /\ x # b /\ c.next[x] = l.next[x] /\ l.next[x] # 0
  <2> SUFFICES ASSUME NEW x \in S \ {0}, x # t
               PROVE  x \in Points /\ x # b /\ c.next[x] = l.next[x] /\ l.next[x] # 0
    OBVIOUS
  <2>1. x \in Points /\ x # b
    BY <1>2, <1>11
  <2>2. l.next[x] # 0
    BY <1>15, <2>1 DEF Terminal
  <2>3. QED
    BY <1>7, <1>16, <2>1, <2>2
<1>19. t \in Met(c, h)
  <2>1. \A x \in Points : c.next[x] = l.next[x] \/ l.next[x] = 0
    BY <1>2, <1>7, <1>16
  <2>2. Met(l, h) \subseteq {0} \cup Met(c, h)
    BY <1>2, <1>4, <1>9, <2>1, MetGrows
  <2>3. QED
    BY <1>10, <1>12, <1>13, <2>2
<1>20. ASSUME m.next[t] = 0, NEW x \in Met(c, h), x # 0, c.next[x] = 0
       PROVE  x = t
  <2>1. c.next[t] = 0
    BY <1>7, <1>13, <1>20
  <2>2. {0} \cup S \in SUBSET Links /\ h \in {0} \cup S
    BY <1>2, <1>11, TheTables
  <2>3. Closed(c, {0} \cup S)
    BY <1>11, <1>18, <2>1 DEF Closed
  <2>4. x \in S
    BY <1>4, <1>9, <1>20, <2>2, <2>3, MetIs
  <2>5. QED
    BY <1>18, <1>20, <2>4
<1>21. ASSUME m.next[t] = b
       PROVE  b \in Met(c, h) /\ \A x \in Met(c, h) : x # 0 /\ c.next[x] = 0 => x = b
  <2>1. c.next[t] = b
    BY <1>7, <1>13, <1>21
  <2>2. b \in Met(c, h)
    <3>1. Closed(c, Met(c, h))
      BY <1>4, <1>9, MetIs
    <3>2. QED
      BY <1>13, <1>19, <2>1, <3>1 DEF Closed
  <2>3. ASSUME NEW x \in Met(c, h), x # 0, c.next[x] = 0
        PROVE  x = b
    <3>1. {0, b} \cup S \in SUBSET Links /\ h \in {0, b} \cup S
      BY <1>2, <1>11, TheTables
    <3>2. Closed(c, {0, b} \cup S)
      <4> SUFFICES ASSUME NEW y \in ({0, b} \cup S) \ {0} PROVE c.next[y] \in {0, b} \cup S
        BY DEF Closed
      <4>1. CASE y = b
        BY <1>7, <4>1
      <4>2. CASE y = t
        BY <2>1, <4>2
      <4>3. CASE y # b /\ y # t
        BY <1>11, <1>18, <4>3 DEF Closed
      <4>4. QED
        BY <4>1, <4>2, <4>3
    <3>3. x \in {0, b} \cup S
      BY <1>4, <1>9, <2>3, <3>1, <3>2, MetIs
    <3>4. x # t
      BY <1>2, <2>1, <2>3
    <3>5. QED
      BY <1>18, <2>3, <3>3, <3>4
  <2>4. QED
    BY <2>2, <2>3
<1>22. Found(ps, l, b, m, a, t)
  <2>1. \A x \in Met(c, h) : m.next[t] = 0 /\ x # 0 /\ c.next[x] = 0 => x = t
    BY <1>20
  <2>2. m.next[t] = b => b \in Met(c, h) /\ \A x \in Met(c, h) : x # 0 /\ c.next[x] = 0 => x = b
    BY <1>21
  <2>3. QED
    BY <1>3, <1>8, <1>10, <1>12, <1>13, <1>14, <1>15, <1>17, <1>19, <2>1, <2>2 DEF Found
<1>23. QED
  BY <1>13, <1>22

\* The list of the address ends: b goes behind its last point.
LEMMA StepTail ==
  ASSUME NEW ps, NEW l, NEW p, NEW b, NEW k, NEW m, NEW a, NEW n, Step(ps, l, p, b, k, m, a, n),
         l.watch[a] # 0, NEW t \in Points, Found(ps, l, b, m, a, t), m.next[t] = 0
  PROVE  Registered(ps, l, p, b, k + 1, n)
<1>1. Before(ps, l, b, m, a)
  BY StepFacts
<1>2. /\ Tables(l) /\ Successors(l) /\ Tables(m) /\ b \in Links /\ b # 0
      /\ a \in Places /\ m.watch[a] = l.watch[a] /\ m["watch"] = m.watch /\ l.watch[a] \in Links
  BY <1>1 DEF Before
<1>3. /\ b \in Points /\ n = Linked(m, "watch", b, a) /\ ListsSound(ps, l) /\ TailsSet(l, Done(p, k), b, m)
      /\ p \in NewPoints /\ k \in 0 .. p.size - 1 /\ a = p.address + k
  BY DEF Step, Registered
<1>4. /\ t \in Met(l, l.watch[a]) /\ Terminal(l, t) /\ l.next[t] = 0 /\ t # 0 /\ t # b
      /\ \A x \in Met(l, l.watch[a]) : Terminal(l, x) => x = t
      /\ t \in Met(Cut(m, b), l.watch[a])
      /\ \A x \in Met(Cut(m, b), l.watch[a]) : x # 0 /\ Cut(m, b).next[x] = 0 => x = t
  BY DEF Found
<1>5. Cut(m, b).next[t] = 0
  <2>1. Cut(m, b).next = [m.next EXCEPT ![b] = 0] /\ m.next \in [Points -> Links]
    BY <1>1, <1>2 DEF Before, Tables
  <2>2. QED
    BY <1>4, <2>1
<1>6. /\ Tables(n) /\ n.next = [[m.next EXCEPT ![b] = 0] EXCEPT ![t] = b]
      /\ n.break = m.break /\ n.watch = m.watch
  <2>1. LastOf(m, "watch", b, a, t)
    BY <1>2, <1>4, <1>5 DEF LastOf
  <2>2. LinkSet(m, b, t, n)
    BY <1>2, <1>3, <2>1, LinkedBehind
  <2>3. QED
    BY <2>2 DEF LinkSet
<1>7. n.next[t] = b /\ n.next[b] = 0 /\ \A x \in Points : x # b /\ x # t => n.next[x] = m.next[x]
  BY <1>2, <1>3, <1>4, <1>6 DEF Tables
<1>8. ASSUME k >= 1, NEW c \in WatchOf(ps), Spans(ps, c, a - 1)
      PROVE  FALSE
  <2>1. a - 1 + 1 = a /\ a - 1 \in Done(p, k) /\ a - 1 \in Places
    BY <1>3, <1>8, NextDone
  <2>2. c \in Met(l, l.watch[a]) /\ c \in Met(l, l.watch[a - 1])
    <3>1. a \in Covered(ps[c]) /\ a - 1 \in Covered(ps[c])
      BY <1>8, <2>1 DEF Spans
    <3>2. WatchMeets(ps, l)
      BY <1>3 DEF ListsSound, WatchLists
    <3>3. QED
      BY <1>2, <2>1, <3>1, <3>2 DEF WatchMeets
  <2>3. c # 0 /\ l.watch[a - 1] \in Links
    BY <1>1, <1>2, <2>1, TheTables DEF Before
  <2>4. t \in Met(l, l.watch[a - 1])
    BY <1>2, <1>4, <2>2, <2>3, SharedTail
  <2>5. l.watch[a - 1] # 0
    BY <1>2, <1>4, <2>4, MetNull
  <2>6. m.next[t] = b
    BY <1>3, <1>4, <2>1, <2>4, <2>5 DEF TailsSet
  <2>7. QED
    BY <1>2, <2>6
<1>9. Moved(ps, l, b, k, m, a, n)
  <2>1. \A x \in Points : x # b => \/ n.next[x] = m.next[x]
                                   \/ l.next[x] = 0 /\ n.next[x] = b /\ x \in Met(l, l.watch[a])
    BY <1>4, <1>7
  <2>2. \A x \in Met(l, l.watch[a]) : Terminal(l, x) => n.next[x] = b
    BY <1>4, <1>7
  <2>3. n.next[b] = b <=> k >= 1 /\ \E c \in WatchOf(ps) : Spans(ps, c, a - 1)
    BY <1>2, <1>7, <1>8
  <2>4. QED
    BY <1>2, <1>6, <1>7, <2>1, <2>2, <2>3 DEF Moved
<1>10. QED
  BY <1>9, StepOn

\* An earlier address has put b at its end: b becomes its own successor. The two
\* lists share their last point, which is on both sides of the gap between the
\* two addresses unless a watchpoint spans it.
LEMMA StepCircle ==
  ASSUME NEW ps, NEW l, NEW p, NEW b, NEW k, NEW m, NEW a, NEW n, Step(ps, l, p, b, k, m, a, n),
         l.watch[a] # 0, NEW t \in Points, Found(ps, l, b, m, a, t), m.next[t] = b
  PROVE  Registered(ps, l, p, b, k + 1, n)
<1>1. Before(ps, l, b, m, a)
  BY StepFacts
<1>2. /\ Tables(l) /\ Successors(l) /\ Tables(m) /\ b \in Links /\ b # 0
      /\ a \in Places /\ m.watch[a] = l.watch[a] /\ m["watch"] = m.watch /\ l.watch[a] \in Links
  BY <1>1 DEF Before
<1>3. /\ b \in Points /\ n = Linked(m, "watch", b, a) /\ ListsSound(ps, l) /\ Extended(l, Done(p, k), b, m)
      /\ p \in NewPoints /\ k \in 0 .. p.size - 1 /\ a = p.address + k
  BY DEF Step, Registered
<1>4. /\ t \in Met(l, l.watch[a]) /\ Terminal(l, t) /\ l.next[t] = 0 /\ t # 0 /\ t # b
      /\ \A x \in Met(l, l.watch[a]) : Terminal(l, x) => x = t
      /\ b \in Met(Cut(m, b), l.watch[a])
      /\ \A x \in Met(Cut(m, b), l.watch[a]) : x # 0 /\ Cut(m, b).next[x] = 0 => x = b
  BY DEF Found
<1>5. Cut(m, b).next[b] = 0
  <2>1. Cut(m, b).next = [m.next EXCEPT ![b] = 0] /\ m.next \in [Points -> Links]
    BY <1>1, <1>2 DEF Before, Tables
  <2>2. QED
    BY <1>3, <2>1
<1>6. /\ Tables(n) /\ n.next = [[m.next EXCEPT ![b] = 0] EXCEPT ![b] = b]
      /\ n.break = m.break /\ n.watch = m.watch
  <2>1. LastOf(m, "watch", b, a, b)
    BY <1>2, <1>3, <1>4, <1>5 DEF LastOf
  <2>2. LinkSet(m, b, b, n)
    BY <1>2, <1>3, <2>1, LinkedBehind
  <2>3. QED
    BY <2>2 DEF LinkSet
<1>7. n.next[b] = b /\ \A x \in Points : x # b => n.next[x] = m.next[x]
  BY <1>2, <1>3, <1>6 DEF Tables
<1>8. PICK d \in Done(p, k) : t \in Met(l, l.watch[d])
  BY <1>2, <1>3, <1>4 DEF Extended
<1>9. k >= 1 /\ d \in Places /\ d <= a - 1 /\ a - 1 \in Places /\ a \in Nat
  BY <1>3, NextDone
<1>10. ASSUME \A c \in WatchOf(ps) : ~Spans(ps, c, a - 1)
       PROVE  FALSE
  <2>1. ps[t].address <= a - 1 <=> d <= a - 1
    BY <1>3, <1>4, <1>8, <1>9, <1>10, SidesMet
  <2>2. ps[t].address <= a - 1 <=> a <= a - 1
    BY <1>2, <1>3, <1>4, <1>9, <1>10, SidesMet
  <2>3. QED
    BY <1>9, <2>1, <2>2
<1>11. Moved(ps, l, b, k, m, a, n)
  <2>1. \A x \in Met(l, l.watch[a]) : Terminal(l, x) => n.next[x] = b
    BY <1>4, <1>7
  <2>2. n.next[b] = b <=> k >= 1 /\ \E c \in WatchOf(ps) : Spans(ps, c, a - 1)
    BY <1>7, <1>9, <1>10
  <2>3. QED
    BY <1>2, <1>6, <1>7, <2>1, <2>2 DEF Moved
<1>12. QED
  BY <1>11, StepOn
\* Where the list ends, a step carries the account on.
LEMMA StepHolds ==
  ASSUME NEW ps, NEW l, NEW p, NEW b, NEW k, NEW m, NEW a, NEW n, Step(ps, l, p, b, k, m, a, n),
         ListEnds(l, l.watch[a])
  PROVE  Registered(ps, l, p, b, k + 1, n)
<1>1. CASE l.watch[a] = 0
  BY <1>1, StepFirst
<1>2. CASE l.watch[a] # 0
  <2>1. PICK t \in Points : Found(ps, l, b, m, a, t)
    BY <1>2, StepFound
  <2>2. m.next[t] \in {0, b}
    BY <2>1 DEF Found
  <2>3. QED
    BY <1>2, <2>1, <2>2, StepTail, StepCircle
<1>3. QED
  BY <1>1, <1>2

(* The steps of WatchedFrom. *)

Solves(at, l, p, b, n) ==
  at = [k \in 0 .. n |-> IF k = 0 THEN l ELSE Linked(at[k - 1], "watch", b, p.address + k - 1)]

\* The recursive definition of the steps of WatchedFrom has a solution.
LEMMA StepsExist ==
  ASSUME NEW l, NEW p, NEW b, NEW n \in Nat
  PROVE  \E at : Solves(at, l, p, b, n)
<1> DEFINE Good == {k \in 0 .. n : \E at : Solves(at, l, p, b, k)}
<1>1. 0 \in Good
  <2>1. PICK at : at = [k \in 0 .. 0 |-> l]
    OBVIOUS
  <2>2. \A k \in 0 .. 0 : k = 0
    OBVIOUS
  <2>3. Solves(at, l, p, b, 0)
    BY <2>1, <2>2 DEF Solves
  <2>4. QED
    BY <2>3
<1>2. ASSUME NEW i \in 0 .. n - 1, i \in Good
      PROVE  i + 1 \in Good
  <2>1. PICK q : Solves(q, l, p, b, i)
    BY <1>2
  <2>2. i \in Nat /\ i + 1 \in 0 .. n
    OBVIOUS
  <2> DEFINE r == [k \in 0 .. i + 1 |-> IF k = 0 THEN l ELSE Linked(q[k - 1], "watch", b, p.address + k - 1)]
  <2>3. \A k \in 0 .. i + 1 : k # 0 => r[k - 1] = q[k - 1]
    <3> SUFFICES ASSUME NEW k \in 0 .. i + 1, k # 0 PROVE r[k - 1] = q[k - 1]
      OBVIOUS
    <3>1. k - 1 \in 0 .. i /\ k - 1 \in 0 .. i + 1
      BY <2>2
    <3>2. q[k - 1] = IF k - 1 = 0 THEN l ELSE Linked(q[k - 1 - 1], "watch", b, p.address + (k - 1) - 1)
      BY <2>1, <3>1 DEF Solves
    <3>3. r[k - 1] = IF k - 1 = 0 THEN l ELSE Linked(q[k - 1 - 1], "watch", b, p.address + (k - 1) - 1)
      BY <3>1
    <3>4. QED
      BY <3>2, <3>3
  <2>4. Solves(r, l, p, b, i + 1)
    BY <2>3 DEF Solves
  <2>5. QED
    BY <2>2, <2>4
<1>3. \A k \in 0 .. n : k \in Good
  BY <1>1, <1>2, UpTo
<1>4. n \in 0 .. n
  OBVIOUS
<1>5. QED
  BY <1>3, <1>4

\* WatchedFrom links the point at one address after the other.
LEMMA WatchedSteps ==
  ASSUME NEW l, NEW p \in NewPoints, NEW b
  PROVE  \E at : /\ at[0] = l /\ at[p.size] = WatchedFrom(l, p, b)
                 /\ \A k \in 0 .. p.size - 1 : at[k + 1] = Linked(at[k], "watch", b, p.address + k)
<1>1. PICK n \in Nat : n = p.size
  BY APoint
<1>2. PICK at : at = CHOOSE f : Solves(f, l, p, b, p.size)
  OBVIOUS
<1>3. Solves(at, l, p, b, n)
  <2>1. \E f : Solves(f, l, p, b, p.size)
    BY <1>1, StepsExist
  <2>2. Solves(at, l, p, b, p.size)
    BY <1>2, <2>1, Zenon
  <2>3. QED
    BY <1>1, <2>2
<1>4. at[p.size] = WatchedFrom(l, p, b)
  BY <1>2, Zenon DEF WatchedFrom, Solves
<1>5. at = [k \in 0 .. n |-> IF k = 0 THEN l ELSE Linked(at[k - 1], "watch", b, p.address + k - 1)]
  BY <1>3 DEF Solves
<1>6. at[0] = l
  BY <1>5
<1>7. ASSUME NEW k \in 0 .. n - 1
      PROVE  at[k + 1] = Linked(at[k], "watch", b, p.address + k)
  <2>1. k + 1 \in 0 .. n /\ k + 1 # 0 /\ k + 1 - 1 = k /\ p.address + (k + 1) - 1 = p.address + k
    BY APoint
  <2>2. at[k + 1] = IF k + 1 = 0 THEN l ELSE Linked(at[k + 1 - 1], "watch", b, p.address + (k + 1) - 1)
    BY <1>5, <2>1
  <2>3. QED
    BY <2>1, <2>2
<1>8. QED
  BY <1>1, <1>4, <1>6, <1>7

\* Registering the point for all its addresses.
LEMMA AllRegistered ==
  ASSUME NEW ps, NEW l, ListsSound(ps, l), NEW b \in Points, Behindmost(ps, b), NEW p \in NewPoints,
         \A a \in Covered(p) : ListEnds(l, l.watch[a])
  PROVE  Registered(ps, l, p, b, p.size, WatchedFrom(l, p, b))
<1>1. PICK at : /\ at[0] = l /\ at[p.size] = WatchedFrom(l, p, b)
                /\ \A k \in 0 .. p.size - 1 : at[k + 1] = Linked(at[k], "watch", b, p.address + k)
  BY WatchedSteps
<1>2. PICK n \in Nat : n = p.size
  BY APoint
<1> DEFINE Good == {k \in 0 .. n : Registered(ps, l, p, b, k, at[k])}
<1>3. 0 \in Good
  <2>1. Tables(l) /\ l.next[b] = 0 /\ b # 0 /\ p.address \in Nat
    BY NewPoint, APoint DEF ListsSound
  <2>2. Done(p, 0) = {}
    <3>1. \A d \in Covered(p) : d \in Nat /\ p.address <= d
      BY APoint
    <3>2. \A d \in Covered(p) : ~(d < p.address + 0)
      BY <2>1, <3>1
    <3>3. QED
      BY <3>2 DEF Done
  <2>3. Extended(l, {}, b, l) /\ HeadsSet(l, {}, b, l) /\ TailsSet(l, {}, b, l)
    BY DEF Extended, HeadsSet, TailsSet
  <2>4. Circled(ps, p, 0, b, l)
    BY <2>1 DEF Circled
  <2>5. QED
    BY <1>1, <2>1, <2>2, <2>3, <2>4 DEF Registered
<1>4. ASSUME NEW k \in 0 .. n - 1, k \in Good
      PROVE  k + 1 \in Good
  <2>1. PICK m : m = at[k]
    OBVIOUS
  <2>2. PICK q : q = at[k + 1]
    OBVIOUS
  <2>3. PICK a : a = p.address + k
    OBVIOUS
  <2>4. k \in 0 .. p.size - 1 /\ k + 1 \in 0 .. n
    BY <1>2
  <2>5. q = Linked(m, "watch", b, a)
    BY <1>1, <2>1, <2>2, <2>3, <2>4
  <2>6. Registered(ps, l, p, b, k, m)
    BY <1>4, <2>1
  <2>7. Step(ps, l, p, b, k, m, a, q)
    BY <2>3, <2>4, <2>5, <2>6 DEF Step
  <2>8. a \in Covered(p)
    BY <2>3, <2>4, NextDone
  <2>9. Registered(ps, l, p, b, k + 1, q)
    BY <2>7, <2>8, StepHolds
  <2>10. QED
    BY <2>2, <2>4, <2>9
<1>5. \A k \in 0 .. n : k \in Good
  <2> HIDE DEF Good
  <2>1. QED
    BY <1>3, <1>4, UpTo
<1>6. n \in 0 .. n
  OBVIOUS
<1>7. QED
  BY <1>1, <1>2, <1>5, <1>6
\* The lists when a watchpoint has been set.
LEMMA WatchSet ==
  ASSUME NEW ps, NEW l, ListsSound(ps, l), NEW p \in NewPoints, p.type = "watch",
         \A a \in Covered(p) : ListEnds(l, l.watch[a]),
         NEW qs, NEW b, Sets(ps, p, qs, b), NEW m, m = WatchedFrom(l, p, b)
  PROVE  ListsSound(qs, m)
<1>1. /\ Fitting(ps) /\ Tables(l) /\ Unset(ps, l) /\ BreakHeads(ps, l) /\ BreakLinks(ps, l) /\ BreakMeets(ps, l)
      /\ WatchHeads(ps, l) /\ WatchLinks(ps, l) /\ WatchMeets(ps, l) /\ WatchCircles(ps, l) /\ WatchSides(ps, l)
      /\ Successors(l) /\ Ascending(l)
  BY TheTables, SoundRising DEF ListsSound, BreakLists, WatchLists
<1>2. /\ Fitting(qs) /\ Len(qs) = b /\ b \in Points /\ b # 0
      /\ qs[b] = p /\ \A x \in 1 .. Len(ps) : qs[x] = ps[x] /\ x < b
      /\ WatchOf(qs) = WatchOf(ps) \cup {b} /\ OtherOf(qs) = OtherOf(ps)
      /\ \A x \in 1 .. Len(ps) : Taken(qs, x) <=> Taken(ps, x)
      /\ \A x \in 1 .. Len(ps) : \A g : Spans(qs, x, g) <=> Spans(ps, x, g)
  BY <1>1, Appended
<1>3. Behindmost(ps, b)
  BY DEF Sets, Behindmost
<1>4. Registered(ps, l, p, b, p.size, m)
  BY <1>2, <1>3, AllRegistered
<1>5. Done(p, p.size) = Covered(p) /\ Covered(p) \subseteq Places /\ p.size \in Nat /\ p.address \in Nat
  <2>1. \A a \in Covered(p) : a < p.address + p.size
    BY APoint
  <2>2. QED
    BY <2>1, APoint DEF Done
<1>6. /\ Tables(m) /\ m.break = l.break
      /\ Extended(l, Covered(p), b, m) /\ HeadsSet(l, Covered(p), b, m) /\ TailsSet(l, Covered(p), b, m)
      /\ Circled(ps, p, p.size, b, m)
  BY <1>4, <1>5 DEF Registered
<1>7. l.next[b] = 0 /\ b \notin WatchOf(ps) /\ b \notin OtherOf(ps) /\ \A d \in Places : b \notin Met(l, l.watch[d])
  BY <1>2, <1>3, NewPoint
<1>8. /\ \A x \in WatchOf(ps) : x \in 1 .. Len(ps) /\ x \in Points /\ x # b /\ x # 0
      /\ \A x \in OtherOf(ps) : x \in 1 .. Len(ps) /\ x \in Points /\ x # b /\ x \notin WatchOf(ps)
      /\ Successors(m) /\ 0 \notin Points /\ 0 \in Links /\ Len(ps) \in Nat /\ b \in Links
  <2>1. Points \subseteq Links
    BY DebuggerFits DEF Points, Links
  <2>2. QED
    BY <1>1, <1>2, <1>6, <1>7, <2>1, OfPoints, TheTables
\* What a point was linked behind is a watchpoint of an address of p.
<1>9. \A x \in Points : x # b =>
        \/ m.next[x] = l.next[x]
        \/ l.next[x] = 0 /\ m.next[x] = b /\ x \in WatchOf(ps) /\ \E d \in Covered(p) : x \in Met(l, l.watch[d])
  <2> SUFFICES ASSUME NEW x \in Points, x # b, m.next[x] # l.next[x]
               PROVE  l.next[x] = 0 /\ m.next[x] = b /\ x \in WatchOf(ps) /\ \E d \in Covered(p) : x \in Met(l, l.watch[d])
    OBVIOUS
  <2>1. l.next[x] = 0 /\ m.next[x] = b
    BY <1>6 DEF Extended
  <2>2. PICK d \in Covered(p) : x \in Met(l, l.watch[d])
    BY <1>6 DEF Extended
  <2>3. x \in WatchOf(ps)
    BY <1>1, <1>5, <1>8, <2>2, WatchMet
  <2>4. QED
    BY <2>1, <2>2, <2>3
<1>10. ASSUME NEW h \in Links
       PROVE  Met(l, h) \subseteq {0} \cup Met(m, h)
  <2>1. \A x \in Points : m.next[x] = l.next[x] \/ l.next[x] = 0
    BY <1>7, <1>9
  <2>2. QED
    BY <1>1, <1>8, <2>1, MetGrows
<1>11. \A x \in OtherOf(ps) : m.next[x] = l.next[x]
  BY <1>8, <1>9
<1>12. Unset(qs, m)
  <2> SUFFICES ASSUME NEW x \in Points, x > b PROVE m.next[x] = 0
    BY <1>2 DEF Unset
  <2>1. x > Len(ps) /\ x # b
    BY <1>8 DEF Points, Sets
  <2>2. x \notin WatchOf(ps)
    BY <1>8, <2>1
  <2>3. QED
    BY <1>1, <1>9, <2>1, <2>2 DEF Unset
<1>13. BreakHeads(qs, m)
  BY <1>1, <1>2, <1>6, <1>8 DEF BreakHeads
<1>14. BreakLinks(qs, m)
  <2> SUFFICES ASSUME NEW x \in OtherOf(ps), l.next[x] # 0
               PROVE  l.next[x] \in OtherOf(ps) /\ l.next[x] > x /\ qs[l.next[x]].address = qs[x].address
    BY <1>2, <1>11 DEF BreakLinks
  <2>1. l.next[x] \in OtherOf(ps) /\ l.next[x] > x /\ ps[l.next[x]].address = ps[x].address
    BY <1>1 DEF BreakLinks
  <2>2. qs[x] = ps[x] /\ qs[l.next[x]] = ps[l.next[x]]
    BY <1>2, <1>8, <2>1
  <2>3. QED
    BY <2>1, <2>2
<1>15. BreakMeets(qs, m)
  <2> SUFFICES ASSUME NEW x \in OtherOf(ps) PROVE x \in Met(m, l.break[qs[x].address])
    BY <1>2, <1>6 DEF BreakMeets
  <2>1. qs[x] = ps[x] /\ ps[x] \in NewPoints /\ x # 0
    BY <1>1, <1>2, <1>8, OfPoints
  <2>2. ps[x].address \in Places
    BY <2>1, APoint
  <2>3. x \in Met(l, l.break[ps[x].address]) /\ l.break[ps[x].address] \in Links
    BY <1>1, <2>2, TheTables DEF BreakMeets
  <2>4. QED
    BY <1>10, <2>1, <2>3
<1>16. WatchHeads(qs, m)
  <2> SUFFICES ASSUME NEW a \in Places, m.watch[a] # 0
               PROVE  m.watch[a] \in WatchOf(qs) /\ a \in Covered(qs[m.watch[a]])
    BY DEF WatchHeads
  <2>1. CASE a \in Covered(p) /\ l.watch[a] = 0
    BY <1>2, <1>6, <2>1 DEF HeadsSet
  <2>2. CASE ~(a \in Covered(p) /\ l.watch[a] = 0)
    <3>1. m.watch[a] = l.watch[a]
      BY <1>6, <2>2 DEF HeadsSet
    <3>2. l.watch[a] \in WatchOf(ps) /\ a \in Covered(ps[l.watch[a]])
      BY <1>1, <3>1 DEF WatchHeads
    <3>3. QED
      BY <1>2, <1>8, <3>1, <3>2
  <2>3. QED
    BY <2>1, <2>2
<1>17. m.next[b] \in {0, b}
  BY <1>6 DEF Circled
<1>18. WatchLinks(qs, m)
  <2> SUFFICES ASSUME NEW x \in WatchOf(qs), m.next[x] # 0 PROVE m.next[x] \in WatchOf(qs) /\ m.next[x] >= x
    BY DEF WatchLinks
  <2>1. CASE x = b
    BY <1>2, <1>8, <1>17, <2>1, DebuggerFits DEF Points
  <2>2. CASE x # b
    <3>1. x \in WatchOf(ps) /\ x \in Points /\ x < b /\ x \in 1 .. Len(ps)
      BY <1>2, <1>8, <2>2
    <3>2. CASE m.next[x] = l.next[x]
      BY <1>1, <1>2, <3>1, <3>2 DEF WatchLinks
    <3>3. CASE m.next[x] # l.next[x]
      <4>1. m.next[x] = b
        BY <1>9, <2>2, <3>1, <3>3
      <4>2. b >= x
        BY <1>2, <3>1, DebuggerFits DEF Points
      <4>3. QED
        BY <1>2, <4>1, <4>2
    <3>4. QED
      BY <3>2, <3>3
  <2>3. QED
    BY <2>1, <2>2
<1>19. WatchMeets(qs, m)
  <2> SUFFICES ASSUME NEW x \in WatchOf(qs), NEW a \in Places, a \in Covered(qs[x])
               PROVE  x \in Met(m, m.watch[a])
    BY DEF WatchMeets
  <2>1. l.watch[a] \in Links
    BY <1>1, TheTables
  <2>2. CASE x # b
    <3>1. x \in WatchOf(ps) /\ qs[x] = ps[x] /\ x # 0
      BY <1>2, <1>8, <2>2
    <3>2. x \in Met(l, l.watch[a])
      BY <1>1, <3>1 DEF WatchMeets
    <3>3. l.watch[a] # 0
      BY <1>1, <3>1, <3>2, MetNull
    <3>4. m.watch[a] = l.watch[a]
      BY <1>6, <3>3 DEF HeadsSet
    <3>5. QED
      BY <1>10, <2>1, <3>1, <3>2, <3>4
  <2>3. CASE x = b /\ l.watch[a] = 0
    <3>1. m.watch[a] = b
      BY <1>2, <1>6, <2>3 DEF HeadsSet
    <3>2. QED
      BY <1>8, <2>3, <3>1, MetIs
  <2>4. CASE x = b /\ l.watch[a] # 0
    <3>1. a \in Covered(p) /\ m.watch[a] = l.watch[a] /\ l.watch[a] \in Points
      BY <1>1, <1>2, <1>6, <2>1, <2>4, TheTables DEF HeadsSet
    <3>2. PICK t \in Met(l, l.watch[a]) : Terminal(l, t)
      BY <1>1, <3>1, TerminalMet
    <3>3. m.next[t] = b /\ t # 0
      BY <1>6, <1>8, <2>4, <3>1, <3>2 DEF TailsSet, Terminal
    <3>4. t \in Met(m, m.watch[a])
      BY <1>10, <2>1, <3>1, <3>2, <3>3
    <3>5. Closed(m, Met(m, m.watch[a]))
      BY <1>8, <2>1, <3>1, MetIs
    <3>6. QED
      BY <2>4, <3>3, <3>4, <3>5 DEF Closed
  <2>5. QED
    BY <2>2, <2>3, <2>4
<1>20. WatchCircles(qs, m)
  <2> SUFFICES ASSUME NEW x \in WatchOf(qs) PROVE m.next[x] = x <=> Taken(qs, x)
    BY DEF WatchCircles
  <2>1. CASE x # b
    <3>1. x \in WatchOf(ps) /\ x \in Points /\ x # 0 /\ x \in 1 .. Len(ps)
      BY <1>2, <1>8, <2>1
    <3>2. m.next[x] = x <=> l.next[x] = x
      BY <1>9, <2>1, <3>1
    <3>3. QED
      BY <1>1, <1>2, <3>1, <3>2 DEF WatchCircles
  <2>2. CASE x = b
    <3>1. PICK g : g = p.address + p.size - 2
      OBVIOUS
    <3>2. m.next[b] = b <=> p.size >= 2 /\ \E c \in WatchOf(ps) : Spans(ps, c, g)
      BY <1>6, <3>1 DEF Circled
    <3>3. Taken(qs, b) <=> p.size >= 2 /\ \E c \in WatchOf(qs) : c < b /\ Spans(qs, c, g)
      BY <1>2, <3>1 DEF Taken
    <3>4. ~(b < b)
      BY <1>2, DebuggerFits DEF Points
    <3>5. (\E c \in WatchOf(qs) : c < b /\ Spans(qs, c, g)) <=> \E c \in WatchOf(ps) : Spans(ps, c, g)
      BY <1>2, <1>8, <3>4
    <3>6. QED
      BY <2>2, <3>2, <3>3, <3>5
  <2>3. QED
    BY <2>1, <2>2
<1>21. WatchSides(qs, m)
  <2> SUFFICES ASSUME NEW g \in Places, \A c \in WatchOf(qs) : ~Spans(qs, c, g),
                      NEW x \in WatchOf(qs), m.next[x] # 0
               PROVE  qs[x].address <= g <=> qs[m.next[x]].address <= g
    BY DEF WatchSides
  <2>1. \A c \in WatchOf(ps) : ~Spans(ps, c, g)
    BY <1>2, <1>8
  <2>2. CASE x = b
    BY <1>17, <2>2
  <2>3. CASE x # b
    <3>1. x \in WatchOf(ps) /\ x \in Points /\ qs[x] = ps[x] /\ x # 0
      BY <1>2, <1>8, <2>3
    <3>2. CASE m.next[x] = l.next[x]
      <4>1. l.next[x] \in WatchOf(ps) /\ (ps[x].address <= g <=> ps[l.next[x]].address <= g)
        BY <1>1, <2>1, <3>1, <3>2 DEF WatchLinks, WatchSides
      <4>2. qs[l.next[x]] = ps[l.next[x]]
        BY <1>2, <1>8, <4>1
      <4>3. QED
        BY <3>1, <3>2, <4>1, <4>2
    <3>3. CASE m.next[x] # l.next[x]
      <4>1. m.next[x] = b
        BY <1>9, <2>3, <3>1, <3>3
      <4>2. PICK d \in Covered(p) : x \in Met(l, l.watch[d])
        BY <1>9, <2>3, <3>1, <3>3
      <4>3. ps[x].address <= g <=> d <= g
        BY <1>5, <2>1, <3>1, <4>2, SidesMet
      <4>4. ~Spans(qs, b, g)
        BY <1>2
      <4>5. ~(g \in Covered(p) /\ g + 1 \in Covered(p))
        BY <1>2, <4>4 DEF Spans
      <4>6. g \in Nat
        BY DebuggerFits
      <4>7. \A e : e \in Covered(p) <=> e \in Nat /\ p.address <= e /\ e < p.address + p.size
        BY APoint
      <4>8. p.address <= d /\ d \in Nat /\ d < p.address + p.size
        BY <4>7
      <4>9. ~(p.address <= g /\ g + 1 < p.address + p.size)
        BY <1>5, <4>5, <4>6, <4>7
      <4>10. p.address <= g <=> d <= g
        BY <1>5, <4>6, <4>8, <4>9
      <4>11. QED
        BY <1>2, <3>1, <4>1, <4>3, <4>10
    <3>4. QED
      BY <3>2, <3>3
  <2>4. QED
    BY <2>2, <2>3
<1>22. QED
  BY <1>2, <1>6, <1>12, <1>13, <1>14, <1>15, <1>16, <1>18, <1>19, <1>20, <1>21 DEF ListsSound, BreakLists, WatchLists
(* The instructions and the loops. *)

\* An instruction leads to a place of the program.
LEMMA PlacesAre ==
  /\ 0 \in Places /\ \A a \in Places : Behind(a) \in Places
  /\ \A a \in Places : Program[a].to \in Places
BY DebuggerFits DEF Behind

LEMMA ExecutedTyped ==
  ASSUME NEW m \in [pc : Places, stack : Seq(Places)]
  PROVE  Executed(m) \in [pc : Places, stack : Seq(Places)]
<1>1. m.pc \in Places /\ m.stack \in Seq(Places)
  OBVIOUS
<1>2. Behind(m.pc) \in Places /\ Program[m.pc].to \in Places
  BY <1>1, PlacesAre
<1>3. <<Behind(m.pc)>> \o m.stack \in Seq(Places)
  BY <1>1, <1>2
<1>4. m.stack # <<>> => Head(m.stack) \in Places /\ Tail(m.stack) \in Seq(Places)
  BY <1>1
<1>5. PICK q : q = Executed(m)
  OBVIOUS
<1>6. \/ q = [pc |-> Program[m.pc].to, stack |-> <<Behind(m.pc)>> \o m.stack]
      \/ m.stack # <<>> /\ q = [pc |-> Head(m.stack), stack |-> Tail(m.stack)]
      \/ q = [m EXCEPT !.pc = Program[m.pc].to]
      \/ q = [m EXCEPT !.pc = Behind(m.pc)]
  BY <1>5 DEF Executed
<1>7. q \in [pc : Places, stack : Seq(Places)]
  <2>1. CASE q = [pc |-> Program[m.pc].to, stack |-> <<Behind(m.pc)>> \o m.stack]
    BY <1>2, <1>3, <2>1
  <2>2. CASE m.stack # <<>> /\ q = [pc |-> Head(m.stack), stack |-> Tail(m.stack)]
    BY <1>4, <2>2
  <2>3. ASSUME NEW a \in Places, q = [m EXCEPT !.pc = a] PROVE q \in [pc : Places, stack : Seq(Places)]
    BY <2>3
  <2>4. QED
    BY <1>2, <1>6, <2>1, <2>2, <2>3
<1>8. QED
  BY <1>5, <1>7

\* What handleBreakpoint returns, and that only a point makes it return more than "ok".
LEMMA AtPointIs ==
  ASSUME ListsSound(points, lists), NEW pc \in Places,
         NEW verdict \in [{b \in PointsAt(pc) : points[b].condition} -> Verdicts]
  PROVE  /\ AtPoint(pc, verdict) \in {"ok", "break", "error", "raise"}
         /\ AtPoint(pc, verdict) # "ok" => PointsAt(pc) # {}
         /\ AtPoint(pc, verdict) = "break" =>
              \E b \in 1 .. Len(points) : points[b].type = "break" /\ points[b].address = pc
<1>1. Fitting(points) /\ Tables(lists) /\ BreakHeads(points, lists) /\ BreakLinks(points, lists)
  BY DEF ListsSound, BreakLists
<1>2. PointsAt(pc) \subseteq {x \in OtherOf(points) : points[x].address = pc}
  BY <1>1, BreakMet DEF PointsAt
<1>3. \A x \in OtherOf(points) : x \in Nat /\ x \in 1 .. Len(points)
  BY DEF OtherOf
<1> DEFINE at == PointsAt(pc)
           asked == {b \in at : points[b].condition}
           bad == {b \in asked : verdict[b] \in {"error", "raise"}}
           fires == {b \in at : points[b].type = "break" /\ (b \in asked => verdict[b] = "true")}
           first == CHOOSE b \in bad : \A c \in bad : b <= c
<1>4. AtPoint(pc, verdict) = IF bad # {} THEN verdict[first] ELSE IF fires # {} THEN "break" ELSE "ok"
  BY Zenon DEF AtPoint
<1>5. ASSUME bad # {}
      PROVE  verdict[first] \in {"error", "raise"}
  <2>1. bad \in SUBSET Nat
    BY <1>2, <1>3
  <2>2. \E b \in bad : \A c \in bad : b <= c
    BY <1>5, <2>1, Lowest
  <2>3. first \in bad
    BY <2>2
  <2>4. QED
    BY <2>3
<1>6. bad # {} => at # {}
  OBVIOUS
<1>7. fires # {} => at # {} /\ \E b \in 1 .. Len(points) : points[b].type = "break" /\ points[b].address = pc
  BY <1>2, <1>3
<1> HIDE DEF at, bad, fires, first
<1>8. QED
  BY <1>4, <1>5, <1>6, <1>7 DEF at

\* An instruction that is executed, when no interrupt is pending.
LEMMA DoStepIs ==
  ASSUME DebuggerTyped, ListsSound(points, lists),
         NEW verdict \in [{b \in PointsAt(Executed(mach).pc) : points[b].condition} -> Verdicts],
         NEW s, s = DoStep(verdict)
  PROVE  /\ s.mach \in [pc : Places, stack : Seq(Places)] /\ s.flag \in [interrupt : BOOLEAN, break : BOOLEAN]
         /\ s.ret \in Returns
         /\ flag.interrupt => s.mach = mach /\ s.flag.break = flag.break
         /\ ~flag.interrupt =>
              /\ s.mach = Executed(mach)
              /\ s.flag.break => (flag.break \/ Watched(mach)) /\ PointsAt(s.mach.pc) # {}
              /\ flag.break \/ Watched(mach) => s.ret # "ok"
              /\ s.ret = "break" => \/ flag.break \/ Watched(mach)
                                    \/ \E b \in 1 .. Len(points) : points[b].type = "break"
                                                                   /\ points[b].address = s.mach.pc
<1>1. PICK after \in [pc : Places, stack : Seq(Places)] : after = Executed(mach)
  BY ExecutedTyped DEF DebuggerTyped
<1>2. PICK marked \in BOOLEAN : marked <=> flag.break \/ Watched(mach)
  OBVIOUS
<1>3. PICK hit : hit = AtPoint(after.pc, verdict)
  OBVIOUS
<1>4. /\ hit \in {"ok", "break", "error", "raise"}
      /\ hit # "ok" => PointsAt(after.pc) # {}
      /\ hit = "break" => \E b \in 1 .. Len(points) : points[b].type = "break" /\ points[b].address = after.pc
  <2>1. after.pc \in Places /\ verdict \in [{b \in PointsAt(after.pc) : points[b].condition} -> Verdicts]
    BY <1>1
  <2>2. QED
    BY <1>3, <2>1, AtPointIs
<1>5. flag \in [interrupt : BOOLEAN, break : BOOLEAN] /\ mach \in [pc : Places, stack : Seq(Places)]
  BY DEF DebuggerTyped
<1>6. CASE flag.interrupt
  <2>1. s = [ret |-> "interrupt", mach |-> mach, flag |-> [flag EXCEPT !.interrupt = FALSE]]
    BY <1>6 DEF DoStep
  <2>2. PICK f : f = [flag EXCEPT !.interrupt = FALSE]
    OBVIOUS
  <2>3. f \in [interrupt : BOOLEAN, break : BOOLEAN] /\ f.break = flag.break
    BY <1>5, <2>2
  <2>4. s.ret = "interrupt" /\ s.mach = mach /\ s.flag = f
    BY <2>1, <2>2
  <2>5. QED
    BY <1>5, <1>6, <2>3, <2>4 DEF Returns
<1>7. CASE ~flag.interrupt
  <2>1. PICK f : f = [flag EXCEPT !.break = (flag.break \/ Watched(mach)) /\ hit # "ok"]
    OBVIOUS
  <2>2. PICK v : v = IF hit = "ok" /\ (flag.break \/ Watched(mach)) THEN "break" ELSE hit
    OBVIOUS
  <2>3. s = [ret |-> v, mach |-> after, flag |-> f]
    BY <1>1, <1>3, <1>7, <2>1, <2>2, Zenon DEF DoStep
  <2>4. s.mach = after /\ s.flag = f /\ s.ret = v
    BY <2>3
  <2>5. f \in [interrupt : BOOLEAN, break : BOOLEAN] /\ (f.break <=> (flag.break \/ Watched(mach)) /\ hit # "ok")
    BY <1>5, <2>1
  <2>6. v = IF hit = "ok" /\ marked THEN "break" ELSE hit
    BY <1>2, <2>2, Zenon
  <2>7. /\ v \in Returns
        /\ marked => v # "ok"
        /\ v = "break" => marked \/ hit = "break"
    BY <1>4, <2>6 DEF Returns
  <2>8. f.break => marked /\ PointsAt(after.pc) # {}
    BY <1>2, <1>4, <2>5, Zenon
  <2>9. /\ s.mach \in [pc : Places, stack : Seq(Places)] /\ s.flag \in [interrupt : BOOLEAN, break : BOOLEAN]
        /\ s.ret \in Returns /\ s.mach = Executed(mach)
        /\ s.flag.break => marked /\ PointsAt(s.mach.pc) # {}
        /\ marked => s.ret # "ok"
        /\ s.ret = "break" => \/ marked
                              \/ \E b \in 1 .. Len(points) : points[b].type = "break"
                                                             /\ points[b].address = s.mach.pc
    <3>1. s.mach = after /\ s.flag = f /\ s.ret = v /\ after = Executed(mach)
      BY <1>1, <2>4
    <3>2. /\ after \in [pc : Places, stack : Seq(Places)] /\ f \in [interrupt : BOOLEAN, break : BOOLEAN]
          /\ v \in Returns
      BY <1>1, <2>5, <2>7
    <3>3. /\ f.break => marked /\ PointsAt(after.pc) # {}
          /\ marked => v # "ok"
          /\ v = "break" => \/ marked
                            \/ \E b \in 1 .. Len(points) : points[b].type = "break"
                                                           /\ points[b].address = after.pc
      BY <1>4, <2>7, <2>8, Zenon
    <3>4. QED
      BY <3>1, <3>2, <3>3, Zenon
  <2>10. QED
    BY <1>2, <1>7, <2>9
<1>8. QED
  BY <1>6, <1>7

Runs == [mode : Modes, arg : Int, inner : BOOLEAN, ret : Returns, going : BOOLEAN]

\* A run that is stopped has the reason it is stopped with.
LEMMA StoppedIs ==
  ASSUME NEW r \in Runs, NEW ret \in Returns
  PROVE  Stopped(r, ret) \in Runs /\ ~Stopped(r, ret).going /\ Stopped(r, ret).ret = ret
<1>1. PICK o \in [mode : Modes, arg : Int, inner : BOOLEAN, ret : Returns, going : BOOLEAN] : o = r
  BY DEF Runs
<1>2. PICK o1 : o1 = [o EXCEPT !.going = FALSE]
  OBVIOUS
<1>3. PICK o2 : o2 = [o1 EXCEPT !.ret = ret]
  OBVIOUS
<1>4. PICK o3 : o3 = [o2 EXCEPT !.arg = 0]
  OBVIOUS
<1>5. PICK q : q = [o3 EXCEPT !.inner = FALSE]
  OBVIOUS
<1>6. o1 \in [mode : Modes, arg : Int, inner : BOOLEAN, ret : Returns, going : BOOLEAN] /\ o1.going = FALSE
  BY <1>2
<1>7. o2 \in [mode : Modes, arg : Int, inner : BOOLEAN, ret : Returns, going : BOOLEAN] /\ o2.going = FALSE /\ o2.ret = ret
  BY <1>3, <1>6
<1>8. o3 \in [mode : Modes, arg : Int, inner : BOOLEAN, ret : Returns, going : BOOLEAN] /\ o3.going = FALSE /\ o3.ret = ret
  BY <1>4, <1>7
<1>9. q \in [mode : Modes, arg : Int, inner : BOOLEAN, ret : Returns, going : BOOLEAN] /\ q.going = FALSE /\ q.ret = ret
  BY <1>5, <1>8
<1>10. q = Stopped(r, ret)
  BY <1>1, <1>2, <1>3, <1>4, <1>5 DEF Stopped
<1>11. QED
  BY <1>9, <1>10 DEF Runs

\* A loop that ends has the reason of its last instruction,
LEMMA AgainIs ==
  ASSUME NEW r \in Runs, r.going, NEW ret \in Returns
  PROVE  /\ Again(r, ret) \in Runs
         /\ ~Again(r, ret).going => Again(r, ret).ret = ret
         /\ ret # "ok" => ~Again(r, ret).going
<1>1. CASE r.arg > 1 /\ ret = "ok"
  <2>1. PICK o \in [mode : Modes, arg : Int, inner : BOOLEAN, ret : Returns, going : BOOLEAN] : o = r
    BY DEF Runs
  <2>2. PICK n \in Int : n = o.arg - 1
    BY <2>1
  <2>3. PICK o1 : o1 = [o EXCEPT !.arg = n]
    OBVIOUS
  <2>4. PICK q : q = [o1 EXCEPT !.inner = FALSE]
    OBVIOUS
  <2>5. o1 \in [mode : Modes, arg : Int, inner : BOOLEAN, ret : Returns, going : BOOLEAN] /\ o1.going = o.going
    BY <2>3
  <2>6. q \in [mode : Modes, arg : Int, inner : BOOLEAN, ret : Returns, going : BOOLEAN] /\ q.going = o.going
    BY <2>4, <2>5
  <2>7. q = Again(r, ret)
    BY <1>1, <2>1, <2>2, <2>3, <2>4 DEF Again
  <2>8. QED
    BY <1>1, <2>1, <2>6, <2>7 DEF Runs
<1>2. CASE ~(r.arg > 1 /\ ret = "ok")
  <2>1. Again(r, ret) = Stopped(r, ret)
    BY <1>2 DEF Again
  <2>2. QED
    BY <2>1, StoppedIs
<1>3. QED
  BY <1>1, <1>2

\* also when it is left by another one within it.
LEMMA LoopedIs ==
  ASSUME NEW r \in Runs, r.going, NEW ret \in Returns, NEW guess, NEW after, NEW q, q = Looped(r, ret, guess, after)
  PROVE  /\ q \in Runs
         /\ ~q.going => q.ret = ret
         /\ ret # "ok" => ~q.going \/ (r.mode = "next" /\ ~r.inner)
<1>1. r.mode \in Modes /\ r.inner \in BOOLEAN
  BY DEF Runs
<1>2. CASE r.mode = "run"
  <2>1. q = IF ret = "ok" THEN r ELSE Stopped(r, ret)
    BY <1>2 DEF Looped
  <2>2. QED
    BY <2>1, StoppedIs
<1>3. CASE r.mode = "step"
  <2>1. q = Again(r, ret)
    BY <1>3 DEF Looped
  <2>2. QED
    BY <2>1, AgainIs
<1>4. CASE r.mode = "next" /\ r.inner
  <2>1. (q = r /\ ret = "ok") \/ q = Again(r, ret)
    BY <1>4 DEF Looped
  <2>2. QED
    BY <2>1, AgainIs
<1>5. CASE r.mode = "next" /\ ~r.inner
  <2>1. q = [r EXCEPT !.inner = TRUE] \/ q = Again(r, ret)
    BY <1>5 DEF Looped
  <2>2. [r EXCEPT !.inner = TRUE] \in Runs /\ [r EXCEPT !.inner = TRUE].going
    BY DEF Runs
  <2>3. CASE q = [r EXCEPT !.inner = TRUE]
    BY <1>5, <2>2, <2>3, Zenon
  <2>4. CASE q = Again(r, ret)
    BY <2>4, AgainIs
  <2>5. QED
    BY <2>1, <2>3, <2>4
<1>6. CASE r.mode = "until"
  <2>1. (q = r /\ ret = "ok") \/ q = Stopped(r, ret)
    BY <1>6 DEF Looped
  <2>2. QED
    BY <2>1, StoppedIs
<1>7. QED
  BY <1>1, <1>2, <1>3, <1>4, <1>5, <1>6 DEF Modes
(* The invariant. *)

LEMMA DebuggerInitIInv == DebuggerInit => DebuggerIInv
<1> SUFFICES ASSUME DebuggerInit PROVE DebuggerIInv
  OBVIOUS
<1> USE DEF DebuggerInit
<1>1. 0 \in Places /\ 0 \in Links /\ MaxPoints \in Nat
  BY DebuggerFits DEF Links
<1>2. DebuggerTyped
  <2>1. mach \in [pc : Places, stack : Seq(Places)]
    BY <1>1
  <2>2. run \in [mode : Modes, arg : Int, inner : BOOLEAN, ret : Returns, going : BOOLEAN]
    BY DEF Modes, Returns
  <2>3. QED
    BY <2>1, <2>2 DEF DebuggerTyped
<1>3. Fitting(points) /\ WatchOf(points) = {} /\ OtherOf(points) = {}
  BY <1>1 DEF Fitting, WatchOf, OtherOf
<1>4. /\ lists.break = [a \in Places |-> 0] /\ lists.watch = [a \in Places |-> 0]
      /\ lists.next = [b \in Points |-> 0] /\ Tables(lists)
  BY <1>1 DEF Points, Tables
<1>5. Unset(points, lists) /\ BreakLists(points, lists) /\ WatchLists(points, lists)
  BY <1>3, <1>4 DEF Unset, BreakLists, BreakHeads, BreakLinks, BreakMeets, WatchLists, WatchHeads, WatchLinks, WatchMeets,
                    WatchCircles, WatchSides
<1>6. QED
  BY <1>2, <1>3, <1>4, <1>5 DEF DebuggerIInv, ListsSound

LEMMA CreateKeeps ==
  ASSUME DebuggerIInv, CreateBreakpoint
  PROVE  DebuggerIInv'
<1> USE DEF CreateBreakpoint
<1>1. ListsSound(points, lists) /\ prompt = "call" /\ ~run.going
  BY DEF DebuggerIInv
<1>2. DebuggerTyped'
  BY DEF DebuggerIInv, DebuggerTyped
<1>3. PICK p \in NewPoints :
        LET b == Len(points) + 1
            ends == \A a \in Covered(p) : p.type = "watch" => ListEnds(lists, lists.watch[a])
        IN /\ points' = Append(points, p)
           /\ prompt' = IF ends THEN "call" ELSE "hung"
           /\ lists' = IF ~ends THEN lists
                       ELSE IF p.type = "watch" THEN WatchedFrom(lists, p, b)
                       ELSE Linked(lists, "break", b, p.address)
  BY Zenon
<1>4. PICK b : b = Len(points) + 1
  OBVIOUS
<1>5. PICK ends \in BOOLEAN : ends <=> \A a \in Covered(p) : p.type = "watch" => ListEnds(lists, lists.watch[a])
  OBVIOUS
<1>6. PICK qs : qs = Append(points, p)
  OBVIOUS
<1>7. PICK m : m = lists'
  OBVIOUS
<1>8. points' = qs /\ (ends => prompt' = "call") /\ (~ends => prompt' = "hung")
  BY <1>3, <1>5, <1>6, Zenon
<1>9. Sets(points, p, qs, b)
  BY <1>4, <1>6 DEF Sets
<1>10. ASSUME ends
       PROVE  ListsSound(qs, m)
  <2>1. CASE p.type = "watch"
    <3>1. m = WatchedFrom(lists, p, b)
      BY <1>3, <1>4, <1>5, <1>7, <1>10, <2>1, Zenon
    <3>2. \A a \in Covered(p) : ListEnds(lists, lists.watch[a])
      BY <1>5, <1>10, <2>1
    <3>3. QED
      BY <1>1, <1>9, <2>1, <3>1, <3>2, WatchSet
  <2>2. CASE p.type # "watch"
    <3>1. m = Linked(lists, "break", b, p.address)
      BY <1>3, <1>4, <1>5, <1>7, <1>10, <2>2, Zenon
    <3>2. QED
      BY <1>1, <1>9, <2>2, <3>1, BreakSet
  <2>3. QED
    BY <2>1, <2>2
<1>11. prompt' # "hung" => ListsSound(points', lists')
  BY <1>7, <1>8, <1>10
<1>12. ListsSound(points, lists)' <=> ListsSound(points', lists')
  BY Zenon DEF ListsSound, Fitting, Tables, Unset, BreakLists, BreakHeads, BreakLinks, BreakMeets, WatchLists, WatchHeads, WatchLinks,
        WatchMeets, WatchCircles, WatchSides, Taken, Spans, WatchOf, OtherOf
<1>13. QED
  BY <1>1, <1>2, <1>11 DEF DebuggerIInv

LEMMA ExecuteKeeps ==
  ASSUME DebuggerIInv, Execute
  PROVE  /\ DebuggerIInv'
         /\ ~run'.going /\ run'.ret = "break" =>
              \/ flag.interrupt \/ Watched(mach) \/ owed
              \/ \E b \in 1 .. Len(points) : points[b].type = "break" /\ points[b].address = mach'.pc
         /\ Watched(mach) /\ ~flag.interrupt => ~run'.going \/ (run.mode = "next" /\ ~run.inner)
         /\ flag.interrupt => mach' = mach
<1>1. /\ DebuggerTyped /\ run.going /\ prompt # "hung" /\ ListsSound(points, lists)
      /\ flag.break => owed
  BY DEF DebuggerIInv, Execute
<1>2. PICK verdict \in [{b \in PointsAt(Executed(mach).pc) : points[b].condition} -> Verdicts],
           guess \in IF run.mode = "next" THEN Guesses ELSE {"other"} :
             LET s == DoStep(verdict)
             IN /\ mach' = s.mach /\ flag' = s.flag
                /\ run' = IF s.ret = "raise" THEN Stopped(run, "raise") ELSE Looped(run, s.ret, guess, s.mach)
                /\ prompt' = IF s.ret = "raise" THEN "prompt" ELSE prompt
  BY Zenon DEF Execute
<1>3. PICK s : s = DoStep(verdict)
  OBVIOUS
<1>4. /\ mach' = s.mach /\ flag' = s.flag
      /\ run' = IF s.ret = "raise" THEN Stopped(run, "raise") ELSE Looped(run, s.ret, guess, s.mach)
      /\ prompt' = IF s.ret = "raise" THEN "prompt" ELSE prompt
      /\ owed' = IF flag.interrupt THEN owed ELSE (owed \/ Watched(mach)) /\ PointsAt(Executed(mach).pc) # {}
      /\ points' = points /\ lists' = lists
  BY <1>2, <1>3, Zenon DEF Execute
<1>5. /\ s.mach \in [pc : Places, stack : Seq(Places)] /\ s.flag \in [interrupt : BOOLEAN, break : BOOLEAN]
      /\ s.ret \in Returns
      /\ flag.interrupt => s.mach = mach /\ s.flag.break = flag.break
      /\ ~flag.interrupt =>
           /\ s.mach = Executed(mach)
           /\ s.flag.break => (flag.break \/ Watched(mach)) /\ PointsAt(s.mach.pc) # {}
           /\ flag.break \/ Watched(mach) => s.ret # "ok"
           /\ s.ret = "break" => \/ flag.break \/ Watched(mach)
                                 \/ \E b \in 1 .. Len(points) : points[b].type = "break"
                                                                /\ points[b].address = s.mach.pc
  BY <1>1, <1>3, DoStepIs
<1>6. run \in Runs /\ "raise" \in Returns
  BY <1>1 DEF DebuggerTyped, Runs, Returns
<1>7. /\ run' \in Runs
      /\ ~run'.going => run'.ret = s.ret
      /\ s.ret # "ok" => ~run'.going \/ (run.mode = "next" /\ ~run.inner)
  <2>1. CASE s.ret = "raise"
    <3>1. run' = Stopped(run, "raise")
      BY <1>4, <2>1
    <3>2. QED
      BY <1>6, <2>1, <3>1, StoppedIs
  <2>2. CASE s.ret # "raise"
    <3>1. PICK q : q = Looped(run, s.ret, guess, s.mach)
      OBVIOUS
    <3>2. run' = q
      BY <1>4, <2>2, <3>1
    <3>3. /\ q \in Runs
          /\ ~q.going => q.ret = s.ret
          /\ s.ret # "ok" => ~q.going \/ (run.mode = "next" /\ ~run.inner)
      BY <1>1, <1>5, <1>6, <3>1, LoopedIs
    <3>4. QED
      BY <3>2, <3>3
  <2>3. QED
    BY <2>1, <2>2
<1>8. DebuggerTyped'
  <2>1. owed' \in BOOLEAN /\ prompt' \in {"prompt", "more", "call", "hung", "closed"}
    BY <1>1, <1>4 DEF DebuggerTyped
  <2>2. QED
    BY <1>4, <1>5, <1>7, <2>1 DEF DebuggerTyped, Runs
<1>9. flag'.break => owed'
  <2>1. CASE flag.interrupt
    BY <1>1, <1>4, <1>5, <2>1, Zenon
  <2>2. CASE ~flag.interrupt
    BY <1>1, <1>4, <1>5, <2>2, Zenon
  <2>3. QED
    BY <2>1, <2>2
<1>10. prompt' # "hung" /\ ListsSound(points, lists)'
  BY <1>1, <1>4
<1>11. DebuggerIInv'
  BY <1>8, <1>9, <1>10 DEF DebuggerIInv
<1>12. ~run'.going /\ run'.ret = "break" =>
         \/ flag.interrupt \/ Watched(mach) \/ owed
         \/ \E b \in 1 .. Len(points) : points[b].type = "break" /\ points[b].address = mach'.pc
  BY <1>1, <1>4, <1>5, <1>7, Zenon
<1>13. Watched(mach) /\ ~flag.interrupt => ~run'.going \/ (run.mode = "next" /\ ~run.inner)
  BY <1>5, <1>7, Zenon
<1>14. QED
  BY <1>4, <1>5, <1>11, <1>12, <1>13

LEMMA NextKeeps ==
  ASSUME DebuggerIInv, [DebuggerNext]_debuggerVars
  PROVE  DebuggerIInv'
<1>1. CASE CreateBreakpoint
  BY <1>1, CreateKeeps
<1>2. CASE EmuRun
  <2>1. /\ DebuggerTyped /\ prompt = "call" /\ ListsSound(points, lists)
        /\ flag.break => owed
    BY <1>2 DEF DebuggerIInv, EmuRun
  <2>2. run \in Runs /\ "ok" \in Returns
    BY <2>1 DEF DebuggerTyped, Runs, Returns
  <2>3. \A mode \in Modes, arg \in Int, inner \in BOOLEAN : Started(mode, arg, inner) \in Runs
    BY DEF Started, Runs, Returns
  <2>4. Places \subseteq Int /\ MaxArg \in Nat
    BY DebuggerFits
  <2>5. run' \in Runs
    <3>1. CASE run' = Started("run", 0, FALSE)
      BY <3>1 DEF Started, Runs, Modes, Returns
    <3>2. ASSUME NEW n \in 1 .. MaxArg, NEW mode \in {"step", "next"}, run' = Started(mode, n, FALSE)
          PROVE  run' \in Runs
      BY <2>4, <3>2 DEF Started, Runs, Modes, Returns
    <3>3. CASE run' = Started("next", 1, TRUE)
      BY <3>3 DEF Started, Runs, Modes, Returns
    <3>4. ASSUME NEW a \in Places, run' = IF mach.pc = a THEN Stopped(run, "ok") ELSE Started("until", a, FALSE)
          PROVE  run' \in Runs
      BY <2>2, <2>3, <2>4, <3>4, StoppedIs DEF Modes
    <3>5. QED
      BY <1>2, <3>1, <3>2, <3>3, <3>4 DEF EmuRun
  <2>6. UNCHANGED <<mach, points, lists, flag, prompt, owed>>
    BY <1>2 DEF EmuRun
  <2>7. DebuggerTyped' /\ ListsSound(points, lists)'
    BY <2>1, <2>5, <2>6 DEF DebuggerTyped, Runs
  <2>8. QED
    BY <2>1, <2>6, <2>7 DEF DebuggerIInv
<1>3. CASE Execute
  BY <1>3, ExecuteKeeps
<1>4. CASE EmuReset
  <2>1. UNCHANGED <<points, lists, flag, prompt, run, owed>>
    BY <1>4 DEF EmuReset
  <2>2. mach' \in [pc : Places, stack : Seq(Places)]
    <3>1. mach \in [pc : Places, stack : Seq(Places)] /\ mach' = [mach EXCEPT !.pc = 0] /\ 0 \in Places
      BY <1>4, DebuggerFits DEF EmuReset, DebuggerIInv, DebuggerTyped
    <3>2. QED
      BY <3>1
  <2>3. DebuggerTyped'
    BY <2>1, <2>2 DEF DebuggerIInv, DebuggerTyped
  <2>4. QED
    BY <2>1, <2>3 DEF DebuggerIInv
<1>5. CASE EmuBreak
  <2>1. UNCHANGED <<mach, points, lists, prompt, run, owed>>
    BY <1>5 DEF EmuBreak
  <2>2. flag' \in [interrupt : BOOLEAN, break : BOOLEAN] /\ flag'.break = flag.break
    BY <1>5 DEF EmuBreak, DebuggerIInv, DebuggerTyped
  <2>3. DebuggerTyped'
    BY <2>1, <2>2 DEF DebuggerIInv, DebuggerTyped
  <2>4. QED
    BY <2>1, <2>2, <2>3 DEF DebuggerIInv
<1>6. CASE PushLine \/ EndOfInput \/ ChunkEnds
  <2>1. UNCHANGED <<mach, points, lists, flag, run, owed>> /\ prompt # "hung"
    BY <1>6 DEF PushLine, EndOfInput, ChunkEnds
  <2>2. prompt' \in {"prompt", "more", "call", "closed"}
    BY <1>6 DEF PushLine, EndOfInput, ChunkEnds
  <2>3. DebuggerTyped' /\ prompt' # "hung"
    BY <2>1, <2>2 DEF DebuggerIInv, DebuggerTyped
  <2>4. QED
    BY <2>1, <2>3 DEF DebuggerIInv
<1>7. CASE UNCHANGED debuggerVars
  BY <1>7 DEF debuggerVars, DebuggerIInv, DebuggerTyped
<1>8. QED
  BY <1>1, <1>2, <1>3, <1>4, <1>5, <1>6, <1>7 DEF DebuggerNext

LEMMA DebuggerAlways == DebuggerSpec => []DebuggerIInv
<1>1. DebuggerIInv /\ [DebuggerNext]_debuggerVars => DebuggerIInv'
  BY NextKeeps
<1>2. QED
  BY <1>1, DebuggerInitIInv, PTL DEF DebuggerSpec

\* emu_registerBreakpoint and emu_registerWatchpoint: every point is in the
\* lists of its addresses, and a list ends unless it leads to a watchpoint whose
\* last two addresses an older one has.
THEOREM DebuggerListsEndHolds == DebuggerSpec => []DebuggerListsEnd
<1>1. DebuggerIInv => DebuggerListsEnd
  BY ListsAre DEF DebuggerIInv, DebuggerListsEnd
<1>2. QED
  BY <1>1, DebuggerAlways, PTL

\* doStep: a run that ends with a break had a reason to, and a write to a
\* watched byte ends the run.
THEOREM DebuggerStopsJustifiedHolds == DebuggerSpec => DebuggerStopsJustified
<1>1. ASSUME DebuggerIInv, [DebuggerNext]_debuggerVars
      PROVE  [run.going =>
                /\ ~run'.going /\ run'.ret = "break" =>
                     \/ Watched(mach) \/ owed
                     \/ \E b \in 1 .. Len(points) : points[b].type = "break" /\ points[b].address = mach'.pc
                /\ Watched(mach) /\ ~flag.interrupt => ~run'.going \/ (run.mode = "next" /\ ~run.inner)
             ]_mach
  <2>1. CASE Execute
    BY <1>1, <2>1, ExecuteKeeps, Zenon
  <2>2. CASE EmuReset
    BY <2>2 DEF EmuReset
  <2>3. CASE mach' = mach
    BY <2>3
  <2>4. Execute \/ EmuReset \/ mach' = mach
    BY <1>1 DEF DebuggerNext, debuggerVars, CreateBreakpoint, EmuRun, EmuBreak, PushLine, EndOfInput, ChunkEnds
  <2>5. QED
    BY <2>1, <2>2, <2>3, <2>4
<1>2. QED
  BY <1>1, DebuggerAlways, PTL DEF DebuggerSpec, DebuggerStopsJustified

----------------------------------------------------------------------------
(* The arithmetic of the processor. *)

(* Sums of words. *)

Word == 0 .. W - 1
FlagNames == {"S", "Z", "H", "PV", "N", "C"}

\* A carry is 0 or 1.
LEMMA CarryIs ==
  ASSUME NEW c \in BOOLEAN
  PROVE  One(c) \in {0, 1} /\ (c <=> One(c) = 1)
BY DEF One

\* What doAddWord computes from two words and a carry; b2 is the second operand
\* with the carry added to it.
Second(b, in) == (b + in) % W
Total(a, b2, isSub) == IF isSub THEN a - b2 ELSE a + b2

Made(q, R, S, Z, H, PV, N, C) ==
  q = [R |-> R, F |-> [S |-> S, Z |-> Z, H |-> H, PV |-> PV, N |-> N, C |-> C]]

\* A record with its flags, field by field.
LEMMA TheFlags ==
  ASSUME NEW R, NEW S, NEW Z, NEW H, NEW PV, NEW N, NEW C, NEW q,
         Made(q, R, S, Z, H, PV, N, C)
  PROVE  q.R = R /\ q.F.S = S /\ q.F.Z = Z /\ q.F.H = H /\ q.F.PV = PV /\ q.F.N = N /\ q.F.C = C
BY DEF Made

WordAdded(q, sum, a, c, withCarry, isSub) ==
  /\ q.R = sum % W
  /\ q.F.C \in BOOLEAN /\ (q.F.C <=> sum < 0 \/ sum >= W)
  /\ withCarry \/ isSub =>
       /\ q.F.S = Bit(sum % W, SignBit)
       /\ q.F.Z = (sum = 0)
       /\ q.F.PV = Overflow(Bit(a, SignBit), Bit(c, SignBit), Bit(sum % W, SignBit), isSub)

\* What doAddWord leaves, in terms of the second operand with its carry.
LEMMA AddWordIs ==
  ASSUME NEW a \in Word, NEW b \in Word, NEW f, NEW withCarry \in BOOLEAN, NEW isSub \in BOOLEAN
  PROVE  LET c == Second(b, One(withCarry /\ f.C))
         IN  WordAdded(doAddWord([R |-> a, F |-> f], b, withCarry, isSub), Total(a, c, isSub), a, c, withCarry, isSub)
<1> PICK q : q = doAddWord([R |-> a, F |-> f], b, withCarry, isSub)
  OBVIOUS
<1> PICK in : in = One(withCarry /\ f.C)
  OBVIOUS
<1> PICK sum : sum = Total(a, Second(b, in), isSub)
  OBVIOUS
<1>1. in = IF withCarry /\ f.C THEN 1 ELSE 0
  BY DEF One
<1>2. PICK c : c = (b + (IF withCarry /\ f.C THEN 1 ELSE 0)) % W
  OBVIOUS
<1>3. c = Second(b, in)
  BY <1>1, <1>2 DEF Second
<1>4. sum = IF isSub THEN a - c ELSE a + c
  BY <1>3 DEF Total
<1> DEFINE sign == IF withCarry \/ isSub THEN Bit(sum % W, SignBit) ELSE f.S
           zero == IF withCarry \/ isSub THEN sum = 0 ELSE f.Z
           half == IF isSub THEN (a % 4096) < (c % 4096) ELSE (a % 4096) + (c % 4096) >= 4096
           over == IF withCarry \/ isSub
                 THEN Overflow(Bit(a, SignBit), Bit(c, SignBit), Bit(sum % W, SignBit), isSub)
                 ELSE f.PV
           out == sum < 0 \/ sum >= W
           res == sum % W
<1>5. Made(q, res, sign, zero, half, over, isSub, out)
  BY <1>2, <1>4 DEF doAddWord, Made
<1>6. q.R = res /\ q.F.C = out /\ q.F.S = sign /\ q.F.Z = zero /\ q.F.PV = over
  <2> HIDE DEF sign, zero, half, over, out, res
  <2>1. QED
    BY <1>5, TheFlags
<1>7. res = sum % W
  OBVIOUS
<1>8. out \in BOOLEAN /\ (out <=> sum < 0 \/ sum >= W)
  OBVIOUS
<1>9. ASSUME withCarry \/ isSub
      PROVE  /\ sign = Bit(sum % W, SignBit)
             /\ zero = (sum = 0)
             /\ over = Overflow(Bit(a, SignBit), Bit(c, SignBit), Bit(sum % W, SignBit), isSub)
  BY <1>9
<1>10. QED
  <2> HIDE DEF sign, zero, half, over, out, res
  <2>1. WordAdded(q, sum, a, c, withCarry, isSub)
    BY <1>6, <1>7, <1>8, <1>9 DEF WordAdded
  <2>2. QED
    BY <1>3, <2>1

LEMMA TheWords == W \in Int /\ SignBit \in Int /\ W = 2 * SignBit /\ SignBit > 1
BY DEF W, SignBit

\* Cut to a word, a number that is at most one word off loses or gains one.
LEMMA ModOnce ==
  ASSUME NEW s \in Int, -W <= s, s < 2 * W
  PROVE  s % W = IF s < 0 THEN s + W ELSE IF s >= W THEN s - W ELSE s
BY DEF W

\* The first bit of a word is its sign.
LEMMA SignIs ==
  ASSUME NEW x \in Word
  PROVE  Bit(x, SignBit) \in BOOLEAN /\ (Bit(x, SignBit) <=> x >= SignBit)
<1>1. ASSUME NEW y \in Int, 0 <= y, y < W
      PROVE  ((y \div SignBit) % 2) = 1 <=> y >= SignBit
  BY <1>1 DEF W, SignBit
<1>2. QED
  BY <1>1, TheWords DEF Bit, Word

\* The carry overflows the second operand only when that is all ones.
LEMMA SecondIs ==
  ASSUME NEW b \in Word, NEW in \in {0, 1}
  PROVE  Second(b, in) \in Word /\ Second(b, in) = IF in = 1 /\ b = W - 1 THEN 0 ELSE b + in
<1>1. PICK s \in Int : s = b + in /\ -W <= s /\ s < 2 * W
  BY TheWords DEF Word
<1>2. s % W = IF s < 0 THEN s + W ELSE IF s >= W THEN s - W ELSE s
  BY <1>1, ModOnce
<1>3. Second(b, in) = s % W
  BY <1>1 DEF Second
<1>4. QED
  BY <1>1, <1>2, <1>3, TheWords DEF Word

\* The exact sum, and how what doAddWord makes of it differs.
Exact(a, b, c, isSub) == IF isSub THEN a - b - c ELSE a + b + c
Wrapped(b, in) == in = 1 /\ b = W - 1

\* The sum that is made is the exact one, unless the carry was lost in the operand.
LEMMA TotalIs ==
  ASSUME NEW a \in Word, NEW b \in Word, NEW in \in {0, 1}, NEW isSub \in BOOLEAN,
         NEW sum, sum = Total(a, Second(b, in), isSub), NEW high, high = Exact(a, b, in, isSub)
  PROVE  /\ sum \in Int /\ -W < sum /\ sum < 2 * W - 1
         /\ high \in Int /\ -W <= high /\ high < 2 * W
         /\ ~Wrapped(b, in) => sum = high
         /\ Wrapped(b, in) => sum = a /\ (high = a - W \/ high = a + W)
<1>1. PICK c \in Word : c = Second(b, in) /\ c = IF in = 1 /\ b = W - 1 THEN 0 ELSE b + in
  BY SecondIs
<1>2. /\ a \in Int /\ 0 <= a /\ a < W /\ b \in Int /\ 0 <= b /\ b < W
      /\ c \in Int /\ 0 <= c /\ c < W
  BY TheWords DEF Word
<1>3. (sum = a - c /\ high = a - b - in) \/ (sum = a + c /\ high = a + b + in)
  BY <1>1 DEF Total, Exact
<1>4. CASE Wrapped(b, in)
  <2>1. c = 0 /\ in = 1 /\ b = W - 1
    BY <1>1, <1>4 DEF Wrapped
  <2>2. QED
    BY <1>2, <1>3, <1>4, <2>1, TheWords
<1>5. CASE ~Wrapped(b, in)
  <2>1. c = b + in
    BY <1>1, <1>5 DEF Wrapped
  <2>2. QED
    BY <1>2, <1>3, <1>5, <2>1, TheWords
<1>6. QED
  BY <1>4, <1>5

\* The result is right always; carry and zero are right but where the carry was lost.
LEMMA SumRight ==
  ASSUME NEW a \in Word, NEW b \in Word, NEW in \in {0, 1}, NEW isSub \in BOOLEAN,
         NEW sum, sum = Total(a, Second(b, in), isSub), NEW high, high = Exact(a, b, in, isSub)
  PROVE  /\ sum \in Int /\ high \in Int /\ sum % W = high % W
         /\ (sum < 0 \/ sum >= W <=> high \notin Word) <=> ~Wrapped(b, in)
         /\ (sum = 0 <=> high % W = 0) <=> (high # W \/ Wrapped(b, in))
<1>1. /\ sum \in Int /\ -W < sum /\ sum < 2 * W - 1
      /\ high \in Int /\ -W <= high /\ high < 2 * W
      /\ ~Wrapped(b, in) => sum = high
      /\ Wrapped(b, in) => sum = a /\ (high = a - W \/ high = a + W)
  BY TotalIs
<1>2. sum % W = IF sum < 0 THEN sum + W ELSE IF sum >= W THEN sum - W ELSE sum
  BY <1>1, ModOnce, TheWords
<1>3. high % W = IF high < 0 THEN high + W ELSE IF high >= W THEN high - W ELSE high
  BY <1>1, ModOnce, TheWords
<1>4. PICK m : m = high % W
  OBVIOUS
<1>5. PICK n : n = sum % W
  OBVIOUS
<1>6. CASE Wrapped(b, in)
  <2>1. a \in Int /\ 0 <= a /\ a < W
    BY TheWords DEF Word
  <2>2. n = a /\ m = a /\ sum = a /\ (high = a - W \/ high = a + W)
    BY <1>1, <1>2, <1>3, <1>4, <1>5, <1>6, <2>1, TheWords
  <2>3. QED
    BY <1>1, <1>4, <1>5, <1>6, <2>1, <2>2, TheWords DEF Word
<1>7. CASE ~Wrapped(b, in)
  <2>1. sum = high /\ m = n
    BY <1>1, <1>4, <1>5, <1>7, TheWords
  <2>2. m = 0 <=> high \in {-W, 0, W}
    BY <1>1, <1>3, <1>4, TheWords
  <2>3. high # -W
    BY <1>1, <2>1, TheWords
  <2>4. QED
    BY <1>1, <1>4, <1>5, <1>7, <2>1, <2>2, <2>3, TheWords DEF Word
<1>8. QED
  BY <1>6, <1>7

\* The signed comparison is right but where the carry changes the sign of the operand.
LEMMA SignRight ==
  ASSUME NEW a \in Word, NEW b \in Word, NEW in \in {0, 1}, NEW isSub \in BOOLEAN,
         NEW sum, sum = Total(a, Second(b, in), isSub), NEW s, s = Bit(sum % W, SignBit),
         NEW p, p = Overflow(Bit(a, SignBit), Bit(Second(b, in), SignBit), Bit(sum % W, SignBit), isSub)
  PROVE  (s # p <=> Exact(Signed(a), Signed(b), in, isSub) < 0) <=> ~(in = 1 /\ b = SignBit - 1)
<1>1. PICK c \in Word : c = Second(b, in) /\ c = IF in = 1 /\ b = W - 1 THEN 0 ELSE b + in
  BY SecondIs
<1>2. /\ a \in Int /\ 0 <= a /\ a < W /\ b \in Int /\ 0 <= b /\ b < W
      /\ c \in Int /\ 0 <= c /\ c < W
  BY TheWords DEF Word
<1>3. sum = IF isSub THEN a - c ELSE a + c
  BY <1>1 DEF Total
<1>4. sum \in Int /\ -W <= sum /\ sum < 2 * W
  BY <1>2, <1>3, TheWords
<1>5. PICK r : r = sum % W
  OBVIOUS
<1>6. r = IF sum < 0 THEN sum + W ELSE IF sum >= W THEN sum - W ELSE sum
  BY <1>4, <1>5, ModOnce
<1>7. r \in Int /\ 0 <= r /\ r < W /\ r \in Word
  BY <1>4, <1>6, TheWords DEF Word
<1>8. PICK x \in BOOLEAN : x = Bit(a, SignBit) /\ (x <=> a >= SignBit)
  BY SignIs
<1>9. PICK y \in BOOLEAN : y = Bit(Second(b, in), SignBit) /\ (y <=> c >= SignBit)
  BY <1>1, SignIs
<1>10. s \in BOOLEAN /\ (s <=> r >= SignBit)
  BY <1>5, <1>7, SignIs
<1>11. p = (((x # y) <=> isSub) /\ s # x)
  BY <1>8, <1>9 DEF Overflow
<1>12. PICK u : u = Signed(a) /\ u = IF a >= SignBit THEN a - W ELSE a
  BY DEF Signed
<1>13. PICK v : v = Signed(b) /\ v = IF b >= SignBit THEN b - W ELSE b
  BY DEF Signed
<1>14. PICK e : e = Exact(u, v, in, isSub) /\ e = IF isSub THEN u - v - in ELSE u + v + in
  BY DEF Exact
<1>15. u \in Int /\ v \in Int /\ e \in Int
  BY <1>2, <1>12, <1>13, <1>14, TheWords
<1> DEFINE less == e < 0
           over == ((a >= SignBit <=> c >= SignBit) <=> ~isSub) /\ ~(r >= SignBit <=> a >= SignBit)
<1>16. p \in BOOLEAN /\ (p <=> over)
  BY <1>8, <1>9, <1>10, <1>11
<1>17. (~(r >= SignBit <=> over) <=> less) <=> ~(in = 1 /\ b = SignBit - 1)
  <2>1. CASE isSub
    <3>1. /\ r = IF a < c THEN a - c + W ELSE a - c
          /\ e = u - v - in
          /\ over <=> ~(a >= SignBit <=> c >= SignBit) /\ ~(r >= SignBit <=> a >= SignBit)
      BY <1>2, <1>3, <1>6, <1>14, <2>1, TheWords
    <3>2. QED
      BY <1>1, <1>2, <1>12, <1>13, <1>15, <3>1, TheWords
  <2>2. CASE ~isSub
    <3>1. /\ r = IF a + c >= W THEN a + c - W ELSE a + c
          /\ e = u + v + in
          /\ over <=> (a >= SignBit <=> c >= SignBit) /\ ~(r >= SignBit <=> a >= SignBit)
      BY <1>2, <1>3, <1>6, <1>14, <2>2, TheWords
    <3>2. QED
      BY <1>1, <1>2, <1>12, <1>13, <1>15, <3>1, TheWords
  <2>3. QED
    BY <2>1, <2>2
<1>18. s # p <=> ~(r >= SignBit <=> over)
  <2> HIDE DEF over
  <2>1. QED
    BY <1>10, <1>16
<1>19. Exact(Signed(a), Signed(b), in, isSub) = e
  BY <1>12, <1>13, <1>14
<1>20. QED
  <2> HIDE DEF over
  <2>1. QED
    BY <1>17, <1>18, <1>19

(* Decimal sums.  A byte of two decimal digits is 16 * tens + ones. *)

LEMMA Nibbles ==
  ASSUME NEW p \in Int, NEW q \in Int, 0 <= q, q < 16
  PROVE  (16 * p + q) \div 16 = p /\ (16 * p + q) % 16 = q
OBVIOUS

\* The byte daa leaves for the tens g and the ones l, from -10 to 19 tens.
Digits(g, l) == 16 * (IF g >= 10 THEN g - 10 ELSE IF g < 0 THEN g + 10 ELSE g) + l

\* As a decimal, the byte is the number of its digits, without the hundreds.
LEMMA DigitsNumber ==
  ASSUME NEW g \in -10 .. 19, NEW l \in 0 .. 9
  PROVE  /\ Number(Digits(g, l)) = (10 * g + l) % 100
         /\ (10 * g + l \notin 0 .. 99 <=> g >= 10 \/ g < 0)
<1> PICK s : s = Digits(g, l)
  OBVIOUS
<1>1. PICK h \in Int : /\ h = IF g >= 10 THEN g - 10 ELSE IF g < 0 THEN g + 10 ELSE g
                       /\ 0 <= h /\ h <= 9
  OBVIOUS
<1>2. s = 16 * h + l
  BY <1>1 DEF Digits
<1>3. s \div 16 = h /\ s % 16 = l
  BY <1>1, <1>2, Nibbles
<1>4. (10 * g + l) % 100 = 10 * h + l
  BY <1>1
<1>5. 10 * g + l \notin 0 .. 99 <=> g >= 10 \/ g < 0
  OBVIOUS
<1>6. QED
  BY <1>3, <1>4, <1>5 DEF Number

Digit == 0 .. 9

\* What daa makes of r with a carry out of the tens and a correction of the ones.
Correction(carry, low) == 96 * One(carry) + 6 * One(low)

\* The exact sum e of the digits a, b and c, d and a carry, and the byte s that daa
\* makes of the binary sum r with the carries that left it.
AddCase(a, b, c, d, in, t, r, carry, low, s, e) ==
  /\ a \in Digit /\ b \in Digit /\ c \in Digit /\ d \in Digit /\ in \in {0, 1}
  /\ t \in Int /\ r \in Int /\ carry \in BOOLEAN /\ low \in BOOLEAN
  /\ t = (16 * a + b) + (16 * c + d) + in
  /\ r = IF t >= 256 THEN t - 256 ELSE t
  /\ carry <=> r > 153 \/ t >= 256
  /\ low <=> r % 16 > 9 \/ b + d >= 16
  /\ s = (r + Correction(carry, low)) % 256
  /\ e = (10 * a + b) + (10 * c + d) + in
SubCase(a, b, c, d, in, t, r, carry, low, s, e) ==
  /\ a \in Digit /\ b \in Digit /\ c \in Digit /\ d \in Digit /\ in \in {0, 1}
  /\ t \in Int /\ r \in Int /\ carry \in BOOLEAN /\ low \in BOOLEAN
  /\ t = (16 * a + b) - (16 * c + d) - in
  /\ r = IF t < 0 THEN t + 256 ELSE t
  /\ carry <=> r > 153 \/ t < 0
  /\ low <=> r % 16 > 9 \/ b < d
  /\ s = (r - Correction(carry, low)) % 256
  /\ e = (10 * a + b) - (10 * c + d) - in
DigitsRight(s, carry, e) == Number(s) = e % 100 /\ (carry <=> e \notin 0 .. 99)

\* daa is right after a sum, but where the half carry misses the carry that came in,
LEMMA AddDigits ==
  ASSUME NEW a, NEW b, NEW c, NEW d, NEW in, NEW t, NEW r, NEW carry, NEW low, NEW s, NEW e,
         AddCase(a, b, c, d, in, t, r, carry, low, s, e)
  PROVE  DigitsRight(s, carry, e) <=> ~(in = 1 /\ b + d = 15)
<1> /\ a \in Digit /\ b \in Digit /\ c \in Digit /\ d \in Digit /\ in \in {0, 1}
    /\ t \in Int /\ r \in Int /\ carry \in BOOLEAN /\ low \in BOOLEAN
  BY DEF AddCase
<1> USE DEF AddCase, DigitsRight
<1>1. /\ a \in Int /\ b \in Int /\ c \in Int /\ d \in Int /\ in \in Int
      /\ 0 <= a /\ a <= 9 /\ 0 <= b /\ b <= 9 /\ 0 <= c /\ c <= 9 /\ 0 <= d /\ d <= 9 /\ 0 <= in /\ in <= 1
  BY DEF Digit
<1>2. PICK l \in Int : l = b + d + in /\ 0 <= l /\ l <= 19
  BY <1>1
<1>3. PICK g \in Int : g = a + c /\ 0 <= g /\ g <= 18
  BY <1>1
<1>4. t = 16 * g + l /\ e = 10 * g + l
  BY <1>1, <1>2, <1>3
<1>5. r % 16 = IF l < 16 THEN l ELSE l - 16
  <2>1. PICK p \in Int : p = (IF t >= 256 THEN g - 16 ELSE g) + (IF l < 16 THEN 0 ELSE 1)
    BY <1>3
  <2>2. PICK q \in Int : q = (IF l < 16 THEN l ELSE l - 16) /\ 0 <= q /\ q < 16
    BY <1>2
  <2>3. r = 16 * p + q
    BY <1>4, <2>1, <2>2
  <2>4. r % 16 = q
    BY <2>2, <2>3, Nibbles
  <2>5. QED
    BY <2>2, <2>4
<1>6. carry <=> t > 153
  BY <1>4
<1> DEFINE Corrected(gg, ll) == t + 6 * One(low) = 16 * gg + ll /\ (carry <=> gg >= 10)
<1>7. ASSUME NEW gg \in 0 .. 19, NEW ll \in 0 .. 9, Corrected(gg, ll)
      PROVE  s = Digits(gg, ll)
  <2> PICK u \in Int : u = One(low)
    BY DEF One
  <2>1. CASE carry
    <3>1. r + Correction(carry, low) = r + 96 + 6 * u
      BY <1>7, <2>1 DEF Correction, One
    <3>2. r + 96 + 6 * u \in {16 * (gg - 10) + ll, 16 * (gg - 10) + ll + 256}
      BY <1>4, <1>7
    <3>3. 0 <= 16 * (gg - 10) + ll /\ 16 * (gg - 10) + ll < 256
      BY <1>7, <2>1
    <3>4. (r + 96 + 6 * u) % 256 = 16 * (gg - 10) + ll
      <4>1. PICK v \in Int : v = 16 * (gg - 10) + ll
        OBVIOUS
      <4>2. v % 256 = v /\ (v + 256) % 256 = v
        BY <3>3, <4>1
      <4>3. QED
        BY <3>2, <4>1, <4>2
    <3>5. Digits(gg, ll) = 16 * (gg - 10) + ll
      BY <1>7, <2>1 DEF Digits
    <3>6. s = (r + 96 + 6 * u) % 256
      BY <3>1
    <3>7. QED
      BY <3>4, <3>5, <3>6
  <2>2. CASE ~carry
    <3>1. r + Correction(carry, low) = t + 6 * u
      BY <1>4, <1>6, <1>7, <2>2 DEF Correction, One
    <3>2. PICK v \in Int : v = 16 * gg + ll /\ 0 <= v /\ v < 256 /\ 0 <= gg /\ gg < 10
      BY <1>7, <2>2
    <3>3. v % 256 = v
      BY <3>2
    <3>4. Digits(gg, ll) = v
      BY <3>2 DEF Digits
    <3>5. r + Correction(carry, low) = v
      BY <1>7, <3>1, <3>2
    <3>6. QED
      BY <3>3, <3>4, <3>5
  <2>3. QED
    BY <2>1, <2>2
<1>8. CASE l <= 9
  <2>1. ~low /\ One(low) = 0 /\ ~(in = 1 /\ b + d = 15)
    BY <1>1, <1>2, <1>5, <1>8 DEF One
  <2>2. carry <=> g >= 10
    BY <1>2, <1>3, <1>4, <1>6, <1>8
  <2>3. Corrected(g, l) /\ g \in 0 .. 19 /\ g \in -10 .. 19 /\ l \in 0 .. 9
    <3>1. t + 6 * 0 = 16 * g + l
      BY <1>4
    <3>2. g \in 0 .. 19 /\ g \in -10 .. 19 /\ l \in 0 .. 9
      BY <1>2, <1>3, <1>8
    <3>3. QED
      BY <2>1, <2>2, <3>1, <3>2
  <2>4. s = Digits(g, l)
    <3> HIDE DEF Corrected
    <3>1. QED
      BY <1>7, <2>3
  <2>5. Number(s) = (10 * g + l) % 100 /\ (10 * g + l \notin 0 .. 99 <=> g >= 10 \/ g < 0)
    BY <2>3, <2>4, DigitsNumber
  <2>6. QED
    BY <1>3, <1>4, <2>1, <2>2, <2>5
<1>9. CASE l >= 10 /\ ~(in = 1 /\ b + d = 15)
  <2>1. low /\ One(low) = 1
    BY <1>1, <1>2, <1>5, <1>9 DEF One
  <2>2. PICK gg \in 0 .. 19, ll \in 0 .. 9 : gg = g + 1 /\ ll = l - 10
    BY <1>2, <1>3, <1>9
  <2>3. t + 6 * 1 = 16 * gg + ll /\ e = 10 * gg + ll
    BY <1>4, <2>2
  <2>4. carry <=> gg >= 10
    BY <1>2, <1>3, <1>4, <1>6, <1>9, <2>2
  <2>5. Corrected(gg, ll) /\ gg \in -10 .. 19
    <3>1. gg \in -10 .. 19
      BY <2>2
    <3>2. QED
      BY <2>1, <2>3, <2>4, <3>1
  <2>6. s = Digits(gg, ll)
    <3> HIDE DEF Corrected
    <3>1. QED
      BY <1>7, <2>5
  <2>7. Number(s) = (10 * gg + ll) % 100 /\ (10 * gg + ll \notin 0 .. 99 <=> gg >= 10 \/ gg < 0)
    BY <2>5, <2>6, DigitsNumber
  <2>8. QED
    BY <1>9, <2>2, <2>3, <2>4, <2>7
<1>10. CASE in = 1 /\ b + d = 15
  <2>1. ~low /\ One(low) = 0 /\ l = 16
    BY <1>1, <1>2, <1>5, <1>10 DEF One
  <2>2. PICK gg \in 0 .. 19 : gg = g + 1
    BY <1>3
  <2>3. t + 6 * 0 = 16 * gg + 0 /\ e = 10 * gg + 6
    BY <1>4, <2>1, <2>2
  <2>4. carry <=> gg >= 10
    BY <1>2, <1>3, <1>4, <1>6, <2>1, <2>2
  <2>5. Corrected(gg, 0) /\ gg \in -10 .. 19 /\ 0 \in 0 .. 9
    BY <2>1, <2>3, <2>4
  <2>6. s = Digits(gg, 0)
    <3> HIDE DEF Corrected
    <3>1. QED
      BY <1>7, <2>5
  <2>7. Number(s) = (10 * gg + 0) % 100
    BY <2>5, <2>6, DigitsNumber
  <2>8. (10 * gg + 0) % 100 # (10 * gg + 6) % 100
    BY <2>2
  <2>9. QED
    BY <1>10, <2>3, <2>7, <2>8
<1>11. QED
  BY <1>1, <1>2, <1>8, <1>9, <1>10

\* and always after a difference.
LEMMA SubDigits ==
  ASSUME NEW a, NEW b, NEW c, NEW d, NEW in, NEW t, NEW r, NEW carry, NEW low, NEW s, NEW e,
         SubCase(a, b, c, d, in, t, r, carry, low, s, e)
  PROVE  DigitsRight(s, carry, e)
<1> /\ a \in Digit /\ b \in Digit /\ c \in Digit /\ d \in Digit /\ in \in {0, 1}
    /\ t \in Int /\ r \in Int /\ carry \in BOOLEAN /\ low \in BOOLEAN
  BY DEF SubCase
<1> USE DEF SubCase, DigitsRight
<1>1. /\ a \in Int /\ b \in Int /\ c \in Int /\ d \in Int /\ in \in Int
      /\ 0 <= a /\ a <= 9 /\ 0 <= b /\ b <= 9 /\ 0 <= c /\ c <= 9 /\ 0 <= d /\ d <= 9 /\ 0 <= in /\ in <= 1
  BY DEF Digit
<1>2. PICK l \in Int : l = b - d - in /\ -10 <= l /\ l <= 9
  BY <1>1
<1>3. PICK g \in Int : g = a - c /\ -9 <= g /\ g <= 9
  BY <1>1
<1>4. t = 16 * g + l /\ e = 10 * g + l
  BY <1>1, <1>2, <1>3
<1>5. r % 16 = IF l < 0 THEN l + 16 ELSE l
  <2>1. PICK p \in Int : p = (IF t < 0 THEN g + 16 ELSE g) - (IF l < 0 THEN 1 ELSE 0)
    BY <1>3
  <2>2. PICK q \in Int : q = (IF l < 0 THEN l + 16 ELSE l) /\ 0 <= q /\ q < 16
    BY <1>2
  <2>3. r = 16 * p + q
    BY <1>4, <2>1, <2>2
  <2>4. r % 16 = q
    BY <2>2, <2>3, Nibbles
  <2>5. QED
    BY <2>2, <2>4
<1>6. carry <=> t < 0
  BY <1>2, <1>3, <1>4
<1> DEFINE Corrected(gg, ll) == t - 6 * One(low) = 16 * gg + ll /\ (carry <=> gg < 0)
<1>7. ASSUME NEW gg \in -10 .. 9, NEW ll \in 0 .. 9, Corrected(gg, ll)
      PROVE  s = Digits(gg, ll)
  <2> PICK u \in Int : u = One(low)
    BY DEF One
  <2>1. CASE carry
    <3>1. r - Correction(carry, low) = r - 96 - 6 * u
      BY <1>7, <2>1 DEF Correction, One
    <3>2. r - 96 - 6 * u = 16 * (gg + 10) + ll
      BY <1>4, <1>6, <1>7, <2>1
    <3>3. (16 * (gg + 10) + ll) % 256 = 16 * (gg + 10) + ll
      <4>1. PICK v \in Int : v = 16 * (gg + 10) + ll /\ 0 <= v /\ v < 256
        BY <1>7, <2>1
      <4>2. v % 256 = v
        BY <4>1
      <4>3. QED
        BY <4>1, <4>2
    <3>4. Digits(gg, ll) = 16 * (gg + 10) + ll
      BY <1>7, <2>1 DEF Digits
    <3>5. r - Correction(carry, low) = Digits(gg, ll)
      BY <3>1, <3>2, <3>4
    <3>6. QED
      BY <3>3, <3>4, <3>5
  <2>2. CASE ~carry
    <3>1. r - Correction(carry, low) = t - 6 * u
      BY <1>4, <1>6, <1>7, <2>2 DEF Correction, One
    <3>2. PICK v \in Int : v = 16 * gg + ll /\ 0 <= v /\ v < 256 /\ 0 <= gg /\ gg < 10
      BY <1>7, <2>2
    <3>3. v % 256 = v
      BY <3>2
    <3>4. Digits(gg, ll) = v
      BY <3>2 DEF Digits
    <3>5. r - Correction(carry, low) = v
      BY <1>7, <3>1, <3>2
    <3>6. QED
      BY <3>3, <3>4, <3>5
  <2>3. QED
    BY <2>1, <2>2
<1>8. CASE l >= 0
  <2>1. ~low /\ One(low) = 0
    BY <1>1, <1>2, <1>5, <1>8 DEF One
  <2>2. carry <=> g < 0
    BY <1>2, <1>3, <1>4, <1>6, <1>8
  <2>3. Corrected(g, l) /\ g \in -10 .. 9 /\ g \in -10 .. 19 /\ l \in 0 .. 9
    <3>1. t - 6 * 0 = 16 * g + l
      BY <1>4
    <3>2. g \in -10 .. 9 /\ g \in -10 .. 19 /\ l \in 0 .. 9
      BY <1>2, <1>3, <1>8
    <3>3. QED
      BY <2>1, <2>2, <3>1, <3>2
  <2>4. s = Digits(g, l)
    <3> HIDE DEF Corrected
    <3>1. QED
      BY <1>7, <2>3
  <2>5. Number(s) = (10 * g + l) % 100 /\ (10 * g + l \notin 0 .. 99 <=> g >= 10 \/ g < 0)
    <3> HIDE DEF Corrected
    <3>1. g \in -10 .. 19 /\ l \in 0 .. 9
      BY <2>3
    <3>2. QED
      BY ONLY <2>4, <3>1, DigitsNumber
  <2>6. QED
    BY <1>3, <1>4, <2>2, <2>5
<1>9. CASE l < 0
  <2>1. low /\ One(low) = 1
    BY <1>1, <1>2, <1>5, <1>9 DEF One
  <2>2. PICK gg \in -10 .. 9, ll \in 0 .. 9 : gg = g - 1 /\ ll = l + 10
    BY <1>2, <1>3, <1>9
  <2>3. t - 6 * 1 = 16 * gg + ll /\ e = 10 * gg + ll
    BY <1>4, <2>2
  <2>4. carry <=> gg < 0
    BY <1>2, <1>3, <1>4, <1>6, <1>9, <2>2
  <2>5. Corrected(gg, ll) /\ gg \in -10 .. 19
    <3>1. gg \in -10 .. 19
      BY <2>2
    <3>2. QED
      BY <2>1, <2>3, <2>4, <3>1
  <2>6. s = Digits(gg, ll)
    <3> HIDE DEF Corrected
    <3>1. QED
      BY <1>7, <2>5
  <2>7. Number(s) = (10 * gg + ll) % 100 /\ (10 * gg + ll \notin 0 .. 99 <=> gg >= 10 \/ gg < 0)
    <3> HIDE DEF Corrected
    <3>1. gg \in -10 .. 19 /\ ll \in 0 .. 9
      BY <2>2, <2>5
    <3>2. QED
      BY ONLY <2>6, <3>1, DigitsNumber
  <2>8. QED
    BY <2>2, <2>3, <2>4, <2>7
<1>10. QED
  BY <1>2, <1>8, <1>9

----------------------------------------------------------------------------
(* The chains of words.                                                      *)

\* What adc hl or sbc hl leaves of the words a and b and the carry in.
HighRight(q, a, b, in, isSub) ==
  LET high == Exact(a, b, in, isSub)
  IN  /\ q.R = high % W
      /\ (q.F.C <=> high \notin Word) <=> ~Wrapped(b, in)
      /\ (q.F.Z <=> (high % W) = 0) <=> (high # W \/ Wrapped(b, in))
      /\ (q.F.S # q.F.PV <=> Exact(Signed(a), Signed(b), in, isSub) < 0) <=> ~(in = 1 /\ b = SignBit - 1)

\* The high words are added or subtracted with the carry or the borrow.
LEMMA HighWordsRight ==
  ASSUME NEW a \in Word, NEW b \in Word, NEW isSub \in BOOLEAN, NEW f
  PROVE  HighRight(doAddWord([R |-> a, F |-> f], b, TRUE, isSub), a, b, One(TRUE /\ f.C), isSub)
<1>1. PICK q : q = doAddWord([R |-> a, F |-> f], b, TRUE, isSub)
  OBVIOUS
<1>2. PICK in \in {0, 1} : in = One(TRUE /\ f.C)
  BY DEF One
<1>3. PICK sum : sum = Total(a, Second(b, in), isSub)
  OBVIOUS
<1>4. PICK high : high = Exact(a, b, in, isSub)
  OBVIOUS
<1>5. WordAdded(q, sum, a, Second(b, in), TRUE, isSub)
  BY <1>1, <1>2, <1>3, AddWordIs
<1>6. /\ q.R = sum % W
      /\ q.F.C \in BOOLEAN /\ (q.F.C <=> sum < 0 \/ sum >= W)
      /\ q.F.S = Bit(sum % W, SignBit)
      /\ q.F.Z = (sum = 0)
      /\ q.F.PV = Overflow(Bit(a, SignBit), Bit(Second(b, in), SignBit), Bit(sum % W, SignBit), isSub)
  BY <1>5 DEF WordAdded
<1>7. /\ sum \in Int /\ high \in Int /\ sum % W = high % W
      /\ (sum < 0 \/ sum >= W <=> high \notin Word) <=> ~Wrapped(b, in)
      /\ (sum = 0 <=> high % W = 0) <=> (high # W \/ Wrapped(b, in))
  BY <1>3, <1>4, SumRight
<1>8. (q.F.S # q.F.PV <=> Exact(Signed(a), Signed(b), in, isSub) < 0) <=> ~(in = 1 /\ b = SignBit - 1)
  BY <1>3, <1>6, SignRight
<1>9. (q.F.C <=> high \notin Word) <=> ~Wrapped(b, in)
  BY <1>6, <1>7
<1>10. (q.F.Z <=> (high % W) = 0) <=> (high # W \/ Wrapped(b, in))
  BY <1>6, <1>7
<1>11. HighRight(q, a, b, in, isSub)
  BY <1>4, <1>6, <1>7, <1>8, <1>9, <1>10 DEF HighRight
<1>12. QED
  BY <1>1, <1>2, <1>11

\* What add hl, or or a and sbc hl, leaves of the low words.
LowRight(q, a, b, isSub) ==
  LET sum == Exact(a, b, 0, isSub)
  IN  q.R = sum % W /\ q.F.C \in BOOLEAN /\ (q.F.C <=> sum \notin Word)

\* The low words are added or subtracted exactly.
LEMMA LowWordsRight ==
  ASSUME NEW a \in Word, NEW b \in Word, NEW isSub \in BOOLEAN, NEW f, isSub => f.C = FALSE
  PROVE  LowRight(doAddWord([R |-> a, F |-> f], b, isSub, isSub), a, b, isSub)
<1>1. PICK q : q = doAddWord([R |-> a, F |-> f], b, isSub, isSub)
  OBVIOUS
<1>2. 0 = One(isSub /\ f.C)
  BY DEF One
<1>3. Second(b, 0) = b
  BY SecondIs
<1>4. PICK sum : sum = Total(a, Second(b, 0), isSub)
  OBVIOUS
<1>5. WordAdded(q, sum, a, Second(b, 0), isSub, isSub)
  BY <1>1, <1>2, <1>4, AddWordIs
<1>6. q.R = sum % W /\ q.F.C \in BOOLEAN /\ (q.F.C <=> sum < 0 \/ sum >= W)
  BY <1>5 DEF WordAdded
<1>7. a \in Int /\ b \in Int
  BY TheWords DEF Word
<1>8. sum = Exact(a, b, 0, isSub) /\ sum \in Int
  BY <1>3, <1>4, <1>7 DEF Total, Exact
<1>9. sum < 0 \/ sum >= W <=> sum \notin Word
  BY <1>8, TheWords DEF Word
<1>10. LowRight(q, a, b, isSub)
  BY <1>6, <1>8, <1>9 DEF LowRight
<1>11. QED
  BY <1>1, <1>10

----------------------------------------------------------------------------
(* The chains of decimal bytes.                                              *)

\* The sum of two bytes and a carry, before it is cut to a byte.
Raw(x, y, in, isSub) == IF isSub THEN x - y - in ELSE x + y + in

Decimally(x, y, in, isSub, q) ==
  LET t == Raw(x, y, in, isSub)
  IN  /\ q.R = IF t < 0 THEN t + 256 ELSE IF t >= 256 THEN t - 256 ELSE t
      /\ q.F.N = isSub /\ q.F.H = HalfCarry(x, y, isSub)
      /\ q.F.C \in BOOLEAN /\ (q.F.C <=> t < 0 \/ t >= 256)
      /\ "C" \in DOMAIN q.F

\* A decimal byte and its digits.
LEMMA TheDigits ==
  ASSUME NEW x \in Decimals
  PROVE  \E a, b \in Digit : /\ x = 16 * a + b /\ x \in Int
                             /\ x \div 16 = a /\ x % 16 = b /\ Number(x) = 10 * a + b
<1>1. PICK a \in Digit, b \in Digit : x = 16 * a + b
  BY CpuFits DEF Digit
<1>2. a \in Int /\ b \in Int /\ 0 <= b /\ b < 16
  BY DEF Digit
<1>3. x \div 16 = a /\ x % 16 = b
  BY <1>1, <1>2, Nibbles
<1>4. Number(x) = 10 * a + b
  BY <1>3 DEF Number
<1>5. QED
  BY <1>1, <1>2, <1>3, <1>4

\* Of a sum of two bytes, the low byte and the ninth bit.
LEMMA ByteOf ==
  ASSUME NEW t \in Int, -256 <= t, t < 512
  PROVE  /\ (t % W) % 256 = IF t < 0 THEN t + 256 ELSE IF t >= 256 THEN t - 256 ELSE t
         /\ Bit(t % W, 256) \in BOOLEAN /\ (Bit(t % W, 256) <=> t < 0 \/ t >= 256)
<1>1. PICK m \in Int : m = t % W /\ m = IF t < 0 THEN t + W ELSE t
  BY ModOnce DEF W
<1>2. CASE t < 0
  <2>1. m = t + 65536
    BY <1>1, <1>2 DEF W
  <2>2. m % 256 = t + 256 /\ m \div 256 = 255
    BY <1>2, <2>1
  <2>3. QED
    BY <1>1, <1>2, <2>2 DEF Bit
<1>3. CASE t >= 0 /\ t < 256
  <2>1. m % 256 = t /\ m \div 256 = 0
    BY <1>1, <1>3
  <2>2. QED
    BY <1>1, <1>3, <2>1 DEF Bit
<1>4. CASE t >= 256
  <2>1. m % 256 = t - 256 /\ m \div 256 = 1
    BY <1>1, <1>4
  <2>2. QED
    BY <1>1, <1>4, <2>1 DEF Bit
<1>5. QED
  BY <1>2, <1>3, <1>4

\* What add, adc, sub and sbc leave for daa.
LEMMA ArithmeticRight ==
  ASSUME NEW x \in Decimals, NEW y \in Decimals, NEW f,
         NEW withCarry \in BOOLEAN, NEW isSub \in BOOLEAN
  PROVE  Decimally(x, y, One(withCarry /\ f.C), isSub, doArithmetic([R |-> x, F |-> f], y, withCarry, isSub))
<1>1. PICK q : q = doArithmetic([R |-> x, F |-> f], y, withCarry, isSub)
  OBVIOUS
<1>2. PICK in \in {0, 1} : /\ in = One(withCarry /\ f.C)
                           /\ in = IF withCarry /\ f.C THEN 1 ELSE 0
  BY DEF One
<1>3. PICK t : t = Raw(x, y, in, isSub)
  OBVIOUS
<1>4. PICK a \in Digit, b \in Digit : x = 16 * a + b
  BY TheDigits
<1>5. PICK c \in Digit, d \in Digit : y = 16 * c + d
  BY TheDigits
<1>6. t \in Int /\ -256 <= t /\ t < 512
  BY <1>3, <1>4, <1>5 DEF Raw, Digit
<1>7. PICK m : m = t % W
  OBVIOUS
<1>8. Made(q, m % 256, Bit(m, 128), (m % 256) = 0, HalfCarry(x, y, isSub),
           Overflow(Bit(x, 128), Bit(y, 128), Bit(m, 128), isSub), isSub, Bit(m, 256))
  BY <1>1, <1>2, <1>3, <1>7 DEF doArithmetic, Made, Raw
<1>9. q.R = m % 256 /\ q.F.N = isSub /\ q.F.H = HalfCarry(x, y, isSub) /\ q.F.C = Bit(m, 256)
  BY <1>8, TheFlags
<1>10. /\ m % 256 = IF t < 0 THEN t + 256 ELSE IF t >= 256 THEN t - 256 ELSE t
       /\ Bit(m, 256) \in BOOLEAN /\ (Bit(m, 256) <=> t < 0 \/ t >= 256)
  BY <1>6, <1>7, ByteOf
<1>11. "C" \in DOMAIN q.F
  BY <1>8 DEF Made
<1>12. Decimally(x, y, in, isSub, q)
  BY <1>3, <1>9, <1>10, <1>11 DEF Decimally
<1>13. QED
  BY <1>1, <1>2, <1>12

----------------------------------------------------------------------------
(* Shifts of two bytes, and the parity of a byte.                            *)

Octet == 0 .. 255

\* How many of the masks of S are set in v.
SetIn(v, S) == Cardinality({mask \in S : Bit(v, mask)})

LEMMA SetInEmpty ==
  ASSUME NEW v
  PROVE  SetIn(v, {}) = 0
<1>1. {mask \in {} : Bit(v, mask)} = {}
  OBVIOUS
<1>2. QED
  BY <1>1, FS_EmptySet DEF SetIn

\* Bits are counted mask by mask.
LEMMA SetInMore ==
  ASSUME NEW v, NEW S, IsFiniteSet(S), NEW m, m \notin S
  PROVE  /\ IsFiniteSet(S \cup {m})
         /\ SetIn(v, S) \in Nat
         /\ SetIn(v, S \cup {m}) = SetIn(v, S) + One(Bit(v, m))
<1> DEFINE old == {mask \in S : Bit(v, mask)}
           new == {mask \in S \cup {m} : Bit(v, mask)}
<1>1. IsFiniteSet(old) /\ Cardinality(old) \in Nat
  <2>1. old \subseteq S
    OBVIOUS
  <2>2. QED
    BY <2>1, FS_Subset, FS_CardinalityType
<1>2. Cardinality(new) = Cardinality(old) + One(Bit(v, m))
  <2>1. CASE Bit(v, m)
    <3>1. new = old \cup {m} /\ m \notin old
      BY <2>1
    <3>2. Cardinality(old \cup {m}) = Cardinality(old) + 1
      <4> HIDE DEF old
      <4>1. QED
        BY <1>1, <3>1, FS_AddElement
    <3>3. One(Bit(v, m)) = 1
      BY <2>1 DEF One
    <3>4. QED
      <4> HIDE DEF old, new
      <4>1. QED
        BY <3>1, <3>2, <3>3
  <2>2. CASE ~Bit(v, m)
    <3>1. new = old
      BY <2>2
    <3>2. One(Bit(v, m)) = 0
      BY <2>2 DEF One
    <3>3. QED
      <4> HIDE DEF old, new
      <4>1. QED
        BY <1>1, <3>1, <3>2
  <2>3. QED
    BY <2>1, <2>2
<1>3. IsFiniteSet(S \cup {m})
  BY FS_AddElement
<1>4. QED
  BY <1>1, <1>2, <1>3 DEF SetIn

LEMMA SetInMasks ==
  ASSUME NEW v
  PROVE  SetIn(v, Masks) = One(Bit(v, 1)) + One(Bit(v, 2)) + One(Bit(v, 4)) + One(Bit(v, 8))
                           + One(Bit(v, 16)) + One(Bit(v, 32)) + One(Bit(v, 64)) + One(Bit(v, 128))
<1> PICK a0, a1, a2, a3, a4, a5, a6, a7 :
      /\ a0 = One(Bit(v, 1)) /\ a1 = One(Bit(v, 2)) /\ a2 = One(Bit(v, 4)) /\ a3 = One(Bit(v, 8))
      /\ a4 = One(Bit(v, 16)) /\ a5 = One(Bit(v, 32)) /\ a6 = One(Bit(v, 64)) /\ a7 = One(Bit(v, 128))
  OBVIOUS
<1>1. /\ a0 \in Int /\ a1 \in Int /\ a2 \in Int /\ a3 \in Int
      /\ a4 \in Int /\ a5 \in Int /\ a6 \in Int /\ a7 \in Int
  BY DEF One
<1>2. IsFiniteSet({}) /\ SetIn(v, {}) = 0
  BY SetInEmpty, FS_EmptySet
<1>3. IsFiniteSet({1}) /\ SetIn(v, {1}) = a0
  <2>1. {} \cup {1} = {1}
    OBVIOUS
  <2>2. IsFiniteSet({} \cup {1}) /\ SetIn(v, {} \cup {1}) = SetIn(v, {}) + One(Bit(v, 1))
    BY <1>2, SetInMore
  <2>3. QED
    BY <1>1, <1>2, <2>1, <2>2
<1>4. IsFiniteSet({1, 2}) /\ SetIn(v, {1, 2}) = a0 + a1
  <2>1. {1} \cup {2} = {1, 2} /\ 2 \notin {1}
    OBVIOUS
  <2>2. /\ IsFiniteSet({1} \cup {2})
        /\ SetIn(v, {1} \cup {2}) = SetIn(v, {1}) + One(Bit(v, 2))
    BY <1>3, <2>1, SetInMore
  <2>3. QED
    BY <1>3, <2>1, <2>2
<1>5. IsFiniteSet({1, 2, 4}) /\ SetIn(v, {1, 2, 4}) = a0 + a1 + a2
  <2>1. {1, 2} \cup {4} = {1, 2, 4} /\ 4 \notin {1, 2}
    OBVIOUS
  <2>2. /\ IsFiniteSet({1, 2} \cup {4})
        /\ SetIn(v, {1, 2} \cup {4}) = SetIn(v, {1, 2}) + One(Bit(v, 4))
    BY <1>4, <2>1, SetInMore
  <2>3. QED
    BY <1>4, <2>1, <2>2
<1>6. IsFiniteSet({1, 2, 4, 8}) /\ SetIn(v, {1, 2, 4, 8}) = a0 + a1 + a2 + a3
  <2>1. {1, 2, 4} \cup {8} = {1, 2, 4, 8} /\ 8 \notin {1, 2, 4}
    OBVIOUS
  <2>2. /\ IsFiniteSet({1, 2, 4} \cup {8})
        /\ SetIn(v, {1, 2, 4} \cup {8}) = SetIn(v, {1, 2, 4}) + One(Bit(v, 8))
    BY <1>5, <2>1, SetInMore
  <2>3. QED
    BY <1>5, <2>1, <2>2
<1>7. IsFiniteSet({1, 2, 4, 8, 16}) /\ SetIn(v, {1, 2, 4, 8, 16}) = a0 + a1 + a2 + a3 + a4
  <2>1. {1, 2, 4, 8} \cup {16} = {1, 2, 4, 8, 16} /\ 16 \notin {1, 2, 4, 8}
    OBVIOUS
  <2>2. /\ IsFiniteSet({1, 2, 4, 8} \cup {16})
        /\ SetIn(v, {1, 2, 4, 8} \cup {16}) = SetIn(v, {1, 2, 4, 8}) + One(Bit(v, 16))
    BY <1>6, <2>1, SetInMore
  <2>3. QED
    BY <1>6, <2>1, <2>2
<1>8. IsFiniteSet({1, 2, 4, 8, 16, 32}) /\ SetIn(v, {1, 2, 4, 8, 16, 32}) = a0 + a1 + a2 + a3 + a4 + a5
  <2>1. {1, 2, 4, 8, 16} \cup {32} = {1, 2, 4, 8, 16, 32} /\ 32 \notin {1, 2, 4, 8, 16}
    OBVIOUS
  <2>2. /\ IsFiniteSet({1, 2, 4, 8, 16} \cup {32})
        /\ SetIn(v, {1, 2, 4, 8, 16} \cup {32}) = SetIn(v, {1, 2, 4, 8, 16}) + One(Bit(v, 32))
    BY <1>7, <2>1, SetInMore
  <2>3. QED
    BY <1>7, <2>1, <2>2
<1>9. IsFiniteSet({1, 2, 4, 8, 16, 32, 64}) /\ SetIn(v, {1, 2, 4, 8, 16, 32, 64}) = a0 + a1 + a2 + a3 + a4 + a5 + a6
  <2>1. {1, 2, 4, 8, 16, 32} \cup {64} = {1, 2, 4, 8, 16, 32, 64} /\ 64 \notin {1, 2, 4, 8, 16, 32}
    OBVIOUS
  <2>2. /\ IsFiniteSet({1, 2, 4, 8, 16, 32} \cup {64})
        /\ SetIn(v, {1, 2, 4, 8, 16, 32} \cup {64}) = SetIn(v, {1, 2, 4, 8, 16, 32}) + One(Bit(v, 64))
    BY <1>8, <2>1, SetInMore
  <2>3. QED
    BY <1>8, <2>1, <2>2
<1>10. IsFiniteSet({1, 2, 4, 8, 16, 32, 64, 128}) /\ SetIn(v, {1, 2, 4, 8, 16, 32, 64, 128}) = a0 + a1 + a2 + a3 + a4 + a5 + a6 + a7
  <2>1. {1, 2, 4, 8, 16, 32, 64} \cup {128} = {1, 2, 4, 8, 16, 32, 64, 128} /\ 128 \notin {1, 2, 4, 8, 16, 32, 64}
    OBVIOUS
  <2>2. /\ IsFiniteSet({1, 2, 4, 8, 16, 32, 64} \cup {128})
        /\ SetIn(v, {1, 2, 4, 8, 16, 32, 64} \cup {128}) = SetIn(v, {1, 2, 4, 8, 16, 32, 64}) + One(Bit(v, 128))
    BY <1>9, <2>1, SetInMore
  <2>3. QED
    BY <1>9, <2>1, <2>2
<1>11. QED
  BY <1>10 DEF Masks

\* A number below 16 has four bits.
LEMMA NibbleBits ==
  ASSUME NEW n \in 0 .. 15
  PROVE  \E b3, b2, b1, b0 \in {0, 1} : n = 8 * b3 + 4 * b2 + 2 * b1 + b0
<1>1. PICK b3 \in {0, 1}, r3 \in Int : n = 8 * b3 + r3 /\ 0 <= r3 /\ r3 < 8
  <2>1. CASE n < 8
    BY <2>1
  <2>2. CASE n >= 8
    <3>1. n = 8 * 1 + (n - 8) /\ n - 8 \in Int /\ 0 <= n - 8 /\ n - 8 < 8
      BY <2>2
    <3>2. QED
      BY <3>1
  <2>3. QED
    BY <2>1, <2>2
<1>2. PICK b2 \in {0, 1}, r2 \in Int : r3 = 4 * b2 + r2 /\ 0 <= r2 /\ r2 < 4
  <2>1. CASE r3 < 4
    BY <1>1, <2>1
  <2>2. CASE r3 >= 4
    <3>1. r3 = 4 * 1 + (r3 - 4) /\ r3 - 4 \in Int /\ 0 <= r3 - 4 /\ r3 - 4 < 4
      BY <1>1, <2>2
    <3>2. QED
      BY <3>1
  <2>3. QED
    BY <2>1, <2>2
<1>3. PICK b1 \in {0, 1}, b0 \in {0, 1} : r2 = 2 * b1 + b0
  <2>1. r2 \in {0, 1, 2, 3}
    BY <1>2
  <2>2. 0 = 2 * 0 + 0 /\ 1 = 2 * 0 + 1 /\ 2 = 2 * 1 + 0 /\ 3 = 2 * 1 + 1
    OBVIOUS
  <2>3. QED
    BY <2>1, <2>2
<1>4. n = 8 * b3 + 4 * b2 + 2 * b1 + b0
  BY <1>1, <1>2, <1>3
<1>5. QED
  BY <1>4

\* The row of the table is 1 at the numbers with an even number of bits.
LEMMA RowIs ==
  ASSUME NEW b3 \in {0, 1}, NEW b2 \in {0, 1}, NEW b1 \in {0, 1}, NEW b0 \in {0, 1}
  PROVE  ParityRow[8 * b3 + 4 * b2 + 2 * b1 + b0 + 1] = 1 - ((b3 + b2 + b1 + b0) % 2)
BY DEF ParityRow

\* The bits of a byte.
Byte(h3, h2, h1, h0, l3, l2, l1, l0) ==
  16 * (8 * h3 + 4 * h2 + 2 * h1 + h0) + (8 * l3 + 4 * l2 + 2 * l1 + l0)

\* The masks read the bits of a byte.
LEMMA BitsAre ==
  ASSUME NEW h3 \in {0, 1}, NEW h2 \in {0, 1}, NEW h1 \in {0, 1}, NEW h0 \in {0, 1},
         NEW l3 \in {0, 1}, NEW l2 \in {0, 1}, NEW l1 \in {0, 1}, NEW l0 \in {0, 1},
         NEW v, v = Byte(h3, h2, h1, h0, l3, l2, l1, l0)
  PROVE  /\ One(Bit(v, 128)) = h3 /\ One(Bit(v, 64)) = h2 /\ One(Bit(v, 32)) = h1 /\ One(Bit(v, 16)) = h0
         /\ One(Bit(v, 8)) = l3 /\ One(Bit(v, 4)) = l2 /\ One(Bit(v, 2)) = l1 /\ One(Bit(v, 1)) = l0
<1>1. v = 128 * h3 + 64 * h2 + 32 * h1 + 16 * h0 + 8 * l3 + 4 * l2 + 2 * l1 + l0
  BY DEF Byte
<1>2. v \div 128 = h3
  BY <1>1
<1>3. PICK p64 \in Int : v \div 64 = 2 * p64 + h2
  <2>1. PICK p \in Int : p = h3
    OBVIOUS
  <2>2. v \div 64 = 2 * p + h2
    BY <1>1, <2>1
  <2>3. QED
    BY <2>2
<1>4. PICK p32 \in Int : v \div 32 = 2 * p32 + h1
  <2>1. PICK p \in Int : p = 2 * h3 + h2
    OBVIOUS
  <2>2. v \div 32 = 2 * p + h1
    BY <1>1, <2>1
  <2>3. QED
    BY <2>2
<1>5. PICK p16 \in Int : v \div 16 = 2 * p16 + h0
  <2>1. PICK p \in Int : p = 4 * h3 + 2 * h2 + h1
    OBVIOUS
  <2>2. v \div 16 = 2 * p + h0
    BY <1>1, <2>1
  <2>3. QED
    BY <2>2
<1>6. PICK p8 \in Int : v \div 8 = 2 * p8 + l3
  <2>1. PICK p \in Int : p = 8 * h3 + 4 * h2 + 2 * h1 + h0
    OBVIOUS
  <2>2. v \div 8 = 2 * p + l3
    BY <1>1, <2>1
  <2>3. QED
    BY <2>2
<1>7. PICK p4 \in Int : v \div 4 = 2 * p4 + l2
  <2>1. PICK p \in Int : p = 16 * h3 + 8 * h2 + 4 * h1 + 2 * h0 + l3
    OBVIOUS
  <2>2. v \div 4 = 2 * p + l2
    BY <1>1, <2>1
  <2>3. QED
    BY <2>2
<1>8. PICK p2 \in Int : v \div 2 = 2 * p2 + l1
  <2>1. PICK p \in Int : p = 32 * h3 + 16 * h2 + 8 * h1 + 4 * h0 + 2 * l3 + l2
    OBVIOUS
  <2>2. v \div 2 = 2 * p + l1
    BY <1>1, <2>1
  <2>3. QED
    BY <2>2
<1>9. PICK p1 \in Int : v \div 1 = 2 * p1 + l0
  <2>1. PICK p \in Int : p = 64 * h3 + 32 * h2 + 16 * h1 + 8 * h0 + 4 * l3 + 2 * l2 + l1
    OBVIOUS
  <2>2. v \div 1 = 2 * p + l0
    BY <1>1, <2>1
  <2>3. QED
    BY <2>2
<1>10. ASSUME NEW p \in Int, NEW b \in {0, 1}
       PROVE  (2 * p + b) % 2 = b
  OBVIOUS
<1>11. ASSUME NEW m, NEW p \in Int, NEW b \in {0, 1}, v \div m = 2 * p + b
       PROVE  One(Bit(v, m)) = b
  BY <1>10, <1>11 DEF One, Bit
<1>12. QED
  <2>1. One(Bit(v, 128)) = h3
    BY <1>2 DEF One, Bit
  <2>2. One(Bit(v, 64)) = h2
    BY <1>3, <1>11
  <2>3. One(Bit(v, 32)) = h1
    BY <1>4, <1>11
  <2>4. One(Bit(v, 16)) = h0
    BY <1>5, <1>11
  <2>5. One(Bit(v, 8)) = l3
    BY <1>6, <1>11
  <2>6. One(Bit(v, 4)) = l2
    BY <1>7, <1>11
  <2>7. One(Bit(v, 2)) = l1
    BY <1>8, <1>11
  <2>8. One(Bit(v, 1)) = l0
    BY <1>9, <1>11
  <2>9. QED
    BY <2>1, <2>2, <2>3, <2>4, <2>5, <2>6, <2>7, <2>8

\* The table of the code tells the parity of every byte.
LEMMA ParityRight ==
  ASSUME NEW v \in Octet
  PROVE  parityBit(v) <=> (Cardinality({mask \in Masks : Bit(v, mask)}) % 2) = 0
<1>1. PICK h \in 0 .. 15, l \in 0 .. 15 : v = 16 * h + l /\ v \div 16 = h /\ v % 16 = l
  <2>1. v \div 16 \in 0 .. 15 /\ v % 16 \in 0 .. 15 /\ v = 16 * (v \div 16) + (v % 16)
    BY DEF Octet
  <2>2. QED
    BY <2>1
<1>2. PICK h3, h2, h1, h0 \in {0, 1} : h = 8 * h3 + 4 * h2 + 2 * h1 + h0
  BY NibbleBits
<1>3. PICK l3, l2, l1, l0 \in {0, 1} : l = 8 * l3 + 4 * l2 + 2 * l1 + l0
  BY NibbleBits
<1>4. v = Byte(h3, h2, h1, h0, l3, l2, l1, l0)
  BY <1>1, <1>2, <1>3 DEF Byte
<1>5. PICK x \in Int : x = h3 + h2 + h1 + h0
  OBVIOUS
<1>6. PICK y \in Int : y = l3 + l2 + l1 + l0
  OBVIOUS
<1>7. ParityRow[h + 1] = 1 - (x % 2)
  BY <1>2, <1>5, RowIs
<1>8. ParityRow[l + 1] = 1 - (y % 2)
  BY <1>3, <1>6, RowIs
<1>9. parityBit(v) <=> 1 - (x % 2) = 1 - (y % 2)
  BY <1>1, <1>7, <1>8 DEF parityBit
<1>10. (1 - (x % 2) = 1 - (y % 2)) <=> ((x + y) % 2) = 0
  BY <1>5, <1>6
<1>11. SetIn(v, Masks) = x + y
  <2>1. /\ One(Bit(v, 128)) = h3 /\ One(Bit(v, 64)) = h2 /\ One(Bit(v, 32)) = h1 /\ One(Bit(v, 16)) = h0
        /\ One(Bit(v, 8)) = l3 /\ One(Bit(v, 4)) = l2 /\ One(Bit(v, 2)) = l1 /\ One(Bit(v, 1)) = l0
    BY <1>4, BitsAre
  <2>2. SetIn(v, Masks) = l0 + l1 + l2 + l3 + h0 + h1 + h2 + h3
    BY <2>1, SetInMasks
  <2>3. QED
    BY <1>5, <1>6, <2>2
<1>12. QED
  BY <1>9, <1>10, <1>11 DEF SetIn

\* A byte as its first bit and the others, and as the others and its last bit.
Halves(v, top, rest, half, last) ==
  /\ v = 128 * top + rest /\ v = 2 * half + last
  /\ top = One(Bit(v, 128)) /\ last = One(Bit(v, 1))
  /\ Bit(v, 128) <=> top = 1
  /\ Bit(v, 1) <=> last = 1
  /\ (2 * v) % 256 = 2 * rest /\ v \div 2 = half

\* A byte has a first and a last bit.
LEMMA ByteBit ==
  ASSUME NEW v \in Octet
  PROVE  \E top \in {0, 1}, rest \in 0 .. 127, half \in 0 .. 127, last \in {0, 1} : Halves(v, top, rest, half, last)
<1>1. PICK top \in {0, 1}, rest \in 0 .. 127 : v = 128 * top + rest
  <2>1. CASE v < 128
    <3>1. v \in 0 .. 127 /\ v = 128 * 0 + v
      BY <2>1 DEF Octet
    <3>2. QED
      BY <3>1
  <2>2. CASE v >= 128
    <3>1. v - 128 \in 0 .. 127 /\ v = 128 * 1 + (v - 128)
      BY <2>2 DEF Octet
    <3>2. QED
      BY <3>1
  <2>3. QED
    BY <2>1, <2>2 DEF Octet
<1>2. PICK half \in 0 .. 127, last \in {0, 1} : v = 2 * half + last
  <2>1. v \div 2 \in 0 .. 127 /\ v % 2 \in {0, 1} /\ v = 2 * (v \div 2) + (v % 2)
    BY DEF Octet
  <2>2. QED
    BY <2>1
<1>3. v \div 128 = top /\ top % 2 = top
  BY <1>1
<1>4. v \div 2 = half /\ v % 2 = last /\ v \div 1 = v
  BY <1>2
<1>5. (Bit(v, 128) <=> top = 1) /\ (Bit(v, 1) <=> last = 1)
  BY <1>3, <1>4 DEF Bit
<1>6. top = One(Bit(v, 128)) /\ last = One(Bit(v, 1))
  BY <1>5 DEF One
<1>7. (2 * v) % 256 = 2 * rest
  BY <1>1
<1>8. Halves(v, top, rest, half, last)
  BY <1>1, <1>2, <1>4, <1>5, <1>6, <1>7 DEF Halves
<1>9. QED
  BY <1>8

ShiftedTo(q, val, out) == q.R = val /\ q.F.PV = parityBit(val) /\ q.F.C = out

LEMMA OnePlaceIs ==
  ASSUME NEW val, NEW out
  PROVE  ShiftedTo(OnePlace(val, out), val, out)
BY DEF OnePlace, ShiftedTo

LEMMA ShiftLeftRight ==
  ASSUME NEW h \in ShiftBytes, NEW l \in ShiftBytes, ShiftLeft(h, l)
  PROVE  CpuShifts'
<1>1. h \in Octet /\ l \in Octet /\ h \in Int /\ l \in Int
  BY CpuFits DEF Octet
<1>2. PICK ht \in {0, 1}, hr \in 0 .. 127, hh \in 0 .. 127, hl \in {0, 1} : Halves(h, ht, hr, hh, hl)
  BY <1>1, ByteBit
<1>3. PICK lt \in {0, 1}, lr \in 0 .. 127, lh \in 0 .. 127, ll \in {0, 1} : Halves(l, lt, lr, lh, ll)
  BY <1>1, ByteBit
<1>4. h = 128 * ht + hr /\ ht = One(Bit(h, 128)) /\ (Bit(h, 128) <=> ht = 1) /\ (2 * h) % 256 = 2 * hr
  BY <1>2 DEF Halves
<1>5. l = 128 * lt + lr /\ lt = One(Bit(l, 128)) /\ (2 * l) % 256 = 2 * lr
  BY <1>3 DEF Halves
<1>6. PICK q : q = doSL(l)
  OBVIOUS
<1>7. q.R = 2 * lr /\ q.F.C = Bit(l, 128)
  <2>1. ShiftedTo(q, (2 * l) % 256, Bit(l, 128))
    BY <1>6, OnePlaceIs DEF doSL
  <2>2. QED
    BY <1>5, <2>1 DEF ShiftedTo
<1>8. One(q.F.C) = lt
  BY <1>5, <1>7
<1>9. PICK val \in Int : val = 2 * hr + lt
  OBVIOUS
<1>10. alu'.R = val /\ alu'.F.PV = parityBit(val) /\ alu'.F.C = Bit(h, 128)
  <2>1. val = ((2 * h) % 256) + One(q.F.C)
    BY <1>4, <1>8, <1>9
  <2>2. ShiftedTo(alu', val, Bit(h, 128))
    BY <1>6, <2>1, OnePlaceIs DEF ShiftLeft, doRL
  <2>3. QED
    BY <2>2 DEF ShiftedTo
<1>11. job'.kind = "left" /\ job'.h = h /\ job'.l = l /\ job'.other = 2 * lr
  BY <1>6, <1>7 DEF ShiftLeft
<1>12. PICK n \in Int : n = 2 * (256 * h + l)
  BY <1>1
<1>13. n = W * ht + (512 * hr + 256 * lt + 2 * lr)
  <2>1. n = 65536 * ht + (512 * hr + 256 * lt + 2 * lr)
    <3>1. h = 128 * ht + hr /\ l = 128 * lt + lr
      BY <1>4, <1>5
    <3>2. 256 * h = 32768 * ht + 256 * hr
      BY <3>1
    <3>3. PICK g \in Int : g = 256 * h /\ g = 32768 * ht + 256 * hr
      BY <3>2
    <3>4. n = 2 * (g + l)
      BY <1>12, <3>3
    <3>5. QED
      BY <3>1, <3>3, <3>4
  <2>2. QED
    BY <2>1 DEF W
<1>14. 0 <= 512 * hr + 256 * lt + 2 * lr /\ 512 * hr + 256 * lt + 2 * lr < W
  BY DEF W
<1>15. PICK m \in Int : m = 512 * hr + 256 * lt + 2 * lr /\ 0 <= m /\ m < W
  BY <1>14
<1>16. n % W = m /\ (n >= W <=> ht = 1) /\ n = W * ht + m /\ -W <= n /\ n < 2 * W
  <2>1. (ht = 0 /\ n = m) \/ (ht = 1 /\ n = W + m)
    BY <1>13, <1>15, TheWords
  <2>2. -W <= n /\ n < 2 * W
    BY <1>15, <2>1, TheWords
  <2>3. n % W = IF n < 0 THEN n + W ELSE IF n >= W THEN n - W ELSE n
    BY <2>2, ModOnce
  <2>4. QED
    BY <1>13, <1>15, <2>1, <2>2, <2>3, TheWords
<1>17. 256 * val + 2 * lr = m
  BY <1>9, <1>15
<1>18. parityBit(val) <=> (Cardinality({mask \in Masks : Bit(val, mask)}) % 2) = 0
  <2>1. val \in Octet
    BY <1>9 DEF Octet
  <2>2. QED
    BY <2>1, ParityRight
<1>19. (Bit(h, 128) <=> n >= W)
  BY <1>16, <1>4
<1>20. /\ 256 * alu'.R + job'.other = n % W
       /\ alu'.F.C <=> n >= W
       /\ alu'.F.PV <=> (Cardinality({mask \in Masks : Bit(alu'.R, mask)}) % 2) = 0
  BY <1>10, <1>11, <1>16, <1>17, <1>18, <1>19
<1>21. QED
  BY <1>11, <1>12, <1>20 DEF CpuShifts

LEMMA ShiftRightRight ==
  ASSUME NEW h \in ShiftBytes, NEW l \in ShiftBytes, NEW isArith \in BOOLEAN, ShiftRight(h, l, isArith)
  PROVE  CpuShifts'
<1>1. h \in Octet /\ l \in Octet /\ h \in Int /\ l \in Int
  BY CpuFits DEF Octet
<1>2. PICK ht \in {0, 1}, hr \in 0 .. 127, hh \in 0 .. 127, hl \in {0, 1} : Halves(h, ht, hr, hh, hl)
  BY <1>1, ByteBit
<1>3. PICK lt \in {0, 1}, lr \in 0 .. 127, lh \in 0 .. 127, ll \in {0, 1} : Halves(l, lt, lr, lh, ll)
  BY <1>1, ByteBit
<1>4. /\ h = 128 * ht + hr /\ h = 2 * hh + hl /\ (Bit(h, 128) <=> ht = 1)
       /\ hl = One(Bit(h, 1)) /\ h \div 2 = hh
  BY <1>2 DEF Halves
<1>5. l = 2 * lh + ll /\ (Bit(l, 1) <=> ll = 1) /\ l \div 2 = lh
  BY <1>3 DEF Halves
<1>6. PICK q : q = doSR(h, isArith)
  OBVIOUS
<1>7. PICK sign \in {0, 1} : sign = One(isArith /\ Bit(h, 128)) /\ sign = IF isArith THEN ht ELSE 0
  BY <1>4 DEF One
<1>8. PICK other \in Int : other = hh + 128 * sign
  OBVIOUS
<1>9. q.R = other /\ One(q.F.C) = hl
  <2>1. ShiftedTo(q, (h \div 2) + 128 * One(isArith /\ Bit(h, 128)), Bit(h, 1))
    BY <1>6, OnePlaceIs DEF doSR
  <2>2. q.R = (h \div 2) + 128 * One(isArith /\ Bit(h, 128)) /\ q.F.C = Bit(h, 1)
    BY <2>1 DEF ShiftedTo
  <2>3. QED
    BY <1>4, <1>7, <1>8, <2>2
<1>10. PICK val \in Int : val = lh + 128 * hl
  OBVIOUS
<1>11. alu'.R = val /\ alu'.F.PV = parityBit(val) /\ alu'.F.C = Bit(l, 1)
  <2>1. val = (l \div 2) + 128 * One(q.F.C)
    BY <1>5, <1>9, <1>10
  <2>2. ShiftedTo(alu', val, Bit(l, 1))
    BY <1>6, <2>1, OnePlaceIs DEF ShiftRight, doRR
  <2>3. QED
    BY <2>2 DEF ShiftedTo
<1>12. job'.kind = "right" /\ job'.h = h /\ job'.l = l /\ job'.isArith = isArith /\ job'.other = other
  BY <1>6, <1>9 DEF ShiftRight
<1>13. PICK pair \in Int : pair = 256 * h + l
  BY <1>1
<1>14. pair \in 0 .. W - 1 /\ (pair >= SignBit <=> ht = 1)
  <2>1. l \in Int /\ 0 <= l /\ l <= 255
    BY <1>1 DEF Octet
  <2>2. pair = 32768 * ht + 256 * hr + l
    BY <1>13, <1>4
  <2>3. 0 <= pair /\ pair < 65536 /\ (pair >= 32768 <=> ht = 1)
    <3>1. CASE ht = 0
      BY <2>1, <2>2, <3>1
    <3>2. CASE ht = 1
      BY <2>1, <2>2, <3>2
    <3>3. QED
      BY <3>1, <3>2
  <2>4. pair < W /\ (pair >= SignBit <=> ht = 1)
    BY <2>3 DEF W, SignBit
  <2>5. QED
    BY <2>3, <2>4, TheWords
<1>15. PICK m \in Int : m = 256 * hh + 128 * hl + lh
  OBVIOUS
<1>16. 0 <= m /\ m < SignBit
  <2>1. 0 <= m /\ m < 32768
    BY <1>15
  <2>2. QED
    BY <2>1 DEF SignBit
<1>17. pair = 2 * m + ll
  <2>1. pair = 256 * (2 * hh + hl) + (2 * lh + ll)
    BY <1>13, <1>4, <1>5
  <2>2. QED
    BY <1>15, <2>1
<1>18. Bit(pair, 1) <=> ll = 1
  <2>1. pair \div 1 = pair /\ pair % 2 = ll
    BY <1>17
  <2>2. QED
    BY <2>1 DEF Bit
<1>19. ((IF isArith THEN Signed(pair) ELSE pair) \div 2) % W = m + SignBit * sign
  <2>1. CASE isArith /\ ht = 1
    <3>1. Signed(pair) = 2 * (m - SignBit) + ll
      BY <1>14, <1>17, <2>1, TheWords DEF Signed
    <3>2. PICK k \in Int : k = m - SignBit
      BY TheWords
    <3>3. (2 * k + ll) \div 2 = k
      BY <3>2
    <3>4. k % W = k + W
      <4>1. -W <= k /\ k < 0 /\ k < 2 * W
        BY <1>16, <3>2, TheWords
      <4>2. k % W = IF k < 0 THEN k + W ELSE IF k >= W THEN k - W ELSE k
        BY <4>1, ModOnce
      <4>3. QED
        BY <4>1, <4>2
    <3>5. QED
      BY <1>7, <1>15, <2>1, <3>1, <3>2, <3>3, <3>4, TheWords
  <2>2. CASE ~(isArith /\ ht = 1)
    <3>1. (IF isArith THEN Signed(pair) ELSE pair) = 2 * m + ll
      BY <1>14, <1>17, <2>2 DEF Signed
    <3>2. (2 * m + ll) \div 2 = m
      BY <1>15
    <3>3. m % W = m
      BY <1>15, <1>16, TheWords, ModOnce
    <3>4. sign = 0
      BY <1>7, <2>2
    <3>5. QED
      BY <1>15, <3>1, <3>2, <3>3, <3>4, TheWords
  <2>3. QED
    BY <2>1, <2>2
<1>20. 256 * other + val = m + SignBit * sign
  BY <1>8, <1>10, <1>15 DEF SignBit
<1>21. parityBit(val) <=> (Cardinality({mask \in Masks : Bit(val, mask)}) % 2) = 0
  <2>1. val \in Octet
    BY <1>10 DEF Octet
  <2>2. QED
    BY <2>1, ParityRight
<1>22. QED
  BY <1>5, <1>11, <1>12, <1>13, <1>18, <1>19, <1>20, <1>21 DEF CpuShifts

\* What daa is to leave of the two bytes and the carry.
Adjusted(x, y, in, isSub, q) ==
  LET e == Raw(Number(x), Number(y), in, isSub)
      missed == ~isSub /\ in = 1 /\ (x % 16) + (y % 16) = 15
  IN  (Number(q.R) = e % 100 /\ (q.F.C <=> e \notin 0 .. 99)) <=> ~missed

\* What daa leaves in the register and in the carry.
LEMMA DaaIs ==
  ASSUME NEW q, "C" \in DOMAIN q.F
  PROVE  LET carry == q.R > 153 \/ q.F.C
             low == (q.R % 16) > 9 \/ q.F.H
         IN  /\ doDAA(q).R = (IF q.F.N THEN q.R - Correction(carry, low) ELSE q.R + Correction(carry, low)) % 256
             /\ doDAA(q).F.C = carry
BY DEF doDAA, Correction

\* After add, adc, sub or sbc of decimal bytes, daa leaves what it is to.
LEMMA DaaRight ==
  ASSUME NEW x \in Decimals, NEW y \in Decimals, NEW in \in {0, 1}, NEW isSub \in BOOLEAN,
         NEW q, Decimally(x, y, in, isSub, q)
  PROVE  Adjusted(x, y, in, isSub, doDAA(q))
<1>1. PICK a \in Digit, b \in Digit : /\ x = 16 * a + b /\ x \in Int
                                      /\ x % 16 = b /\ Number(x) = 10 * a + b
  BY TheDigits
<1>2. PICK c \in Digit, d \in Digit : /\ y = 16 * c + d /\ y \in Int
                                      /\ y % 16 = d /\ Number(y) = 10 * c + d
  BY TheDigits
<1>3. PICK t \in Int : t = Raw(x, y, in, isSub)
  BY <1>1, <1>2 DEF Raw
<1>4. PICK r \in Int : r = q.R /\ r = IF t < 0 THEN t + 256 ELSE IF t >= 256 THEN t - 256 ELSE t
  BY <1>3 DEF Decimally
<1>5. PICK over \in BOOLEAN : over = q.F.C /\ (over <=> t < 0 \/ t >= 256)
  BY <1>3 DEF Decimally
<1>6. PICK half \in BOOLEAN : /\ half = q.F.H
                              /\ half <=> IF isSub THEN b < d ELSE b + d >= 16
  <2>1. PICK h \in BOOLEAN : h = IF isSub THEN b < d ELSE b + d >= 16
    <3>1. (b < d) \in BOOLEAN /\ (b + d >= 16) \in BOOLEAN
      OBVIOUS
    <3>2. QED
      BY <3>1, Zenon
  <2>2. HalfCarry(x, y, isSub) = h
    BY <1>1, <1>2, <2>1 DEF HalfCarry
  <2>3. q.F.H = h
    BY <2>2 DEF Decimally
  <2>4. QED
    BY <2>1, <2>3
<1>7. PICK carry \in BOOLEAN : /\ carry = (q.R > 153 \/ q.F.C)
                               /\ carry <=> r > 153 \/ t < 0 \/ t >= 256
  BY <1>4, <1>5
<1>8. PICK low \in BOOLEAN : /\ low = ((q.R % 16) > 9 \/ q.F.H)
                             /\ low <=> (r % 16) > 9 \/ half
  BY <1>4, <1>6
<1>9. PICK s : s = (IF isSub THEN r - Correction(carry, low) ELSE r + Correction(carry, low)) % 256
  OBVIOUS
<1>10. PICK e : e = Raw(Number(x), Number(y), in, isSub)
  OBVIOUS
<1>11. doDAA(q).R = s /\ doDAA(q).F.C = carry
  <2>1. q.F.N = isSub /\ "C" \in DOMAIN q.F
    BY DEF Decimally
  <2>2. /\ doDAA(q).R = (IF q.F.N THEN q.R - Correction(carry, low) ELSE q.R + Correction(carry, low)) % 256
        /\ doDAA(q).F.C = carry
    BY <1>7, <1>8, <2>1, DaaIs
  <2>3. QED
    BY <1>4, <1>9, <2>1, <2>2
<1>12. (Number(s) = e % 100 /\ (carry <=> e \notin 0 .. 99)) <=> ~(~isSub /\ in = 1 /\ b + d = 15)
  <2>1. CASE ~isSub
    <3>1. t = (16 * a + b) + (16 * c + d) + in /\ e = (10 * a + b) + (10 * c + d) + in
      BY <1>1, <1>2, <1>3, <1>10, <2>1 DEF Raw
    <3>2. t >= 0
      BY <3>1 DEF Digit
    <3>3. r = IF t >= 256 THEN t - 256 ELSE t
      BY <1>4, <3>2
    <3>4. carry <=> r > 153 \/ t >= 256
      BY <1>7, <3>2
    <3>5. low <=> r % 16 > 9 \/ b + d >= 16
      BY <1>6, <1>8, <2>1
    <3>6. s = (r + Correction(carry, low)) % 256
      BY <1>9, <2>1
    <3>7. AddCase(a, b, c, d, in, t, r, carry, low, s, e)
      BY <3>1, <3>3, <3>4, <3>5, <3>6 DEF AddCase
    <3>9. DigitsRight(s, carry, e) <=> ~(in = 1 /\ b + d = 15)
      BY <3>7, AddDigits
    <3>10. QED
      BY <2>1, <3>9 DEF DigitsRight
  <2>2. CASE isSub
    <3>1. t = (16 * a + b) - (16 * c + d) - in /\ e = (10 * a + b) - (10 * c + d) - in
      BY <1>1, <1>2, <1>3, <1>10, <2>2 DEF Raw
    <3>2. t < 256
      BY <3>1 DEF Digit
    <3>3. r = IF t < 0 THEN t + 256 ELSE t
      BY <1>4, <3>2
    <3>4. carry <=> r > 153 \/ t < 0
      BY <1>7, <3>2
    <3>5. low <=> r % 16 > 9 \/ b < d
      BY <1>6, <1>8, <2>2
    <3>6. s = (r - Correction(carry, low)) % 256
      BY <1>9, <2>2
    <3>7. SubCase(a, b, c, d, in, t, r, carry, low, s, e)
      BY <3>1, <3>3, <3>4, <3>5, <3>6 DEF SubCase
    <3>9. DigitsRight(s, carry, e)
      BY <3>7, SubDigits
    <3>10. QED
      BY <2>2, <3>9 DEF DigitsRight
  <2>3. QED
    BY <2>1, <2>2
<1>13. QED
  BY <1>1, <1>2, <1>10, <1>11, <1>12 DEF Adjusted

----------------------------------------------------------------------------
(* The chains: what the sums of a chain under way are made of.               *)

DecimalJob(kind, x, y, isSub, in) == [kind |-> kind, x |-> x, y |-> y, isSub |-> isSub, in |-> in]
LowJob(a, b, isSub) == [kind |-> "low", a |-> a, b |-> b, isSub |-> isSub]

DecimalUnderWay ==
  job.kind = "decimal" =>
    \E x, y \in Decimals, isSub \in BOOLEAN, in \in {0, 1} :
      job = DecimalJob("decimal", x, y, isSub, in) /\ Decimally(x, y, in, isSub, alu)
LongUnderWay ==
  job.kind = "low" =>
    \E a, b \in Word, isSub \in BOOLEAN : job = LowJob(a, b, isSub) /\ LowRight(alu, a, b, isSub)

CpuIInv == DecimalUnderWay /\ LongUnderWay /\ CpuDecimal /\ CpuLong /\ CpuShifts

LEMMA CpuInitIInv == CpuInit => CpuIInv
BY DEF CpuInit, NoJob, CpuIInv, DecimalUnderWay, LongUnderWay, CpuDecimal, CpuLong, CpuShifts

LEMMA DecimalKeeps ==
  ASSUME NEW x \in Decimals, NEW y \in Decimals, NEW withCarry \in BOOLEAN, NEW isSub \in BOOLEAN,
         Decimal(x, y, withCarry, isSub)
  PROVE  CpuIInv'
<1>1. PICK in \in {0, 1} : in = One(withCarry /\ alu.F.C)
  BY DEF One
<1>2. job' = DecimalJob("decimal", x, y, isSub, in)
  BY <1>1 DEF Decimal, DecimalJob
<1>3. Decimally(x, y, in, isSub, alu')
  BY <1>1, ArithmeticRight DEF Decimal
<1>4. job'.kind = "decimal"
  BY <1>2 DEF DecimalJob
<1>5. DecimalUnderWay'
  BY <1>2, <1>3 DEF DecimalUnderWay
<1>6. LongUnderWay' /\ CpuDecimal' /\ CpuLong' /\ CpuShifts'
  BY <1>4 DEF LongUnderWay, CpuDecimal, CpuLong, CpuShifts
<1>7. QED
  BY <1>5, <1>6 DEF CpuIInv

LEMMA AdjustKeeps ==
  ASSUME CpuIInv, Adjust
  PROVE  CpuIInv'
<1>1. PICK x \in Decimals, y \in Decimals, isSub \in BOOLEAN, in \in {0, 1} :
        job = DecimalJob("decimal", x, y, isSub, in) /\ Decimally(x, y, in, isSub, alu)
  BY DEF CpuIInv, DecimalUnderWay, Adjust
<1>2. job' = DecimalJob("adjusted", x, y, isSub, in)
  BY <1>1 DEF Adjust, DecimalJob
<1>3. Adjusted(x, y, in, isSub, alu')
  BY <1>1, DaaRight DEF Adjust
<1>4. job'.kind = "adjusted"
  BY <1>2 DEF DecimalJob
<1>5. job'.x = x /\ job'.y = y /\ job'.isSub = isSub /\ job'.in = in
  BY <1>2 DEF DecimalJob
<1>6. CpuDecimal'
  BY <1>3, <1>5 DEF CpuDecimal, Adjusted, Raw
<1>7. DecimalUnderWay' /\ LongUnderWay' /\ CpuLong' /\ CpuShifts'
  BY <1>4 DEF DecimalUnderWay, LongUnderWay, CpuLong, CpuShifts
<1>8. QED
  BY <1>6, <1>7 DEF CpuIInv

LEMMA LowWordsKeep ==
  ASSUME NEW a \in Words, NEW b \in Words, NEW isSub \in BOOLEAN, LowWords(a, b, isSub)
  PROVE  CpuIInv'
<1>1. a \in Word /\ b \in Word
  BY CpuFits DEF Word
<1>2. PICK f : f = IF isSub THEN doOR(alu, alu.R).F ELSE alu.F
  OBVIOUS
<1>3. isSub => f.C = FALSE
  BY <1>2 DEF doOR
<1>4. alu' = doAddWord([R |-> a, F |-> f], b, isSub, isSub) /\ job' = LowJob(a, b, isSub)
  BY <1>2 DEF LowWords, LowJob
<1>5. LowRight(alu', a, b, isSub)
  BY <1>1, <1>3, <1>4, LowWordsRight
<1>6. job'.kind = "low"
  BY <1>4 DEF LowJob
<1>7. LongUnderWay'
  BY <1>1, <1>4, <1>5 DEF LongUnderWay
<1>8. DecimalUnderWay' /\ CpuDecimal' /\ CpuLong' /\ CpuShifts'
  BY <1>6 DEF DecimalUnderWay, CpuDecimal, CpuLong, CpuShifts
<1>9. QED
  BY <1>7, <1>8 DEF CpuIInv

LEMMA HighWordsKeep ==
  ASSUME NEW a \in Words, NEW b \in Words, CpuIInv, HighWords(a, b)
  PROVE  CpuIInv'
<1>1. a \in Word /\ b \in Word
  BY CpuFits DEF Word
<1>2. PICK c \in Word, d \in Word, isSub \in BOOLEAN :
        job = LowJob(c, d, isSub) /\ LowRight(alu, c, d, isSub)
  BY DEF CpuIInv, LongUnderWay, HighWords
<1>3. job.isSub = isSub /\ job.a = c /\ job.b = d
  BY <1>2 DEF LowJob
<1>4. alu' = doAddWord([R |-> a, F |-> alu.F], b, TRUE, isSub)
  BY <1>3 DEF HighWords
<1>5. job' = [kind |-> "long", a |-> a, b |-> b, isSub |-> isSub, low |-> alu.R,
              in |-> One(alu.F.C), under |-> job]
  BY <1>3 DEF HighWords
<1>6. PICK low : low = Exact(c, d, 0, isSub)
  OBVIOUS
<1>7. alu.R = low % W /\ alu.F.C \in BOOLEAN /\ (alu.F.C <=> low \notin Word)
  BY <1>2, <1>6 DEF LowRight
<1>8. PICK in : in = One(alu.F.C) /\ in = One(low \notin Word)
  BY <1>7 DEF One
<1>9. HighRight(alu', a, b, in, isSub)
  <2>1. PICK f : f = alu.F
    OBVIOUS
  <2>2. in = One(TRUE /\ f.C) /\ alu' = doAddWord([R |-> a, F |-> f], b, TRUE, isSub)
    BY <1>4, <1>7, <1>8, <2>1
  <2>3. HighRight(doAddWord([R |-> a, F |-> f], b, TRUE, isSub), a, b, One(TRUE /\ f.C), isSub)
    BY <1>1, HighWordsRight
  <2>4. QED
    BY <2>2, <2>3
<1>10. /\ job'.kind = "long" /\ job'.a = a /\ job'.b = b /\ job'.isSub = isSub /\ job'.low = low % W
       /\ job'.under.a = c /\ job'.under.b = d
  BY <1>3, <1>5, <1>7
<1>11. CpuLong'
  <2>1. low = (IF isSub THEN c - d - 0 ELSE c + d + 0) /\ in = One(low \notin 0 .. W - 1)
    BY <1>6, <1>8 DEF Exact, Word
  <2>2. PICK high : high = IF isSub THEN a - b - in ELSE a + b + in
    OBVIOUS
  <2>3. /\ alu'.R = high % W
        /\ (alu'.F.C <=> high \notin 0 .. W - 1) <=> ~(in = 1 /\ b = W - 1)
        /\ (alu'.F.Z <=> (high % W) = 0) <=> (high # W \/ (in = 1 /\ b = W - 1))
        /\ (alu'.F.S # alu'.F.PV <=>
              (IF isSub THEN Signed(a) - Signed(b) - in ELSE Signed(a) + Signed(b) + in) < 0)
             <=> ~(in = 1 /\ b = SignBit - 1)
    BY <1>9, <2>2 DEF HighRight, Exact, Word, Wrapped
  <2>4. QED
    BY <1>10, <2>1, <2>2, <2>3 DEF CpuLong
<1>12. DecimalUnderWay' /\ LongUnderWay' /\ CpuDecimal' /\ CpuShifts'
  BY <1>10 DEF DecimalUnderWay, LongUnderWay, CpuDecimal, CpuShifts
<1>13. QED
  BY <1>11, <1>12 DEF CpuIInv

LEMMA CpuNextIInv == CpuIInv /\ [CpuNext]_cpuVars => CpuIInv'
<1> SUFFICES ASSUME CpuIInv, [CpuNext]_cpuVars PROVE CpuIInv'
  OBVIOUS
<1>1. ASSUME NEW h \in ShiftBytes, NEW l \in ShiftBytes, ShiftLeft(h, l) PROVE CpuIInv'
  <2>1. job'.kind = "left"
    BY <1>1 DEF ShiftLeft
  <2>2. CpuShifts'
    BY <1>1, ShiftLeftRight
  <2>3. QED
    BY <2>1, <2>2 DEF CpuIInv, DecimalUnderWay, LongUnderWay, CpuDecimal, CpuLong
<1>2. ASSUME NEW h \in ShiftBytes, NEW l \in ShiftBytes, NEW isArith \in BOOLEAN, ShiftRight(h, l, isArith)
      PROVE  CpuIInv'
  <2>1. job'.kind = "right"
    BY <1>2 DEF ShiftRight
  <2>2. CpuShifts'
    BY <1>2, ShiftRightRight
  <2>3. QED
    BY <2>1, <2>2 DEF CpuIInv, DecimalUnderWay, LongUnderWay, CpuDecimal, CpuLong
<1>3. CASE UNCHANGED cpuVars
  <2>1. job' = job /\ alu' = alu
    BY <1>3 DEF cpuVars
  <2>2. DecimalUnderWay'
    BY <2>1 DEF CpuIInv, DecimalUnderWay
  <2>3. LongUnderWay'
    BY <2>1 DEF CpuIInv, LongUnderWay
  <2>4. CpuDecimal'
    BY <2>1 DEF CpuIInv, CpuDecimal
  <2>5. CpuLong'
    BY <2>1 DEF CpuIInv, CpuLong
  <2>6. CpuShifts'
    BY <2>1 DEF CpuIInv, CpuShifts
  <2>7. QED
    BY <2>2, <2>3, <2>4, <2>5, <2>6 DEF CpuIInv
<1>4. CASE CpuNext
  <2>1. ASSUME NEW x \in Decimals, NEW y \in Decimals, NEW withCarry \in BOOLEAN, NEW isSub \in BOOLEAN,
               Decimal(x, y, withCarry, isSub)
        PROVE  CpuIInv'
    BY <2>1, DecimalKeeps
  <2>2. CASE Adjust
    BY <2>2, AdjustKeeps
  <2>3. CASE \E a, b \in Words, isSub \in BOOLEAN : LowWords(a, b, isSub)
    BY <2>3, LowWordsKeep
  <2>4. CASE \E a, b \in Words : HighWords(a, b)
    BY <2>4, HighWordsKeep
  <2>5. CASE \E h, l \in ShiftBytes : ShiftLeft(h, l)
    BY <1>1, <2>5
  <2>6. CASE \E h, l \in ShiftBytes, isArith \in BOOLEAN : ShiftRight(h, l, isArith)
    BY <1>2, <2>6
  <2>7. QED
    BY <1>4, <2>1, <2>2, <2>3, <2>4, <2>5, <2>6 DEF CpuNext
<1>5. QED
  BY <1>3, <1>4

\* After an adc or sbc of the high words of two long numbers, the result is the sum or the
\* difference, and the flags are those of it except where the carry overflows the operand.
THEOREM CpuLongHolds == CpuSpec => []CpuLong
<1>1. CpuIInv => CpuLong
  BY DEF CpuIInv
<1>2. QED
  BY CpuInitIInv, CpuNextIInv, <1>1, PTL DEF CpuSpec

\* After daa the register holds the decimal sum or difference, with the decimal carry,
\* except exactly where the half carry misses the carry that came in.
THEOREM CpuDecimalHolds == CpuSpec => []CpuDecimal
<1>1. CpuIInv => CpuDecimal
  BY DEF CpuIInv
<1>2. QED
  BY CpuInitIInv, CpuNextIInv, <1>1, PTL DEF CpuSpec

\* A shift of two bytes doubles or halves the pair, the bit that leaves is the carry, and
\* the parity flag is the parity of the last byte shifted.
THEOREM CpuShiftsHolds == CpuSpec => []CpuShifts
<1>1. CpuIInv => CpuShifts
  BY DEF CpuIInv
<1>2. QED
  BY CpuInitIInv, CpuNextIInv, <1>1, PTL DEF CpuSpec
============================================================================
