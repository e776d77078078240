--------------------------- MODULE BlockIoProofs ---------------------------
(***************************************************************************)
(* Proofs about BlockIo for blocks, devices, counts and positions of every *)
(* size: the counters of a call always agree with its place on the device, *)
(* so that a call moves exactly what it was asked for, and the whole is a  *)
(* FlatDevice.                                                             *)
(***************************************************************************)
EXTENDS BlockIo, TLAPS

USE BlocksFit

IoType ==
  [pc : {"idle", "first", "full", "lastFull", "lastPart", "done", "wild"}, op : {"read", "write"},
   n : Nat, cur : Nat, end : Nat, rel : Nat, rem : Nat, total : Nat, failed : BOOLEAN]

Typed ==
  /\ dev \in [Positions -> Int] /\ before \in [Positions -> Int]
  /\ offset \in 0 .. W - 1 /\ size \in 0 .. W - 1
  /\ io \in IoType

\* The block in hand is where the next byte belongs.
Placed(r, at) == r.cur * B + r.rel = at + r.total /\ r.rel < B

\* The last byte of the call lies in block end.
LastBlock(r, at) == r.end * B <= at + r.n - 1 /\ at + r.n - 1 < (r.end + 1) * B

\* What the label a call has reached says about what is left.
Ahead(r) ==
  /\ r.pc = "first" => r.cur <= r.end
  /\ r.pc = "full" => r.cur < r.end /\ r.rel = 0
  /\ r.pc = "lastFull" => r.cur = r.end /\ r.rel = 0 /\ r.rem = B
  /\ r.pc = "lastPart" => r.cur = r.end /\ r.rel = 0 /\ r.rem \in 1 .. B - 1

\* A call that starts behind the device: the device refuses its first block.
Beyond(r, at) == at >= DevSize /\ r.total = 0

Partial == {"first", "full", "lastFull", "lastPart"}

\* The counters of a call r that started at position at.
Counted(r, at) ==
  /\ r.pc \in Partial \cup {"done"} => r.n \in Counts /\ r.rem + r.total = r.n
  /\ r.pc \in Partial => Placed(r, at) /\ (Beyond(r, at) \/ (LastBlock(r, at) /\ Ahead(r)))
  /\ r.total > 0 => at + r.total <= DevSize
  /\ r.pc = "done" /\ ~r.failed => r.total = r.n
  /\ r.pc = "idle" => r.total = 0

\* The data: only a write changes the device, and the buffer of a read has the
\* size of the call.
Kept ==
  /\ io.pc \in {"idle", "wild"} => io.op = "read"
  /\ io.op = "read" => dev = before
  /\ io.op = "read" /\ io.pc \in Partial \cup {"done"} => mem = [i \in 1 .. io.n |-> mem[i]]

IInv == Typed /\ Counted(io, offset) /\ WritePrefix /\ ReadPrefix /\ Kept
----------------------------------------------------------------------------
(* Arithmetic of blocks. *)

\* The device lies in the lower half of the positions.
LEMMA Sizes == DevSize \in Nat /\ 2 * DevSize <= W
<1>1. B * DevBlocks \in Nat
  OBVIOUS
<1>2. 2 * B * DevBlocks = 2 * (B * DevBlocks)
  OBVIOUS
<1>3. QED
  BY <1>1, <1>2 DEF DevSize

\* Division by the size of a block.
LEMMA Division ==
  ASSUME NEW p \in Nat
  PROVE  /\ p \div B \in Nat /\ p % B \in 0 .. B - 1
         /\ (p \div B) * B + (p % B) = p
OBVIOUS

\* A position below the modulus is not reduced.
LEMMA SmallPosition ==
  ASSUME NEW p \in Nat, p < W
  PROVE  p % W = p
OBVIOUS

\* Whole blocks keep their order.
LEMMA BlockOrder ==
  ASSUME NEW a \in Nat, NEW b \in Nat
  PROVE  /\ a * B \in Nat
         /\ a < b => (a + 1) * B <= b * B
         /\ a * B < b * B => a < b
         /\ (a + 1) * B = a * B + B
<1>1. a * B \in Nat /\ (a + 1) * B = a * B + B
  OBVIOUS
<1>2. a < b => (a + 1) * B <= b * B
  OBVIOUS
<1>3. a * B < b * B => a < b
  OBVIOUS
<1>4. QED
  BY <1>1, <1>2, <1>3
----------------------------------------------------------------------------
(* The operators. *)

\* What is chosen after a block agrees with the counters.
LEMMA ContinueCounted ==
  ASSUME NEW r \in IoType, NEW at \in Nat, r.rel = 0, r.n \in Counts, r.rem + r.total = r.n,
         Placed(r, at), LastBlock(r, at), r.total > 0 => at + r.total <= DevSize
  PROVE  Continue(r) \in IoType /\ Counted(Continue(r), at)
<1> DEFINE q == Continue(r)
<1> USE DEF IoType
<1>1. /\ q \in IoType
      /\ q.n = r.n /\ q.cur = r.cur /\ q.end = r.end /\ q.rel = r.rel /\ q.rem = r.rem
      /\ q.total = r.total /\ q.failed = r.failed
  BY DEF Continue
<1>2. q.pc = IF r.cur < r.end THEN "full"
             ELSE IF r.rem = 0 THEN "done" ELSE IF r.rem = B THEN "lastFull" ELSE "lastPart"
  BY DEF Continue
<1>3. r.cur > r.end => r.rem = 0
  <2>1. SUFFICES ASSUME r.cur > r.end PROVE r.rem = 0
    OBVIOUS
  <2>2. (r.end + 1) * B <= r.cur * B
    BY <2>1, BlockOrder
  <2>3. r.cur * B \in Nat /\ (r.end + 1) * B \in Nat
    BY BlockOrder
  <2>4. QED
    BY <2>2, <2>3 DEF Placed, LastBlock, Counts
<1>4. r.cur = r.end => r.rem <= B
  BY BlockOrder DEF Placed, LastBlock, Counts
<1>5. q.pc \in Partial => Placed(q, at) /\ LastBlock(q, at) /\ Ahead(q)
  <2>1. Placed(q, at) /\ LastBlock(q, at)
    BY <1>1 DEF Placed, LastBlock
  <2>2. Ahead(q)
    BY <1>1, <1>2, <1>3, <1>4 DEF Ahead
  <2>3. QED
    BY <2>1, <2>2
<1>6. q.pc = "done" => q.total = q.n
  BY <1>1, <1>2 DEF Counts
<1>7. QED
  BY <1>1, <1>2, <1>5, <1>6 DEF Counted

\* A call starts with counters that agree with its position and its count.
LEMMA StartedCounted ==
  ASSUME NEW op \in {"read", "write"}, NEW n \in Counts, NEW at \in 0 .. W - 1
  PROVE  /\ Started(op, n, at) \in IoType /\ Counted(Started(op, n, at), at)
         /\ Started(op, n, at).op = op /\ Started(op, n, at).n = n
         /\ Started(op, n, at).total = 0 /\ Started(op, n, at).pc \in Partial
<1> DEFINE last == (at + n - 1) % W
           r == [Idle EXCEPT !.op = op, !.n = n, !.rem = n, !.cur = at \div B,
                             !.end = last \div B, !.rel = at % B]
           q == Started(op, n, at)
<1>1. n \in Nat \ {0} /\ at \in Nat /\ last \in Nat
  BY DEF Counts
<1>2. /\ at \div B \in Nat /\ at % B \in 0 .. B - 1 /\ (at \div B) * B + (at % B) = at
      /\ last \div B \in Nat /\ last % B \in 0 .. B - 1 /\ (last \div B) * B + (last % B) = last
  BY <1>1, Division
<1>3. /\ r \in IoType /\ r.op = op /\ r.n = n /\ r.rem = n /\ r.cur = at \div B
      /\ r.end = last \div B /\ r.rel = at % B /\ r.total = 0 /\ r.failed = FALSE
  <2> DEFINE c == at \div B
             e == last \div B
             l == at % B
  <2>1. c \in Nat /\ e \in Nat /\ l \in Nat /\ n \in Nat
    BY <1>1, <1>2
  <2>2. r = [Idle EXCEPT !.op = op, !.n = n, !.rem = n, !.cur = c, !.end = e, !.rel = l]
    OBVIOUS
  <2> HIDE DEF c, e, l, r
  <2>3. /\ r \in IoType /\ r.op = op /\ r.n = n /\ r.rem = n /\ r.cur = c
        /\ r.end = e /\ r.rel = l /\ r.total = 0 /\ r.failed = FALSE
    BY <2>1, <2>2 DEF Idle, IoType
  <2>4. QED
    BY <2>3 DEF c, e, l
<1> HIDE DEF r, last
<1>4. q = IF r.rel = 0 THEN Continue(r) ELSE [r EXCEPT !.pc = "first"]
  BY DEF Started, r, last
<1>5. Placed(r, at)
  BY <1>1, <1>2, <1>3 DEF Placed
<1>6. /\ q \in IoType /\ q.op = op /\ q.n = n /\ q.rem = n /\ q.cur = r.cur
      /\ q.end = r.end /\ q.rel = r.rel /\ q.total = 0 /\ q.pc \in Partial
  BY <1>1, <1>3, <1>4 DEF Continue, IoType, Partial
<1>7. Placed(q, at)
  BY <1>3, <1>5, <1>6 DEF Placed
<1>8. CASE at >= DevSize
  BY <1>1, <1>6, <1>7, <1>8 DEF Counted, Beyond, Partial
<1>9. CASE at < DevSize
  <2>1. last = at + n - 1
    <3>1. at + n - 1 \in Nat /\ at + n - 1 < W
      BY <1>1, <1>9, Sizes DEF Counts
    <3>2. QED
      BY <3>1 DEF last
  <2>2. LastBlock(r, at)
    BY <1>1, <1>2, <1>3, <2>1, BlockOrder DEF LastBlock
  <2>3. CASE r.rel = 0
    BY <1>1, <1>3, <1>4, <1>5, <1>6, <2>2, <2>3, ContinueCounted
  <2>4. CASE r.rel # 0
    <3>1. q.pc = "first"
      BY <1>3, <1>4, <2>4 DEF IoType
    <3>2. r.cur * B < (r.end + 1) * B
      BY <1>1, <1>2, <1>3, <2>1, BlockOrder
    <3>3. r.cur <= r.end
      BY <1>2, <1>3, <3>2, BlockOrder
    <3>4. Ahead(q) /\ LastBlock(q, at)
      BY <1>3, <1>6, <2>2, <3>1, <3>3 DEF Ahead, LastBlock
    <3>5. QED
      BY <1>1, <1>6, <1>7, <3>1, <3>4 DEF Counted, Partial
  <2>5. QED
    BY <1>6, <2>3, <2>4
<1>10. QED
  BY <1>1, <1>6, <1>8, <1>9, Sizes

\* A block that the device has moves the next bytes of the call and no others.
LEMMA AdvancedCounted ==
  ASSUME Typed, Counted(io, offset), Transferring, InDevice
  PROVE  /\ Advanced \in IoType /\ Counted(Advanced, offset)
         /\ Advanced.op = io.op /\ Advanced.n = io.n
         /\ Advanced.total = io.total + Amount /\ Amount \in Nat
         /\ Place = offset + io.total /\ Place + Amount <= DevSize
         /\ io.total + Amount <= io.n
         /\ Advanced.pc \in Partial \cup {"done"}
<1> DEFINE r == [io EXCEPT !.total = @ + Amount, !.rem = @ - Amount, !.cur = @ + 1,
                           !.rel = IF io.pc \in {"first", "lastPart"} THEN 0 ELSE @]
<1>1. /\ io \in IoType /\ io.pc \in Partial /\ offset \in Nat
      /\ io.n \in Nat /\ io.cur \in Nat /\ io.end \in Nat /\ io.rel \in Nat /\ io.rem \in Nat
      /\ io.total \in Nat
  BY DEF Typed, Transferring, Partial, IoType
<1>2. Placed(io, offset) /\ io.n \in Counts /\ io.rem + io.total = io.n
  BY <1>1 DEF Counted
<1>3. io.cur * B \in Nat /\ (io.cur + 1) * B = io.cur * B + B
  BY <1>1, BlockOrder
<1>4. LastBlock(io, offset) /\ Ahead(io)
  BY <1>1, <1>2, <1>3, Sizes DEF Counted, Beyond, Placed, InDevice
<1>5. /\ Amount \in Nat /\ Amount <= io.rem /\ io.rel + Amount <= B
      /\ Amount = B - io.rel \/ Amount = io.rem
  <2>1. CASE io.pc = "full"
    <3>1. (io.cur + 1) * B <= io.end * B
      BY <1>1, <1>4, <2>1, BlockOrder DEF Ahead
    <3>2. io.end * B \in Nat
      BY <1>1, BlockOrder
    <3>3. io.rel = 0 /\ B <= io.rem
      BY <1>1, <1>2, <1>3, <1>4, <2>1, <3>1, <3>2 DEF Ahead, Placed, LastBlock, Counts
    <3>4. QED
      BY <1>1, <2>1, <3>3 DEF Amount
  <2>2. CASE io.pc \in {"first", "lastFull", "lastPart"}
    BY <1>1, <1>2, <1>4, <2>2 DEF Amount, Ahead, Placed
  <2>3. QED
    BY <1>1, <2>1, <2>2 DEF Partial
<1>6. Place = offset + io.total /\ Place + Amount <= DevSize
  BY <1>1, <1>2, <1>3, <1>5, Sizes DEF Place, Placed, InDevice
<1>a. io.total + Amount \in Nat /\ io.rem - Amount \in Nat /\ io.cur + 1 \in Nat
  BY <1>1, <1>5
<1>7. /\ r \in IoType /\ r.op = io.op /\ r.n = io.n /\ r.total = io.total + Amount
      /\ r.rem = io.rem - Amount /\ r.cur = io.cur + 1 /\ r.end = io.end /\ r.pc = io.pc
      /\ r.rel = (IF io.pc \in {"first", "lastPart"} THEN 0 ELSE io.rel)
      /\ r.failed = io.failed
  BY <1>1, <1>a DEF IoType
<1>8. Advanced = IF io.pc \in {"first", "full"} THEN Continue(r) ELSE [r EXCEPT !.pc = "done"]
  BY DEF Advanced
<1> HIDE DEF r
<1>9. r.rem + r.total = r.n /\ r.n \in Counts /\ (r.total > 0 => offset + r.total <= DevSize)
  BY <1>1, <1>2, <1>5, <1>6, <1>7
<1>10. /\ Advanced.op = io.op /\ Advanced.n = io.n /\ Advanced.total = r.total
       /\ Advanced.pc \in Partial \cup {"done"} /\ Advanced \in IoType
  BY <1>7, <1>8 DEF Continue, IoType, Partial
<1>11. Counted(Advanced, offset)
  <2>1. CASE io.pc \in {"first", "full"} /\ Amount = B - io.rel
    <3>1. r.rel = 0 /\ r.n \in Counts /\ r.rem + r.total = r.n
      BY <1>2, <1>4, <1>7, <1>9, <2>1, <1>1, <1>5 DEF Ahead
    <3>2. Placed(r, offset)
      <4>1. r.cur * B = io.cur * B + B
        BY <1>3, <1>7
      <4>2. r.total = io.total + (B - io.rel)
        BY <1>7, <2>1
      <4>3. io.cur * B + io.rel = offset + io.total
        BY <1>2 DEF Placed
      <4>4. QED
        BY <1>1, <1>3, <3>1, <4>1, <4>2, <4>3 DEF Placed
    <3>3. LastBlock(r, offset)
      BY <1>4, <1>7 DEF LastBlock
    <3>4. r.total > 0 => offset + r.total <= DevSize
      BY <1>1, <1>6, <1>7, <1>5
    <3>5. Counted(Continue(r), offset)
      BY <1>1, <1>7, <3>1, <3>2, <3>3, <3>4, ContinueCounted
    <3>6. QED
      BY <1>8, <2>1, <3>5
  <2>2. CASE io.pc \in {"first", "full"} /\ Amount # B - io.rel
    <3>1. Amount = io.rem /\ io.rel + io.rem < B
      BY <1>1, <1>5, <2>2
    <3>2. io.end * B < (io.cur + 1) * B
      BY <1>1, <1>2, <1>3, <1>4, <3>1, BlockOrder DEF Placed, LastBlock, Counts
    <3>3. ~(r.cur < r.end) /\ r.rem = 0
      BY <1>1, <1>7, <3>1, <3>2, BlockOrder
    <3>4. Advanced.pc = "done" /\ Advanced.rem = 0
      BY <1>7, <1>8, <2>2, <3>3 DEF Continue, IoType
    <3>5. QED
      BY <1>1, <1>2, <1>5, <1>6, <1>7, <1>10, <3>1, <3>4 DEF Counted, Partial
  <2>3. CASE io.pc \in {"lastFull", "lastPart"}
    <3>1. Advanced = [r EXCEPT !.pc = "done"]
      BY <1>8, <2>3
    <3>2. Advanced.pc = "done" /\ Advanced.rem = r.rem
      BY <1>7, <3>1 DEF IoType
    <3>3. Amount = io.rem
      BY <1>1, <1>2, <1>4, <2>3 DEF Amount, Ahead
    <3>4. QED
      BY <1>1, <1>2, <1>5, <1>6, <1>7, <1>10, <3>2, <3>3 DEF Counted, Partial
  <2>4. QED
    BY <1>1, <2>1, <2>2, <2>3 DEF Partial
<1>12. QED
  BY <1>1, <1>2, <1>5, <1>6, <1>7, <1>10, <1>11
----------------------------------------------------------------------------
(* Every step preserves the invariant. *)

LEMMA InitIInv ==
  ASSUME Init
  PROVE  IInv
<1>1. Typed
  BY DEF Init, Typed, IoType, Idle, Blank, Positions
<1>2. QED
  BY <1>1 DEF Init, IInv, Counted, Partial, Idle, WritePrefix, ReadPrefix, Kept

LEMMA StutterIInv ==
  ASSUME IInv, UNCHANGED vars
  PROVE  IInv'
<1>1. Typed'
  BY DEF vars, IInv, Typed
<1>2. Counted(io, offset)'
  BY DEF vars, IInv
<1>3. QED
  BY <1>1, <1>2 DEF vars, IInv, WritePrefix, ReadPrefix, Kept

LEMMA CallIInv ==
  ASSUME IInv, NEW op \in {"read", "write"}, NEW n \in Counts, NEW append \in BOOLEAN,
         Call(op, n, append)
  PROVE  IInv'
<1>1. offset' \in 0 .. W - 1 /\ io' = Started(op, n, offset')
  BY DEF IInv, Typed, Call
<1>2. /\ io' \in IoType /\ Counted(io', offset')
      /\ io'.op = op /\ io'.n = n /\ io'.total = 0 /\ io'.pc \in Partial
  BY <1>1, StartedCounted
<1>3. dev' = dev /\ before' = dev /\ size' = size /\ dev \in [Positions -> Int] /\ size \in 0 .. W - 1
  BY DEF IInv, Typed, Call
<1>4. Typed'
  BY <1>1, <1>2, <1>3 DEF Typed, Positions
<1>5. WritePrefix'
  <2>1. \A p \in Positions : ~(p \in offset' .. offset' + 0 - 1)
    BY <1>1
  <2>2. QED
    BY <1>2, <1>3, <2>1 DEF WritePrefix
<1>6. ReadPrefix'
  BY <1>2 DEF ReadPrefix
<1>7. Kept'
  <2>1. op = "read" => mem' = [i \in 1 .. n |-> Blank]
    BY DEF Call
  <2>2. QED
    BY <1>2, <1>3, <2>1 DEF Kept, Partial
<1>8. Counted(io, offset)'
  BY <1>2
<1>9. QED
  BY <1>4, <1>5, <1>6, <1>7, <1>8 DEF IInv

LEMMA ReadBlockIInv ==
  ASSUME IInv, ReadBlock
  PROVE  IInv'
<1>1. /\ Typed /\ Counted(io, offset) /\ Transferring /\ InDevice /\ io.op = "read"
      /\ ReadPrefix /\ Kept
      /\ mem' = [i \in 1 .. io.n |->
                   IF i \in io.total + 1 .. io.total + Amount THEN dev[Place + i - io.total - 1]
                   ELSE mem[i]]
      /\ io' = Advanced /\ dev' = dev /\ offset' = offset /\ size' = size /\ before' = before
  BY DEF IInv, ReadBlock
<1>2. /\ io' \in IoType /\ Counted(io', offset) /\ io'.op = io.op /\ io'.n = io.n
      /\ io'.total = io.total + Amount /\ Amount \in Nat /\ Place = offset + io.total
      /\ io.total + Amount <= io.n /\ io'.pc \in Partial \cup {"done"}
  BY <1>1, AdvancedCounted
<1>3. io.n \in Nat /\ io.total \in Nat /\ offset \in Nat
  BY <1>1 DEF Typed, IoType
<1>4. Typed'
  BY <1>1, <1>2 DEF Typed, Positions
<1>5. ReadPrefix'
  <2>1. SUFFICES ASSUME NEW i \in 1 .. io.total + Amount PROVE mem'[i] = dev[offset + i - 1]
    BY <1>1, <1>2 DEF ReadPrefix
  <2>2. i \in 1 .. io.n
    BY <1>2, <1>3
  <2>3. CASE i \in io.total + 1 .. io.total + Amount
    <3>1. mem'[i] = dev[Place + i - io.total - 1]
      BY <1>1, <2>2, <2>3
    <3>2. Place + i - io.total - 1 = offset + i - 1
      BY <1>2, <1>3
    <3>3. QED
      BY <3>1, <3>2
  <2>4. CASE i \in 1 .. io.total
    <3>1. ~(i \in io.total + 1 .. io.total + Amount)
      BY <1>2, <1>3, <2>4
    <3>2. mem'[i] = mem[i]
      BY <1>1, <2>2, <3>1
    <3>3. QED
      BY <1>1, <2>4, <3>2 DEF ReadPrefix, Transferring
  <2>5. QED
    BY <1>2, <1>3, <2>3, <2>4
<1>6. WritePrefix'
  BY <1>1, <1>2 DEF WritePrefix
<1>7. Kept'
  BY <1>1, <1>2 DEF Kept, Partial
<1>8. Counted(io, offset)'
  BY <1>1, <1>2
<1>9. QED
  BY <1>4, <1>5, <1>6, <1>7, <1>8 DEF IInv

LEMMA WriteBlockIInv ==
  ASSUME IInv, WriteBlock
  PROVE  IInv'
<1>1. /\ Typed /\ Counted(io, offset) /\ Transferring /\ InDevice /\ io.op = "write"
      /\ WritePrefix
      /\ dev' = [p \in Positions |->
                   IF p \in Place .. Place + Amount - 1 THEN io.total + p - Place + 1 ELSE dev[p]]
      /\ io' = Advanced /\ offset' = offset /\ size' = size /\ before' = before
  BY DEF IInv, WriteBlock
<1>2. /\ io' \in IoType /\ Counted(io', offset) /\ io'.op = io.op
      /\ io'.total = io.total + Amount /\ Amount \in Nat /\ Place = offset + io.total
      /\ io'.pc \in Partial \cup {"done"}
  BY <1>1, AdvancedCounted
<1>3. io.total \in Nat /\ offset \in Nat /\ DevSize \in Nat
  BY <1>1, Sizes DEF Typed, IoType
<1>4. dev = [p \in Positions |->
               IF p \in offset .. offset + io.total - 1 THEN p - offset + 1 ELSE before[p]]
  BY <1>1 DEF WritePrefix, Transferring
<1>5. dev' = [p \in Positions |->
                IF p \in offset .. offset + (io.total + Amount) - 1 THEN p - offset + 1 ELSE before[p]]
  <2>1. SUFFICES ASSUME NEW p \in Positions
                 PROVE  dev'[p] = IF p \in offset .. offset + (io.total + Amount) - 1
                                    THEN p - offset + 1 ELSE before[p]
    BY <1>1
  <2>2. p \in Int
    BY <1>3 DEF Positions
  <2>3. dev'[p] = IF p \in Place .. Place + Amount - 1 THEN io.total + p - Place + 1 ELSE dev[p]
    BY <1>1
  <2>4. dev[p] = IF p \in offset .. offset + io.total - 1 THEN p - offset + 1 ELSE before[p]
    BY <1>4
  <2>5. CASE p \in Place .. Place + Amount - 1
    BY <1>2, <1>3, <2>2, <2>3, <2>5
  <2>6. CASE ~(p \in Place .. Place + Amount - 1)
    BY <1>2, <1>3, <2>2, <2>3, <2>4, <2>6
  <2>7. QED
    BY <2>5, <2>6
<1>6. Typed'
  <2>1. \A p \in Positions : before[p] \in Int /\ p - offset + 1 \in Int
    BY <1>1, <1>3 DEF Typed, Positions
  <2>2. dev' \in [Positions -> Int]
    BY <1>5, <2>1
  <2>3. QED
    BY <1>1, <1>2, <2>2 DEF Typed, Positions
<1>7. WritePrefix'
  BY <1>1, <1>2, <1>5 DEF WritePrefix, Positions
<1>8. ReadPrefix' /\ Kept'
  BY <1>1, <1>2 DEF ReadPrefix, Kept, Partial
<1>9. Counted(io, offset)'
  BY <1>1, <1>2
<1>10. QED
  BY <1>6, <1>7, <1>8, <1>9 DEF IInv

LEMMA TransferFailsIInv ==
  ASSUME IInv, TransferFails
  PROVE  IInv'
<1>1. /\ io.pc \in Partial /\ io \in IoType /\ io' = [io EXCEPT !.pc = "done", !.failed = TRUE]
      /\ dev' = dev /\ offset' = offset /\ size' = size /\ mem' = mem /\ before' = before
  BY DEF IInv, Typed, TransferFails, Transferring, Partial
<1>2. /\ io' \in IoType /\ io'.pc = "done" /\ io'.failed = TRUE /\ io'.op = io.op /\ io'.n = io.n
      /\ io'.rem = io.rem /\ io'.total = io.total
  BY <1>1 DEF IoType
<1>3. Typed'
  BY <1>1, <1>2 DEF IInv, Typed, Positions
<1>4. Counted(io', offset)
  BY <1>1, <1>2 DEF IInv, Counted, Partial
<1>5. WritePrefix' /\ ReadPrefix' /\ Kept'
  BY <1>1, <1>2 DEF IInv, WritePrefix, ReadPrefix, Kept, Partial, Positions
<1>6. QED
  BY <1>1, <1>3, <1>4, <1>5 DEF IInv

\* A call that has not begun, or ended, satisfies everything but the types.
LEMMA IdleIInv ==
  ASSUME Typed', io' \in {Idle, [Idle EXCEPT !.pc = "wild"]}, dev' = before'
  PROVE  IInv'
<1>1. io'.pc \in {"idle", "wild"} /\ io'.op = "read" /\ io'.total = 0
  BY DEF Idle
<1>2. Counted(io', offset')
  BY <1>1 DEF Counted, Partial
<1>3. WritePrefix' /\ ReadPrefix' /\ Kept'
  BY <1>1 DEF WritePrefix, ReadPrefix, Kept, Partial
<1>4. QED
  BY <1>2, <1>3 DEF IInv

LEMMA ReturnIInv ==
  ASSUME IInv, Return
  PROVE  IInv'
<1>1. /\ Typed /\ io' = Idle /\ dev' = dev /\ before' = dev /\ size' = size
      /\ offset' = IF io.op = "read" THEN (offset + Count) % W ELSE offset
  BY DEF IInv, Return
<1>2. W \in Nat \ {0} /\ offset \in Nat /\ Count \in Nat
  BY <1>1 DEF Typed, Count, IoType
<1>3. (offset + Count) % W \in 0 .. W - 1
  BY <1>2
<1>4. Typed'
  BY <1>1, <1>3 DEF Typed, IoType, Idle, Positions
<1>5. QED
  BY <1>1, <1>4, IdleIInv

LEMMA SeekToIInv ==
  ASSUME IInv, NEW delta \in SeekArgs, NEW base \in {0, offset, size}, SeekTo(base, delta)
  PROVE  IInv'
<1>1. /\ Typed /\ Kept /\ io' = io /\ dev' = dev /\ before' = before /\ size' = size /\ mem' = mem
      /\ io.pc = "idle" /\ offset' = (base + delta) % W
  BY DEF IInv, SeekTo, Ready
<1>2. base \in Nat /\ delta \in Nat /\ W \in Nat \ {0}
  BY <1>1 DEF Typed
<1>3. (base + delta) % W \in 0 .. W - 1
  BY <1>2
<1>4. Typed'
  BY <1>1, <1>3 DEF Typed, Positions
<1>5. io.op = "read"
  BY <1>1 DEF Kept
<1>6. Counted(io', offset')
  BY <1>1, <1>5 DEF IInv, Counted, Partial
<1>7. QED
  BY <1>1, <1>4, <1>5, <1>6 DEF IInv, WritePrefix, ReadPrefix, Kept, Partial

LEMMA SeekInvalidIInv ==
  ASSUME IInv, SeekInvalid
  PROVE  IInv'
<1>1. /\ Typed /\ Kept /\ io' = [Idle EXCEPT !.pc = "wild"] /\ dev' = dev /\ before' = before
      /\ size' = size /\ offset' = offset /\ io.pc = "idle"
  BY DEF IInv, SeekInvalid, Ready
<1>2. Typed'
  BY <1>1 DEF Typed, IoType, Idle, Positions
<1>3. dev' = before'
  BY <1>1 DEF Kept
<1>4. QED
  BY <1>1, <1>2, <1>3, IdleIInv

LEMMA NextIInv ==
  ASSUME IInv, [Next]_vars
  PROVE  IInv'
<1>1. CASE \E n \in Counts : Call("read", n, FALSE)
  BY <1>1, CallIInv
<1>2. CASE \E n \in Counts : \E append \in BOOLEAN : Call("write", n, append)
  BY <1>2, CallIInv
<1>3. CASE Kernel
  BY <1>3, ReadBlockIInv, WriteBlockIInv, TransferFailsIInv, ReturnIInv DEF Kernel, Transfer
<1>4. CASE \E delta \in SeekArgs, base \in {0, offset, size} : SeekTo(base, delta)
  BY <1>4, SeekToIInv
<1>5. CASE SeekInvalid
  BY <1>5, SeekInvalidIInv
<1>6. CASE UNCHANGED vars
  BY <1>6, StutterIInv
<1>7. QED
  BY <1>1, <1>2, <1>3, <1>4, <1>5, <1>6 DEF Next
----------------------------------------------------------------------------
(* Theorems. *)

\* The counters of a call, its place on the device and the data it has moved
\* always fit together, whatever the position and the count.
THEOREM IInvHolds == Spec => []IInv
<1>1. Init => IInv
  BY InitIInv
<1>2. IInv /\ [Next]_vars => IInv'
  BY NextIInv
<1>3. QED
  BY <1>1, <1>2, PTL DEF Spec

\* The last block of block_readCallback and block_writeCallback leaves nothing
\* over: a call no transfer of which failed has moved all it was asked for.
THEOREM AllMovedHolds == Spec => []AllMoved
<1>1. IInv => AllMoved
  BY DEF IInv, Counted, AllMoved
<1>2. QED
  BY <1>1, IInvHolds, PTL

\* A write changes the bytes it has counted, at the position of the file, and
\* no other byte of any block it reads, changes and writes back.
THEOREM WritePrefixHolds == Spec => []WritePrefix
<1>1. IInv => WritePrefix
  BY DEF IInv
<1>2. QED
  BY <1>1, IInvHolds, PTL
----------------------------------------------------------------------------
(* The refinement. *)

\* The first state is one of FlatDevice.
LEMMA InitRefines ==
  ASSUME Init
  PROVE  Abs!Init
BY DEF Init, Abs!Init, Positions

\* The end of a call is the step of FlatDevice that moves what the call moved.
LEMMA ReturnRefines ==
  ASSUME IInv, Return
  PROVE  [Abs!Next]_Abs!fvars
<1>1. /\ Typed /\ Counted(io, offset) /\ WritePrefix /\ ReadPrefix /\ Kept
      /\ io.pc = "done" /\ before' = dev
      /\ offset' = (IF io.op = "read" THEN (offset + Count) % W ELSE offset)
      /\ got' = (IF io.op = "read" /\ ~io.failed THEN mem ELSE got)
  BY DEF IInv, Return
<1>2. /\ io.n \in Counts /\ io.n \in Nat /\ io.total \in Nat /\ io.rem \in Nat /\ offset \in Nat
      /\ io.rem + io.total = io.n /\ W \in Nat \ {0}
      /\ io.op \in {"read", "write"} /\ io.failed \in BOOLEAN /\ before \in [Positions -> Int]
  BY <1>1 DEF Counted, Partial, Typed, IoType
<1>3. io.total > 0 => offset + io.total <= DevSize
  BY <1>1 DEF Counted
<1>4. CASE io.op = "read" /\ ~io.failed
  <2>1. io.total = io.n /\ io.n > 0
    BY <1>1, <1>2, <1>4 DEF Counted, Counts
  <2>2. (offset + io.n) % W = offset + io.n
    <3>1. offset + io.n \in Nat /\ offset + io.n < W
      BY <1>2, <1>3, <2>1, Sizes
    <3>2. QED
      BY <1>2, <3>1, SmallPosition
  <2>3. dev = before /\ mem = [i \in 1 .. io.n |-> mem[i]]
    BY <1>1, <1>4 DEF Kept
  <2>4. mem = [i \in 1 .. io.n |-> before[offset + i - 1]]
    <3>1. \A i \in 1 .. io.n : mem[i] = before[offset + i - 1]
      BY <1>1, <1>4, <2>1, <2>3 DEF ReadPrefix
    <3>2. QED
      BY <2>3, <3>1
  <2>5. offset' = offset + io.n /\ got' = mem /\ before' = before
    BY <1>1, <1>4, <2>1, <2>2, <2>3 DEF Count
  <2>6. Abs!Read(io.n)
    BY <1>3, <2>1, <2>4, <2>5 DEF Abs!Read
  <2>7. QED
    BY <1>2, <2>6 DEF Abs!Next
<1>5. CASE io.op = "read" /\ io.failed
  <2>1. (offset + Junk) % W \in 0 .. W - 1
    BY <1>2
  <2>2. Abs!Move
    BY <1>1, <1>5, <2>1 DEF Abs!Move, Kept, Count
  <2>3. QED
    BY <2>2 DEF Abs!Next
<1>6. CASE io.op = "write" /\ io.total > 0
  <2>1. io.total \in 0 .. io.n
    BY <1>2
  <2>2. Abs!Write(io.n, io.total)
    BY <1>1, <1>3, <1>6, <2>1 DEF Abs!Write, WritePrefix, Positions
  <2>3. QED
    BY <1>2, <2>1, <2>2 DEF Abs!Next
<1>7. CASE io.op = "write" /\ io.total = 0
  <2>1. \A p \in Positions : ~(p \in offset .. offset + 0 - 1)
    BY <1>2
  <2>2. dev = before
    BY <1>1, <1>2, <1>7, <2>1 DEF WritePrefix
  <2>3. UNCHANGED Abs!fvars
    BY <1>1, <1>7, <2>2 DEF Abs!fvars
  <2>4. QED
    BY <2>3
<1>8. QED
  BY <1>2, <1>4, <1>5, <1>6, <1>7

\* Every other step of the program only sets the position, or nothing.
LEMMA NextRefines ==
  ASSUME IInv, IInv', [Next]_vars
  PROVE  [Abs!Next]_Abs!fvars
<1>1. offset' \in 0 .. W - 1
  BY DEF IInv, Typed
<1>2. io.pc = "idle" => dev = before
  BY DEF IInv, Kept
<1>3. ASSUME UNCHANGED <<before, got>>
      PROVE  Abs!Move
  BY <1>1, <1>3 DEF Abs!Move
<1>4. ASSUME NEW op, NEW n \in Counts, NEW append, Call(op, n, append)
      PROVE  UNCHANGED <<before, got>>
  BY <1>2, <1>4 DEF Call, Ready
<1>5. CASE Transfer
  BY <1>3, <1>5 DEF Transfer, ReadBlock, WriteBlock, TransferFails, Abs!Next
<1>6. CASE Return
  BY <1>6, ReturnRefines
<1>7. CASE \/ \E delta \in SeekArgs, base \in {0, offset, size} : SeekTo(base, delta)
           \/ SeekInvalid
  BY <1>3, <1>7 DEF SeekTo, SeekInvalid, Abs!Next
<1>8. CASE UNCHANGED vars
  BY <1>8 DEF vars, Abs!fvars
<1>9. CASE \E n \in Counts : Call("read", n, FALSE) \/ \E append \in BOOLEAN : Call("write", n, append)
  BY <1>3, <1>4, <1>9 DEF Abs!Next
<1>10. QED
  BY <1>5, <1>6, <1>7, <1>8, <1>9 DEF Next, Kernel

\* Reading and writing a block device at any position is what FlatDevice
\* promises, for blocks, devices and counts of every size: no block, whole or
\* partial, first or last, is visible to a caller.
THEOREM ImplementsFlatHolds == Spec => ImplementsFlat
<1>1. Init => Abs!Init
  BY InitRefines
<1>2. IInv /\ IInv' /\ [Next]_vars => [Abs!Next]_Abs!fvars
  BY NextRefines
<1>3. QED
  BY <1>1, <1>2, IInvHolds, PTL DEF Spec, ImplementsFlat, Abs!Spec
=============================================================================
