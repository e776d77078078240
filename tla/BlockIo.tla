------------------------------ MODULE BlockIo ------------------------------
(***************************************************************************)
(* Reading and writing a block device at any byte position: the read,      *)
(* write and lseek calls of fs/vfs.org on a device file, on top of the     *)
(* translation into block transfers of block.org.                          *)
(*                                                                         *)
(* A step is one block: its transfer, or for a part of a block that is     *)
(* written its read, change and write back, and the bookkeeping up to the  *)
(* next one.  The device may fail at every transfer.                       *)
(***************************************************************************)
EXTENDS Integers

CONSTANTS
  B,          \* bytes of a block (512)
  DevBlocks,  \* blocks of the device
  W,          \* one more than the largest 32-bit number
  MaxCount,   \* largest count of a call
  SeekArgs,   \* offsets the programs pass to lseek
  OldSizes,   \* what the size field of the file entry may hold
  Junk,       \* what register de holds when a transfer has failed
  MaxCalls    \* bound: reads and writes per behaviour

\* A count has 16 bits, a position 32; the devices lie in the lower half of the
\* positions, and no count is larger than a half.
ASSUME BlocksFit ==
  /\ B \in Nat \ {0} /\ DevBlocks \in Nat /\ MaxCalls \in Nat
  /\ W \in Nat /\ 2 * B * DevBlocks <= W
  /\ MaxCount \in Nat /\ 2 * MaxCount <= W /\ SeekArgs \subseteq 0 .. W - 1 /\ OldSizes \subseteq 0 .. W - 1
  /\ Junk \in 0 .. W - 1

VARIABLES
  dev,     \* the bytes of the device
  offset,  \* ft_offset of the open device file
  size,    \* ft_size of it: no driver sets it for a device file, so that it is
           \* what an earlier file left in the entry
  mem,     \* the caller's buffer of the last read
  io,      \* the call that is running
  before,  \* history: the device when the running call began
  got,     \* history: what the last read that did not fail delivered
  calls    \* number of reads and writes begun

vars == <<dev, offset, size, mem, io, before, got, calls>>
----------------------------------------------------------------------------
DevSize   == B * DevBlocks
Positions == 0 .. DevSize - 1
Counts    == 1 .. MaxCount

\* The i-th byte of the buffer of a write is i, so that a byte of the device
\* tells where in a buffer it came from.
Blank == 0

\* pc: what comes next: the partial block a call starts in, a whole block, or
\* the last block, partial or whole; "wild" when a return address was lost.
Idle == [pc |-> "idle", op |-> "read", n |-> 0, cur |-> 0, end |-> 0, rel |-> 0,
         rem |-> 0, total |-> 0, failed |-> FALSE]

Init ==
  /\ dev = [p \in Positions |-> Blank]
  /\ offset = 0
  /\ size \in OldSizes
  /\ mem = <<>>
  /\ io = Idle
  /\ before = dev
  /\ got = <<>>
  /\ calls = 0

Ready == io.pc = "idle"

\* After a block: whole blocks while the last one is not reached; of the last
\* one nothing, a part or all.
Continue(r) ==
  [r EXCEPT !.pc = IF r.cur < r.end THEN "full"
                   ELSE IF r.rem = 0 THEN "done"
                   ELSE IF r.rem = B THEN "lastFull" ELSE "lastPart"]

\* Mutant: the last block is counted from the first, without the place in it.
Started_FromBlock(op, n, from) ==
  LET r == [Idle EXCEPT !.op = op, !.n = n, !.rem = n,
                        !.cur = from \div B,
                        !.end = from \div B + (n - 1) \div B,
                        !.rel = from % B]
  IN  IF r.rel = 0 THEN Continue(r) ELSE [r EXCEPT !.pc = "first"]

\* block_init: first and last block, and where in the first one to start.
Started(op, n, from) ==
  LET r == [Idle EXCEPT !.op = op, !.n = n, !.rem = n,
                        !.cur = from \div B,
                        !.end = ((from + n - 1) % W) \div B,
                        !.rel = from % B]
  IN  IF r.rel = 0 THEN Continue(r) ELSE [r EXCEPT !.pc = "first"]

\* k_read, k_write.  A count of zero returns before the driver is called.  A
\* file that is open for appending is written from its size on.
Call(op, n, append) ==
  /\ Ready
  /\ calls < MaxCalls
  /\ offset' = IF append THEN size ELSE offset
  /\ io' = Started(op, n, offset')
  /\ before' = dev
  /\ mem' = IF op = "read" THEN [i \in 1 .. n |-> Blank] ELSE mem
  /\ calls' = calls + 1
  /\ UNCHANGED <<dev, size, got>>

\* block_calcCopyPointers: a partial block takes what is left of it or of the
\* call; a whole one takes B bytes.
Amount == IF io.pc \in {"full", "lastFull"} THEN B
          ELSE IF B - io.rel < io.rem THEN B - io.rel ELSE io.rem

\* Mutant: the place inside the block is kept for the blocks that follow.
Advanced_KeepsRel ==
  Continue([io EXCEPT !.total = @ + Amount, !.rem = @ - Amount, !.cur = @ + 1])

\* block_nextBlock; a last block ends the call whatever remains.
Advanced ==
  LET r == [io EXCEPT !.total = @ + Amount, !.rem = @ - Amount, !.cur = @ + 1,
                      !.rel = IF io.pc \in {"first", "lastPart"} THEN 0 ELSE @]
  IN  IF io.pc \in {"first", "full"} THEN Continue(r) ELSE [r EXCEPT !.pc = "done"]

Transferring == io.pc \in {"first", "full", "lastFull", "lastPart"}
InDevice     == (io.cur + 1) * B <= DevSize

Place == io.cur * B + io.rel

ReadBlock ==
  /\ Transferring /\ io.op = "read" /\ InDevice
  /\ mem' = [i \in 1 .. io.n |->
               IF i \in io.total + 1 .. io.total + Amount THEN dev[Place + i - io.total - 1]
               ELSE mem[i]]
  /\ io' = Advanced
  /\ UNCHANGED <<dev, offset, size, before, got, calls>>

\* The part of the block that is not written keeps what was read from it.
WriteBlock ==
  /\ Transferring /\ io.op = "write" /\ InDevice
  /\ dev' = [p \in Positions |->
               IF p \in Place .. Place + Amount - 1 THEN io.total + p - Place + 1 ELSE dev[p]]
  /\ io' = Advanced
  /\ UNCHANGED <<offset, size, mem, before, got, calls>>

\* Mutant: the error of a transfer is not looked at, and the block tried again.
TransferFails_Again == Transferring /\ UNCHANGED vars

\* The driver's error ends the call at once; a block that is refused stays as
\* it was.
TransferFails ==
  /\ Transferring
  /\ io' = [io EXCEPT !.pc = "done", !.failed = TRUE]
  /\ UNCHANGED <<dev, offset, size, mem, before, got, calls>>

Count == IF io.failed THEN Junk ELSE io.total

\* k_read adds whatever count the driver returns to the position, and reports
\* no error; k_write leaves the position to the driver, and block_write leaves
\* it alone.
Return ==
  /\ io.pc = "done"
  /\ offset' = IF io.op = "read" THEN (offset + Count) % W ELSE offset
  /\ io' = Idle
  /\ before' = dev
  /\ got' = IF io.op = "read" /\ ~io.failed THEN mem ELSE got
  /\ UNCHANGED <<dev, size, mem, calls>>

\* SEEK_SET, SEEK_CUR and SEEK_END; a place in the upper half is refused.
SeekTo(base, delta) ==
  /\ Ready
  /\ LET new == (base + delta) % W
     IN  /\ new < W \div 2
         /\ offset' = new
  /\ UNCHANGED <<dev, size, mem, io, before, got, calls>>

\* Any other whence returns over two words that are still on the stack.
SeekInvalid ==
  /\ Ready
  /\ io' = [Idle EXCEPT !.pc = "wild"]
  /\ UNCHANGED <<dev, offset, size, mem, before, got, calls>>

Transfer == ReadBlock \/ WriteBlock \/ TransferFails
Kernel   == Transfer \/ Return

Next ==
  \/ \E n \in Counts : Call("read", n, FALSE) \/ \E append \in BOOLEAN : Call("write", n, append)
  \/ Kernel
  \/ \E delta \in SeekArgs, base \in {0, offset, size} : SeekTo(base, delta)
  \/ SeekInvalid

Spec == Init /\ [][Next]_vars /\ WF_vars(Kernel)
----------------------------------------------------------------------------
(* Properties. *)

\* Type invariant.  What a call has moved and what it has left always make up
\* what was asked for, the 16-bit counters of block.org never part.
TypeOK ==
  /\ dev \in [Positions -> 0 .. MaxCount]
  /\ before \in [Positions -> 0 .. MaxCount]
  /\ offset \in 0 .. W - 1 /\ size \in OldSizes
  /\ io.pc \in {"idle", "first", "full", "lastFull", "lastPart", "done", "wild"}
  /\ io.rem + io.total = io.n /\ io.rem >= 0 /\ io.rel \in 0 .. B - 1
  /\ calls \in 0 .. MaxCalls

\* While a call runs, whatever block it is at, the device differs from what it
\* was in exactly the bytes the call has counted, at the position of the file.
WritePrefix ==
  io.op = "write" /\ io.pc # "idle" =>
    dev = [p \in Positions |->
             IF p \in offset .. offset + io.total - 1 THEN p - offset + 1 ELSE before[p]]

\* What a read has delivered so far are the bytes from the position on.
ReadPrefix ==
  io.op = "read" /\ io.pc \notin {"idle", "wild"} =>
    \A i \in 1 .. io.total : mem[i] = dev[offset + i - 1]

\* A call that does not fail moves all it was asked for: the last block leaves
\* nothing over, whatever the position and the count are.
AllMoved == io.pc = "done" /\ ~io.failed => io.total = io.n

\* The call as its caller sees it: any number of bytes move at once, at the
\* position of the file, and the position moves behind what was read.
Abs == INSTANCE FlatDevice WITH
  Size <- DevSize, Modulus <- W,
  bytes <- before, pos <- offset

ImplementsFlat == Abs!Spec

\* Every call comes back, also one the device fails in.
CallsReturn == Transferring ~> io.pc = "idle"

\* The position moves by the number of bytes that were read, as k_read's
\* comment says.  It does not hold: see the README.
ReadAdvances ==
  [][io.pc = "done" /\ io.op = "read" => offset' = (offset + io.total) % W]_vars
=============================================================================
