---- MODULE Sd ----
(* The SD card driver (system/os/src/drivers/sd.org) and the card of the
   emulator it talks to (emulator/modules/sd/sd.c). One step is one byte shifted
   between the two. At any moment the user may eject the card or insert it
   again, and the machine may be reset. *)
EXTENDS Integers, Sequences

CONSTANTS
  BlockLen,    \* bytes of a block, 512 in the machine
  NumBlocks,   \* blocks of the card
  Payloads,    \* the blocks that are written: sequences of BlockLen bytes
  Tries,       \* how often sd_getResponse looks, 8 to 100 in the machine
  DriverCalls  \* bound on the driver calls of a behaviour

ASSUME CardFits ==
  /\ BlockLen \in Nat \ {0} /\ NumBlocks \in Nat \ {0} /\ Tries \in Nat /\ DriverCalls \in Nat
  /\ Payloads \subseteq [1 .. BlockLen -> Nat]

VARIABLES
  card,   \* struct sdcard, and whether imgFile is there
  image,  \* the bytes of the image file
  drv     \* the driver: registers, the running call, and its history

sdVars == <<card, image, drv>>

Size == BlockLen * NumBlocks
IsCommand(byte) == byte \in 64 .. 127        \* (in & 0xc0) == 0x40
GoIdle == 64
SendOpCond == 65
SetBlockLen == 80
ReadSingle == 81
ReadMultiple == 82
WriteBlock == 88
StopTransmission == 76

(* The card. *)

\* What card_parseCommand makes of a complete frame f; c has lost the frame,
\* which nothing reads any more.
Parsed(c, f) ==
  LET argument == f[5]       \* the images here are shorter than 256 bytes
      answer(r) == [c EXCEPT !.response = r, !.status = "RESPONSE"]
      at(status) == [c EXCEPT !.pos = argument, !.response = 0, !.status = status]
  IN CASE f[1] = GoIdle -> answer(1)
       [] f[1] \in {SendOpCond, StopTransmission} -> answer(0)
       [] f[1] = SetBlockLen -> [answer(0) EXCEPT !.len = argument]
       [] f[1] = ReadSingle -> at("S_READ_RESPONSE")
       [] f[1] = ReadMultiple -> at("M_READ_RESPONSE")
       [] f[1] = WriteBlock -> at("S_WRITE_RESPONSE")
       [] OTHER -> [c EXCEPT !.frame = f]

Framed(c, in) ==
  LET f == Append(c.frame, in)
      d == [c EXCEPT !.status = "COMMAND", !.frame = <<>>]
  IN IF Len(f) >= 6 THEN Parsed(d, f) ELSE [d EXCEPT !.frame = f]

\* A card that waits for the next frame, or for the first data of a transfer.
Waiting(c) == [c EXCEPT !.status = "COMMAND", !.frame = <<>>, !.count = 0]
Counted(c) == [c EXCEPT !.count = @ + 1]
Shown(c, out) == [out |-> out, card |-> c, put |-> FALSE]
Byte(pos) == IF pos < Size THEN image[pos] ELSE 255   \* fgetc at the end: EOF

\* Mutant: the block ends one byte early.
Reading_Short(c, done) ==
  CASE c.count = 0 -> Shown(Counted(c), 254)
    [] c.count > c.len + 2 -> Shown(done, 255)
    [] c.count \in c.len .. c.len + 2 /\ c.count > 0 -> Shown(Counted(c), 255)
    [] OTHER -> Shown([Counted(c) EXCEPT !.pos = @ + 1], Byte(c.pos))

Reading(c, done) ==
  CASE c.count = 0 -> Shown(Counted(c), 254)
    [] c.count > c.len + 2 -> Shown(done, 255)
    [] c.count \in c.len + 1 .. c.len + 2 -> Shown(Counted(c), 255)
    [] OTHER -> Shown([Counted(c) EXCEPT !.pos = @ + 1], Byte(c.pos))

\* Mutant: the data token is stored too.
Storing_Token(c, in) ==
  CASE c.count >= c.len + 4 -> Shown(Waiting(c), 5)
    [] c.count \in c.len + 2 .. c.len + 3 -> Shown(Counted(c), 255)
    [] c.count > 0 /\ c.count < c.len + 2 ->
         [out |-> 255, card |-> [Counted(c) EXCEPT !.pos = @ + 1], put |-> TRUE]
    [] OTHER -> Shown(Counted(c), 255)

Storing(c, in) ==
  CASE c.count >= c.len + 4 -> Shown(Waiting(c), 5)
    [] c.count \in c.len + 2 .. c.len + 3 -> Shown(Counted(c), 255)
    [] c.count > 1 /\ c.count < c.len + 2 ->
         [out |-> 255, card |-> [Counted(c) EXCEPT !.pos = @ + 1], put |-> TRUE]
    [] OTHER -> Shown(IF in = 254 \/ c.count = 0 THEN Counted(c) ELSE c, 255)

Replied(c, next) == Shown([c EXCEPT !.status = next, !.count = 0], c.response)

\* card_transfer: what the card shows, what becomes of it, and whether the
\* byte goes to the image.
Transfer(c, in) ==
  CASE c.status = "IDLE" -> Shown(IF IsCommand(in) THEN Framed([c EXCEPT !.frame = <<>>], in) ELSE c, 255)
    [] c.status = "COMMAND" -> Shown(Framed(c, in), 255)
    [] c.status = "RESPONSE" -> Replied(c, "IDLE")
    [] c.status = "S_READ_RESPONSE" -> Replied(c, "S_READ")
    [] c.status = "S_READ" -> Reading(c, Waiting(c))
    [] c.status = "M_READ_RESPONSE" -> Replied(c, "M_READ")
    [] c.status = "M_READ" -> IF IsCommand(in) THEN Shown(Waiting(c), 255)
                              ELSE Reading(c, [c EXCEPT !.count = 0])
    [] c.status = "S_WRITE_RESPONSE" -> Replied(c, "S_WRITE")
    [] c.status = "S_WRITE" -> Storing(c, in)

\* A write to port 1 and the read of port 0 that may follow.
Exchange(in) ==
  IF card.present /\ card.enable THEN Transfer(card, in) ELSE Shown(card, 255)

Enabled(c) ==      \* a write to port 2
  IF ~c.present THEN c
  ELSE [c EXCEPT !.status = IF c.enable THEN @ ELSE "IDLE", !.enable = TRUE]
Disabled(c) == IF c.present THEN [c EXCEPT !.enable = FALSE] ELSE c  \* port 3

(* The user of the emulator. *)

\* sd_new leaves the fields of the card as it finds the memory.
Create ==
  /\ card.status = "none"
  /\ \E enable \in BOOLEAN, len \in {0, BlockLen} :
       card' = [card EXCEPT !.status = "IDLE", !.enable = enable, !.len = len]
  /\ UNCHANGED <<image, drv>>

Insert ==
  /\ card.status # "none" /\ ~card.present
  /\ card' = [card EXCEPT !.present = TRUE, !.status = "IDLE"]
  /\ drv' = [drv EXCEPT !.swap = "inserted", !.upset = @ \/ drv.pc # "idle"]
  /\ UNCHANGED image

Eject ==
  /\ card.present
  /\ card' = [card EXCEPT !.present = FALSE]
  /\ drv' = [drv EXCEPT !.swap = IF @ = "no" THEN "ejected" ELSE @]
  /\ UNCHANGED image

(* The driver. *)

Idle == drv.pc = "idle"

\* Registers mean nothing between two calls.
Forget(d) == [d EXCEPT !.frame = <<>>, !.i = 0, !.e = 0, !.b = 0]

\* A call of the driver begins: its history too.
Begin(op, blk, data) ==
  /\ Idle /\ card.status # "none" /\ drv.calls < DriverCalls
  /\ drv' = [drv EXCEPT !.op = op, !.blk = blk, !.data = data, !.pc = "start", !.got = <<>>,
                        !.swap = "no", !.upset = @ /\ op # "init", !.result = "none",
                        !.before = image, !.calls = @ + 1]
  /\ UNCHANGED <<card, image>>

BeginInit == ~drv.ready /\ Begin("init", 0, <<>>)
BeginRead == drv.ready /\ \E blk \in 0 .. NumBlocks - 1 : Begin("read", blk, <<>>)
BeginWrite == drv.ready /\ \E blk \in 0 .. NumBlocks - 1, p \in Payloads : Begin("write", blk, p)

\* The machine is reset: the driver is forgotten, the card is not told.
Reset ==
  /\ drv.calls > 0 /\ drv.calls < DriverCalls
  /\ drv' = Forget([drv EXCEPT !.pc = "idle", !.ready = FALSE, !.result = "none"])
  /\ UNCHANGED <<card, image>>

\* sd_sendCmd is entered with command cmd and 32-bit argument arg.
Command(d, cmd, arg) == [d EXCEPT !.pc = "busy", !.frame = <<cmd, 0, 0, 0, arg, 149>>, !.i = 1]
CardAddress == drv.blk * BlockLen
Await(d, e, n) == [d EXCEPT !.pc = "resp", !.e = e, !.b = n]

Start ==
  /\ drv.pc = "start"
  /\ card' = Enabled(IF drv.op = "init" THEN Disabled(card) ELSE card)
  /\ drv' = Command(drv, CASE drv.op = "init" -> GoIdle
                           [] drv.op = "read" -> ReadSingle
                           [] drv.op = "write" -> WriteBlock, CardAddress)
  /\ UNCHANGED image

\* One byte is shifted; next is what the driver does with what it sees.
Shift(in, Next(_)) ==
  LET r == Exchange(in)
  IN /\ card' = r.card
     /\ image' = IF r.put /\ card.pos < Size THEN [image EXCEPT ![card.pos] = in] ELSE image
     /\ drv' = Next(r.out)

\* busyLoop: until the card shows 0xff, for ever if need be.
Busy == drv.pc = "busy" /\ Shift(255, LAMBDA out : IF out = 255 THEN [drv EXCEPT !.pc = "frame"] ELSE drv)

Expected == IF drv.frame[1] = GoIdle THEN 1 ELSE 0
SendFrame ==
  /\ drv.pc = "frame"
  /\ Shift(drv.frame[drv.i],
           LAMBDA out : IF drv.i < 6 THEN [drv EXCEPT !.i = @ + 1] ELSE Await(drv, Expected, Tries))

Done(d, result) == [d EXCEPT !.pc = "stop", !.result = result]

\* The answer came: what follows the command it answers.
Answered(d) ==
  CASE d.e = 254 -> [d EXCEPT !.pc = "data"]
    [] d.e # 254 /\ d.frame[1] \in {GoIdle, SendOpCond, SetBlockLen} -> [d EXCEPT !.pc = "poll"]
    [] d.e # 254 /\ d.frame[1] = ReadSingle -> Await(d, 254, Tries)
    [] d.e # 254 /\ d.frame[1] = WriteBlock -> [d EXCEPT !.pc = "gap"]

\* No answer: an error, but to SEND_OP_COND, which is sent again. The count of
\* operatingLoop is kept in d, which sd_sendCmd uses, and never runs out.
Unanswered(d) == IF d.frame[1] = SendOpCond THEN [d EXCEPT !.pc = "poll"] ELSE Done(d, "error")

\* Mutant: the number of retries is not counted down.
Looked_Forever(d, out) ==
  IF out = d.e THEN Answered(d) ELSE IF d.b > 0 THEN d ELSE Unanswered(d)

Looked(d, out) ==
  CASE out = d.e -> Answered(d)
    [] out # d.e /\ d.b > 1 -> [d EXCEPT !.b = @ - 1]
    [] out # d.e /\ d.b <= 1 -> Unanswered([d EXCEPT !.b = 0])
GetResponse == drv.pc = "resp" /\ Shift(255, LAMBDA out : Looked(drv, out))

\* poll00, poll01 and poll02 shift what is left of the count; then the next command.
AfterPoll(d) ==
  CASE d.frame[1] = GoIdle -> Command(d, SendOpCond, 0)
    [] d.frame[1] = SendOpCond /\ d.b = 0 -> Command(d, SendOpCond, 0)
    [] d.frame[1] = SendOpCond /\ d.b > 0 -> Command(d, SetBlockLen, BlockLen)
    [] d.frame[1] = SetBlockLen -> Done([d EXCEPT !.ready = TRUE], "ok")
Poll == drv.pc = "poll" /\ Shift(255, LAMBDA out : AfterPoll(drv))

GetData ==
  /\ drv.pc = "data"
  /\ Shift(255, LAMBDA out :
       [drv EXCEPT !.got = Append(@, out), !.i = 0,
                   !.pc = IF Len(drv.got) + 1 < BlockLen THEN "data" ELSE "crc"])
GetCrc ==
  /\ drv.pc = "crc"
  /\ Shift(255, LAMBDA out : IF drv.i = 0 THEN [drv EXCEPT !.i = 1] ELSE Done(drv, "ok"))

\* Eight clocks, the data token, the block, two bytes of CRC.
Gap == drv.pc = "gap" /\ Shift(255, LAMBDA out : [drv EXCEPT !.pc = "mark"])
Mark == drv.pc = "mark" /\ Shift(254, LAMBDA out : [drv EXCEPT !.pc = "put", !.i = 1])
PutData ==
  /\ drv.pc = "put"
  /\ Shift(IF drv.i <= BlockLen THEN drv.data[drv.i] ELSE 255,
           LAMBDA out : [drv EXCEPT !.i = @ + 1, !.pc = IF drv.i < BlockLen + 2 THEN "put" ELSE "accept"])
Accept ==
  /\ drv.pc = "accept"
  /\ Shift(255, LAMBDA out : Done(drv, IF out % 32 = 5 THEN "ok" ELSE "error"))

Stop ==
  /\ drv.pc = "stop"
  /\ card' = Disabled(card)
  /\ drv' = Forget([drv EXCEPT !.pc = "idle"])
  /\ UNCHANGED image

Driver == \/ Start \/ Busy \/ SendFrame \/ GetResponse \/ Poll \/ GetData \/ GetCrc
          \/ Gap \/ Mark \/ PutData \/ Accept \/ Stop

SdInit ==
  /\ card = [present |-> FALSE, enable |-> FALSE, status |-> "none", count |-> 0, frame |-> <<>>,
             response |-> 0, len |-> 0, pos |-> 0]
  /\ image = [k \in 0 .. Size - 1 |-> k % 16]
  /\ drv = [pc |-> "idle", op |-> "init", blk |-> 0, data |-> <<>>, got |-> <<>>, frame |-> <<>>,
            i |-> 0, e |-> 0, b |-> 0, ready |-> FALSE, result |-> "none", swap |-> "no", upset |-> FALSE,
            before |-> [k \in 0 .. Size - 1 |-> k % 16], calls |-> 0]

SdNext == Create \/ Insert \/ Eject \/ Reset \/ BeginInit \/ BeginRead \/ BeginWrite \/ Driver

\* While a call of the driver runs, the processor does nothing else.
SdFairness == WF_sdVars(Driver)
SdSpec == SdInit /\ [][SdNext]_sdVars
SdFairSpec == SdSpec /\ SdFairness

(* Properties. A card that is inserted while a call runs may take bytes of data
   for a command, SET_BLOCKLEN included, so that nothing is claimed about such a
   call and the calls after it, up to the next sd_init. *)

InBlock(k) == k \in CardAddress .. CardAddress + BlockLen - 1
NewByte(k) == drv.data[k - CardAddress + 1]

\* sd_writeBlock changes a first part of the block it was given and nothing
\* else, whenever the card is ejected or the machine reset; all of the block
\* when it reports success.
SdWritePrefix ==
  drv.op = "write" /\ ~drv.upset =>
    \E n \in 0 .. BlockLen :
      /\ image = [k \in 0 .. Size - 1 |->
                   IF InBlock(k) /\ k < CardAddress + n THEN NewByte(k) ELSE drv.before[k]]
      /\ drv.result = "ok" => n = BlockLen

\* sd_readBlock returns the block while the card stays in. When the card is
\* ejected under it, it still reports success if the data had begun: a first
\* part of the block and then bytes 0xff.
SdReadExact ==
  drv.op = "read" /\ drv.result # "none" /\ drv.swap # "inserted" /\ ~drv.upset =>
    /\ card.present => drv.result = "ok"
    /\ drv.result = "ok" =>
         \E n \in 0 .. BlockLen :
           /\ drv.swap = "no" => n = BlockLen
           /\ drv.got = [k \in 1 .. BlockLen |-> IF k <= n THEN image[CardAddress + k - 1] ELSE 255]

\* Reading and writing always return, card or no card: the wait of sd_sendCmd
\* has no time-out but needs none with this card. sd_init returns if the card
\* stays in from some time on; without it the loop that repeats SEND_OP_COND
\* has no end.
SdReturns ==
  /\ (drv.pc # "idle" /\ drv.op # "init") ~> drv.pc = "idle"
  /\ <>[](card.present) => []<>(drv.pc = "idle")
====
