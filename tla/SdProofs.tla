---- MODULE SdProofs ----
(* SdWritePrefix and SdReadExact hold of every card, every block length, every
   payload and every number of tries. The invariant says where the card stands in
   the exchange of bytes, given where the driver stands, unless a card was
   inserted while a call ran (drv.upset); how much of a block is written or read
   at that place follows from it. *)
EXTENDS Sd, TLAPS

USE CardFits

Statuses == {"none", "IDLE", "COMMAND", "RESPONSE", "S_READ_RESPONSE", "S_READ", "M_READ_RESPONSE",
             "M_READ", "S_WRITE_RESPONSE", "S_WRITE"}
CardType ==
  [present : BOOLEAN, enable : BOOLEAN, status : Statuses, count : Nat, frame : Seq(Nat),
   response : Nat, len : Nat, pos : Nat]
Bytes == [0 .. Size - 1 -> Int]
Running == {"busy", "frame", "resp", "poll", "data", "crc", "gap", "mark", "put", "accept"}
DrvType ==
  [pc : Running \cup {"idle", "start", "stop"}, op : {"init", "read", "write"},
   blk : 0 .. NumBlocks - 1, data : Payloads \cup {<<>>}, got : Seq(Int), frame : Seq(Nat),
   i : Nat, e : Nat, b : Nat, ready : BOOLEAN, result : {"none", "ok", "error"},
   swap : {"no", "inserted", "ejected"}, upset : BOOLEAN, before : Bytes, calls : Nat]

SdTyped ==
  card \in CardType /\ (card.present => card.status # "none") /\ image \in Bytes /\ drv \in DrvType

\* The frame of a command.
Frame(cmd, arg) == <<cmd, 0, 0, 0, arg, 149>>

\* The driver's own course, whatever the card does.
OnCourse ==
  /\ drv.pc \in {"start"} \cup Running => drv.result = "none"
  /\ drv.pc # "idle" /\ drv.op # "init" => drv.ready
  /\ drv.op = "init" => drv.blk = 0
  /\ drv.op = "write" => drv.data \in Payloads
  /\ drv.pc \in Running =>
       \/ drv.op = "init" /\ drv.frame \in {Frame(GoIdle, 0), Frame(SendOpCond, 0), Frame(SetBlockLen, BlockLen)}
       \/ drv.op = "read" /\ drv.frame = Frame(ReadSingle, CardAddress)
       \/ drv.op = "write" /\ drv.frame = Frame(WriteBlock, CardAddress)
  /\ drv.pc = "busy" => drv.i = 1
  /\ drv.pc = "frame" => drv.i \in 1 .. 6
  /\ drv.pc = "resp" => drv.e = Expected \/ (drv.e = 254 /\ drv.op = "read")
  /\ drv.pc = "poll" => drv.op = "init"
  /\ drv.pc \in {"data", "crc"} => drv.op = "read"
  /\ drv.pc \in {"gap", "mark", "put", "accept"} => drv.op = "write"
  /\ drv.pc = "put" => drv.i \in 1 .. BlockLen + 2
  /\ drv.pc \in {"start", "busy", "frame", "resp", "poll"} => drv.got = <<>>
  /\ drv.pc = "data" => Len(drv.got) < BlockLen
  /\ drv.pc = "crc" => Len(drv.got) = BlockLen /\ drv.i \in 0 .. 1

Least(m, n) == IF m < n THEN m ELSE n

\* Where the card stands in the exchange of a driver d.
Agreed(c, d) ==
  /\ d.pc \in {"idle", "start"} /\ d.ready => ~c.enable \/ c.status = "IDLE"
  /\ d.pc \in Running => c.enable
  /\ d.pc \in {"busy", "poll"} => c.status = "IDLE"
  /\ d.pc = "frame" =>
       IF d.i = 1 THEN c.status = "IDLE"
       ELSE c.status = "COMMAND" /\ Len(c.frame) = d.i - 1 /\ \A k \in 1 .. d.i - 1 : c.frame[k] = d.frame[k]
  /\ d.pc = "resp" =>
       IF d.e = 254 THEN c.status = "S_READ" /\ c.count = 0 /\ c.pos = d.blk * BlockLen
       ELSE /\ c.response = d.e
            /\ d.op = "init" => c.status = "RESPONSE"
            /\ d.op = "read" => c.status = "S_READ_RESPONSE" /\ c.pos = d.blk * BlockLen
            /\ d.op = "write" => c.status = "S_WRITE_RESPONSE" /\ c.pos = d.blk * BlockLen
            /\ d.frame[1] = SetBlockLen => c.len = BlockLen
  /\ d.pc = "data" =>
       c.status = "S_READ" /\ c.count = Len(d.got) + 1 /\ c.pos = d.blk * BlockLen + Len(d.got)
  /\ d.pc = "crc" => c.status = "S_READ" /\ c.count = BlockLen + 1 + d.i
  /\ d.pc \in {"gap", "mark", "put", "accept"} => c.status = "S_WRITE"
  /\ d.pc = "gap" => c.count = 0 /\ c.pos = d.blk * BlockLen
  /\ d.pc = "mark" => c.count = 1 /\ c.pos = d.blk * BlockLen
  /\ d.pc = "put" => c.count = d.i + 1 /\ c.pos = d.blk * BlockLen + Least(d.i - 1, BlockLen)
  /\ d.pc = "accept" => c.count = BlockLen + 4

\* Card and driver agree as long as no card was inserted while a call ran; a card
\* that was taken out stays set.
InStep ==
  ~drv.upset =>
    /\ drv.ready => card.len = BlockLen
    /\ drv.pc = "poll" /\ drv.frame[1] = SetBlockLen => card.len = BlockLen
    /\ card.present => Agreed(card, drv)

\* An image of which n bytes from a on have been written over.
Filled(before, a, data, n) ==
  [k \in 0 .. Size - 1 |->
     IF k \in a .. a + BlockLen - 1 /\ k < a + n THEN data[k - a + 1] ELSE before[k]]

WriteKept ==
  drv.op = "write" /\ ~drv.upset =>
    \E n \in 0 .. BlockLen :
      /\ image = Filled(drv.before, CardAddress, drv.data, n)
      /\ drv.result = "ok" => n = BlockLen
      /\ drv.pc = "start" \/ (card.present /\ drv.pc \in Running \ {"put", "accept"}) => n = 0
      /\ card.present /\ drv.pc = "put" => n = Least(drv.i - 1, BlockLen)
      /\ card.present /\ drv.pc = "accept" => n = BlockLen

\* What is read of a block by m looks at the line, when the card gives the first n.
Seen(im, a, n, m) == [k \in 1 .. m |-> IF k <= n THEN im[a + k - 1] ELSE 255]

ReadKept ==
  drv.op = "read" /\ ~drv.upset =>
    /\ \E n \in 0 .. Len(drv.got) :
         /\ drv.got = Seen(image, CardAddress, n, Len(drv.got))
         /\ drv.swap = "no" \/ (card.present /\ drv.pc = "data") => n = Len(drv.got)
    /\ drv.swap = "no" /\ (drv.pc \in {"data", "crc"} \/ drv.result = "ok") => card.present
    /\ drv.result = "ok" => Len(drv.got) = BlockLen
    /\ card.present /\ drv.swap # "inserted" => drv.swap = "no" /\ drv.result # "error"

\* A driver that runs, or has run, has a card to talk to.
Created == drv.pc # "idle" \/ drv.ready => card.status # "none"

\* The inductive invariant.
IInv == SdTyped /\ OnCourse /\ InStep /\ WriteKept /\ ReadKept
----------------------------------------------------------------------------
(* The card. *)

\* Whatever the card is sent, it stays a card, and keeps its place.
LEMMA ParsedTyped ==
  ASSUME NEW c \in CardType, NEW f \in Seq(Nat), Len(f) >= 6
  PROVE  Parsed(c, f) \in CardType /\ Parsed(c, f).present = c.present /\ Parsed(c, f).enable = c.enable
<1>1. f[5] \in Nat
  OBVIOUS
<1> DEFINE a == [c EXCEPT !.response = 1, !.status = "RESPONSE"]
           b == [c EXCEPT !.response = 0, !.status = "RESPONSE"]
           at(s) == [c EXCEPT !.pos = f[5], !.response = 0, !.status = s]
<1>2. a \in CardType /\ a.present = c.present /\ a.enable = c.enable
  BY DEF CardType, Statuses
<1>3. b \in CardType /\ b.present = c.present /\ b.enable = c.enable
  BY DEF CardType, Statuses
<1>4. [b EXCEPT !.len = f[5]] \in CardType /\ [b EXCEPT !.len = f[5]].present = c.present
      /\ [b EXCEPT !.len = f[5]].enable = c.enable
  <2> HIDE DEF b
  <2>1. QED
    BY <1>1, <1>3 DEF CardType
<1>5. \A s \in Statuses : at(s) \in CardType /\ at(s).present = c.present /\ at(s).enable = c.enable
  BY <1>1 DEF CardType
<1>6. [c EXCEPT !.frame = f] \in CardType /\ [c EXCEPT !.frame = f].present = c.present
      /\ [c EXCEPT !.frame = f].enable = c.enable
  BY DEF CardType
<1>7. Parsed(c, f) \in {a, b, [b EXCEPT !.len = f[5]], at("S_READ_RESPONSE"), at("M_READ_RESPONSE"),
                        at("S_WRITE_RESPONSE"), [c EXCEPT !.frame = f]}
  <2> HIDE DEF at
  <2>1. QED
    BY DEF Parsed, at
<1>8. QED
  <2> HIDE DEF a, b, at
  <2>1. at("S_READ_RESPONSE") \in CardType /\ at("M_READ_RESPONSE") \in CardType /\ at("S_WRITE_RESPONSE") \in CardType
    BY <1>5 DEF Statuses
  <2>2. QED
    BY <1>2, <1>3, <1>4, <1>5, <1>6, <1>7, <2>1 DEF Statuses

\* What a card may show.
Shows(r, c) ==
  /\ r.out \in Int /\ r.card \in CardType
  /\ r.card.present = c.present /\ r.card.enable = c.enable /\ r.card.status # "none"

\* The frame of a card that has been sent nothing.
LEMMA Empty == <<>> \in Seq(Nat) /\ Len(<<>>) = 0
OBVIOUS

\* What the card shows, what becomes of it, and what it stores.
LEMMA ShownIs ==
  ASSUME NEW c \in CardType, NEW d \in CardType, d.present = c.present, d.enable = c.enable, d.status # "none",
         NEW out \in Int
  PROVE  Shows(Shown(d, out), c)
BY DEF Shows, Shown

LEMMA NoPut == ASSUME NEW d, NEW out PROVE ~Shown(d, out).put
BY DEF Shown

LEMMA ShownOut == ASSUME NEW d, NEW out PROVE Shown(d, out).card = d /\ Shown(d, out).out = out
BY DEF Shown

\* A byte is added to a frame.
LEMMA FramedTyped ==
  ASSUME NEW c \in CardType, NEW in \in Nat
  PROVE  Framed(c, in) \in CardType /\ Framed(c, in).present = c.present /\ Framed(c, in).enable = c.enable
         /\ Framed(c, in).status # "none"
<1> DEFINE f == Append(c.frame, in)
           d == [c EXCEPT !.status = "COMMAND", !.frame = <<>>]
<1>1. f \in Seq(Nat) /\ Len(f) \in Nat
  BY DEF CardType
<1>2. d \in CardType /\ d.present = c.present /\ d.enable = c.enable /\ d.status = "COMMAND"
  BY Empty DEF CardType, Statuses
<1> HIDE DEF f
<1>3. [d EXCEPT !.frame = f] \in CardType /\ [d EXCEPT !.frame = f].present = c.present
      /\ [d EXCEPT !.frame = f].enable = c.enable /\ [d EXCEPT !.frame = f].status = "COMMAND"
  <2> HIDE DEF d
  <2>1. QED
    BY <1>1, <1>2 DEF CardType
<1>4. Framed(c, in) = IF Len(f) >= 6 THEN Parsed(d, f) ELSE [d EXCEPT !.frame = f]
  BY DEF Framed, f
<1> HIDE DEF d
<1>5. Len(f) >= 6 => Parsed(d, f) \in CardType /\ Parsed(d, f).present = c.present /\ Parsed(d, f).enable = c.enable
  BY <1>1, <1>2, ParsedTyped
<1>6. Parsed(d, f).status # "none"
  <2>1. d.status # "none" /\ d \in CardType
    BY <1>2
  <2>2. QED
    BY <2>1 DEF Parsed, CardType
<1>7. QED
  BY <1>3, <1>4, <1>5, <1>6

\* A byte is counted.
LEMMA CountedIs ==
  ASSUME NEW c \in CardType
  PROVE  /\ Counted(c) \in CardType /\ Counted(c).present = c.present /\ Counted(c).enable = c.enable
         /\ Counted(c).status = c.status /\ Counted(c).count = c.count + 1 /\ Counted(c).pos = c.pos
         /\ Counted(c).len = c.len
BY DEF Counted, CardType

\* A transfer has ended.
LEMMA WaitingIs ==
  ASSUME NEW c \in CardType
  PROVE  /\ Waiting(c) \in CardType /\ Waiting(c).present = c.present /\ Waiting(c).enable = c.enable
         /\ Waiting(c).status = "COMMAND" /\ Waiting(c).len = c.len
<1>1. "COMMAND" \in Statuses /\ 0 \in Nat
  BY DEF Statuses
<1>2. QED
  BY <1>1, Empty DEF Waiting, CardType

\* The card after a byte that moves the image file on.
Moved(c) == [Counted(c) EXCEPT !.pos = @ + 1]

\* A byte is counted and the place moved on.
LEMMA MovedIs ==
  ASSUME NEW c \in CardType
  PROVE  /\ Moved(c) \in CardType /\ Moved(c).present = c.present /\ Moved(c).enable = c.enable
         /\ Moved(c).status = c.status /\ Moved(c).count = c.count + 1 /\ Moved(c).pos = c.pos + 1
         /\ Moved(c).len = c.len
<1>1. PICK d \in CardType : d = Counted(c)
  BY CountedIs
<1>2. Moved(c) = [d EXCEPT !.pos = d.pos + 1]
  BY <1>1 DEF Moved
<1>3. /\ d.present = c.present /\ d.enable = c.enable /\ d.status = c.status /\ d.count = c.count + 1
      /\ d.pos = c.pos /\ d.len = c.len
  BY <1>1, CountedIs
<1>4. d.pos + 1 \in Nat
  BY DEF CardType
<1>5. QED
  BY <1>2, <1>3, <1>4 DEF CardType

\* A step of a read changes no image.
LEMMA ReadingTyped ==
  ASSUME NEW c \in CardType, c.status # "none", image \in Bytes,
         NEW done \in CardType, done.present = c.present, done.enable = c.enable, done.status # "none"
  PROVE  Shows(Reading(c, done), c) /\ ~Reading(c, done).put
<1>1. Byte(c.pos) \in Int
  BY DEF Byte, Bytes, Size, CardType
<1>2. PICK d \in {Counted(c), Moved(c), done}, out \in Int : Reading(c, done) = Shown(d, out)
  BY <1>1 DEF Reading, Moved
<1>3. d \in CardType /\ d.present = c.present /\ d.enable = c.enable /\ d.status # "none"
  BY CountedIs, MovedIs
<1>4. QED
  BY <1>2, <1>3, ShownIs, NoPut

\* A step of a write.
LEMMA StoringTyped ==
  ASSUME NEW c \in CardType, c.status # "none", NEW in
  PROVE  Shows(Storing(c, in), c)
<1>1. Storing(c, in) \in {Shown(Waiting(c), 5), Shown(Counted(c), 255), Shown(c, 255),
                          [out |-> 255, card |-> Moved(c), put |-> TRUE]}
  BY DEF Storing, Moved
<1>2. Storing(c, in).card \in {Waiting(c), Counted(c), c, Moved(c)} /\ Storing(c, in).out \in {5, 255}
  BY <1>1 DEF Shown
<1>3. \A d \in {Waiting(c), Counted(c), c, Moved(c)} :
        d \in CardType /\ d.present = c.present /\ d.enable = c.enable /\ d.status # "none"
  BY CountedIs, MovedIs, WaitingIs
<1>4. QED
  BY <1>2, <1>3 DEF Shows

\* The answer to a command is shown.
LEMMA RepliedIs ==
  ASSUME NEW c \in CardType, NEW next \in Statuses, next # "none"
  PROVE  /\ Shows(Replied(c, next), c) /\ ~Replied(c, next).put /\ Replied(c, next).out = c.response
         /\ Replied(c, next).card.status = next /\ Replied(c, next).card.count = 0
         /\ Replied(c, next).card.pos = c.pos /\ Replied(c, next).card.len = c.len
<1> DEFINE d == [c EXCEPT !.status = next, !.count = 0]
<1>1. 0 \in Nat
  OBVIOUS
<1>2. d \in CardType
  BY <1>1 DEF CardType
<1>a. d.present = c.present /\ d.enable = c.enable /\ d.status = next /\ d.count = 0
      /\ d.pos = c.pos /\ d.len = c.len
  BY DEF CardType
<1>b. c.response \in Int
  BY DEF CardType
<1> HIDE DEF d
<1>3. Replied(c, next) = Shown(d, c.response)
  BY DEF Replied, d
<1>4. QED
  BY <1>2, <1>a, <1>b, <1>3, ShownIs, NoPut, ShownOut

\* Only a card that stores puts a byte into the image.
LEMMA TransferTyped ==
  ASSUME NEW c \in CardType, c.status # "none", NEW in \in Nat, image \in Bytes
  PROVE  Shows(Transfer(c, in), c) /\ (Transfer(c, in).put => c.status = "S_WRITE")
<1>1. CASE c.status = "IDLE"
  <2> DEFINE d == [c EXCEPT !.frame = <<>>]
             e == IF IsCommand(in) THEN Framed(d, in) ELSE c
  <2>1. Transfer(c, in) = Shown(e, 255)
    BY <1>1 DEF Transfer
  <2>2. d \in CardType /\ d.present = c.present /\ d.enable = c.enable
    BY Empty DEF CardType
  <2> HIDE DEF d
  <2>3. e \in CardType /\ e.present = c.present /\ e.enable = c.enable /\ e.status # "none"
    BY <2>2, FramedTyped
  <2> HIDE DEF e
  <2>4. QED
    BY <2>1, <2>3, ShownIs, NoPut
<1>2. CASE c.status = "COMMAND"
  <2>1. Transfer(c, in) = Shown(Framed(c, in), 255)
    BY <1>2 DEF Transfer
  <2>2. QED
    BY <2>1, FramedTyped, ShownIs, NoPut
<1>3. CASE c.status \in {"RESPONSE", "S_READ_RESPONSE", "M_READ_RESPONSE", "S_WRITE_RESPONSE"}
  <2>1. PICK s \in {"IDLE", "S_READ", "M_READ", "S_WRITE"} : Transfer(c, in) = Replied(c, s)
    BY <1>3 DEF Transfer
  <2>2. s \in Statuses /\ s # "none"
    BY DEF Statuses
  <2>3. QED
    BY <2>1, <2>2, RepliedIs
<1>4. CASE c.status = "S_READ"
  <2>1. Transfer(c, in) = Reading(c, Waiting(c))
    BY <1>4 DEF Transfer
  <2>2. PICK d \in CardType : d = Waiting(c) /\ d.present = c.present /\ d.enable = c.enable /\ d.status # "none"
    BY WaitingIs
  <2>3. Shows(Reading(c, d), c) /\ ~Reading(c, d).put
    BY <2>2, ReadingTyped
  <2>4. QED
    BY <2>1, <2>2, <2>3
<1>5. CASE c.status = "M_READ"
  <2> DEFINE d == [c EXCEPT !.count = 0]
  <2>1. Transfer(c, in) = IF IsCommand(in) THEN Shown(Waiting(c), 255) ELSE Reading(c, d)
    BY <1>5 DEF Transfer
  <2>2. d \in CardType /\ d.present = c.present /\ d.enable = c.enable /\ d.status # "none"
    <3>1. 0 \in Nat
      OBVIOUS
    <3>2. QED
      BY <1>5, <3>1 DEF CardType
  <2> HIDE DEF d
  <2>3. Shows(Reading(c, d), c) /\ ~Reading(c, d).put
    BY <2>2, ReadingTyped
  <2>4. Shows(Shown(Waiting(c), 255), c) /\ ~Shown(Waiting(c), 255).put
    <3>1. PICK e \in CardType : e = Waiting(c) /\ e.present = c.present /\ e.enable = c.enable /\ e.status # "none"
      BY WaitingIs
    <3>2. Shows(Shown(e, 255), c) /\ ~Shown(e, 255).put
      BY <3>1, ShownIs, NoPut
    <3>3. QED
      BY <3>1, <3>2
  <2>5. QED
    BY <2>1, <2>3, <2>4
<1>6. CASE c.status = "S_WRITE"
  <2>1. Transfer(c, in) = Storing(c, in)
    BY <1>6 DEF Transfer
  <2>2. QED
    BY <1>6, <2>1, StoringTyped
<1>7. QED
  BY <1>1, <1>2, <1>3, <1>4, <1>5, <1>6 DEF CardType, Statuses

\* d is the card c, but for the state of the exchange.
Keeps(d, c) == d.len = c.len /\ d.pos = c.pos

\* The bytes of a frame.
LEMMA FrameIs ==
  ASSUME NEW cmd \in Nat, NEW arg \in Nat
  PROVE  /\ Frame(cmd, arg) \in Seq(Nat) /\ Len(Frame(cmd, arg)) = 6
         /\ Frame(cmd, arg)[1] = cmd /\ Frame(cmd, arg)[5] = arg
         /\ \A k \in 1 .. 6 : Frame(cmd, arg)[k] \in Nat
BY DEF Frame

\* A card without a command shows 0xff and waits.
LEMMA IdleWaits ==
  ASSUME NEW c \in CardType, c.status = "IDLE"
  PROVE  Transfer(c, 255) = Shown(c, 255)
BY DEF Transfer, IsCommand

\* A frame that is not complete yet is put by.
LEMMA FramedShort ==
  ASSUME NEW c \in CardType, NEW in \in Nat, Len(c.frame) < 5
  PROVE  /\ Framed(c, in).status = "COMMAND" /\ Framed(c, in).frame = Append(c.frame, in)
         /\ Keeps(Framed(c, in), c)
<1> DEFINE f == Append(c.frame, in)
           d == [c EXCEPT !.status = "COMMAND", !.frame = <<>>]
<1>1. Len(f) < 6
  BY DEF CardType
<1>2. d \in CardType /\ d.status = "COMMAND" /\ Keeps(d, c)
  BY Empty DEF CardType, Statuses, Keeps
<1> HIDE DEF f
<1>3. Framed(c, in) = [d EXCEPT !.frame = f]
  BY <1>1 DEF Framed, f
<1> HIDE DEF d
<1>4. QED
  BY <1>2, <1>3 DEF Keeps, f, CardType

\* The first byte of a frame.
LEMMA IdleTakes ==
  ASSUME NEW c \in CardType, c.status = "IDLE", NEW in \in Nat, IsCommand(in)
  PROVE  LET r == Transfer(c, in)
         IN /\ ~r.put /\ r.card.status = "COMMAND" /\ Keeps(r.card, c)
            /\ Len(r.card.frame) = 1 /\ r.card.frame[1] = in
<1> DEFINE d == [c EXCEPT !.frame = <<>>]
<1>1. Transfer(c, in) = Shown(Framed(d, in), 255)
  BY DEF Transfer
<1>2. d \in CardType /\ d.frame = <<>> /\ Keeps(d, c)
  BY Empty DEF CardType, Keeps
<1> HIDE DEF d
<1>3. /\ Framed(d, in).status = "COMMAND" /\ Framed(d, in).frame = Append(<<>>, in)
      /\ Keeps(Framed(d, in), d)
  <2>1. Len(d.frame) < 5
    BY <1>2
  <2>2. QED
    BY <1>2, <2>1, FramedShort
<1>4. \A s : s = Append(<<>>, in) => Len(s) = 1 /\ s[1] = in
  OBVIOUS
<1>5. Keeps(Framed(d, in), c)
  BY <1>2, <1>3 DEF Keeps
<1>6. PICK e : e = Framed(d, in)
  OBVIOUS
<1>7. Len(e.frame) = 1 /\ e.frame[1] = in
  BY <1>3, <1>4, <1>6
<1>8. QED
  BY <1>1, <1>3, <1>5, <1>6, <1>7, ShownOut, NoPut

\* The bytes after it, but the last.
LEMMA CommandTakes ==
  ASSUME NEW c \in CardType, c.status = "COMMAND", NEW in \in Nat, Len(c.frame) < 5
  PROVE  LET r == Transfer(c, in)
         IN /\ ~r.put /\ r.card.status = "COMMAND" /\ Keeps(r.card, c)
            /\ r.card.frame = Append(c.frame, in)
<1>1. Transfer(c, in) = Shown(Framed(c, in), 255)
  BY DEF Transfer
<1>2. QED
  BY <1>1, FramedShort, ShownOut, NoPut

\* The sixth byte completes the frame.
LEMMA CommandParsed ==
  ASSUME NEW c \in CardType, c.status = "COMMAND", NEW in \in Nat, Len(c.frame) = 5,
         c.frame[1] \in {GoIdle, SendOpCond, SetBlockLen, ReadSingle, WriteBlock}
  PROVE  LET r == Transfer(c, in)
         IN /\ ~r.put
            /\ c.frame[1] = GoIdle => r.card.status = "RESPONSE" /\ r.card.response = 1
            /\ c.frame[1] \in {SendOpCond, SetBlockLen} => r.card.status = "RESPONSE" /\ r.card.response = 0
            /\ r.card.len = IF c.frame[1] = SetBlockLen THEN c.frame[5] ELSE c.len
            /\ c.frame[1] = ReadSingle =>
                 r.card.status = "S_READ_RESPONSE" /\ r.card.response = 0 /\ r.card.pos = c.frame[5]
            /\ c.frame[1] = WriteBlock =>
                 r.card.status = "S_WRITE_RESPONSE" /\ r.card.response = 0 /\ r.card.pos = c.frame[5]
<1> DEFINE f == Append(c.frame, in)
           d == [c EXCEPT !.status = "COMMAND", !.frame = <<>>]
<1>1. Len(f) = 6 /\ f[1] = c.frame[1] /\ f[5] = c.frame[5]
  <2>1. PICK s \in Seq(Nat) : s = c.frame
    BY DEF CardType
  <2>2. Len(Append(s, in)) = Len(s) + 1 /\ \A k \in 1 .. Len(s) : Append(s, in)[k] = s[k]
    OBVIOUS
  <2>3. Len(s) = 5 /\ 1 \in 1 .. 5 /\ 5 \in 1 .. 5
    BY <2>1
  <2>4. QED
    BY <2>1, <2>2, <2>3
<1>2. d \in CardType /\ d.len = c.len
  BY Empty DEF CardType, Statuses
<1>3. Transfer(c, in) = Shown(Framed(c, in), 255)
  BY DEF Transfer
<1> HIDE DEF f
<1>4. Framed(c, in) = Parsed(d, f)
  BY <1>1 DEF Framed, f
<1> HIDE DEF d
<1>5. c.frame[1] = GoIdle => Parsed(d, f).status = "RESPONSE" /\ Parsed(d, f).response = 1
                             /\ Parsed(d, f).len = c.len
  <2>1. c.frame[1] = GoIdle => Parsed(d, f) = [d EXCEPT !.response = 1, !.status = "RESPONSE"]
    BY <1>1 DEF Parsed, GoIdle, SendOpCond, StopTransmission, SetBlockLen, ReadSingle,
             ReadMultiple, WriteBlock
  <2>2. QED
    BY <1>2, <2>1 DEF CardType
<1>6. c.frame[1] = SendOpCond => Parsed(d, f).status = "RESPONSE" /\ Parsed(d, f).response = 0
                                 /\ Parsed(d, f).len = c.len
  <2>1. c.frame[1] = SendOpCond => Parsed(d, f) = [d EXCEPT !.response = 0, !.status = "RESPONSE"]
    BY <1>1 DEF Parsed, GoIdle, SendOpCond, StopTransmission, SetBlockLen, ReadSingle,
             ReadMultiple, WriteBlock
  <2>2. QED
    BY <1>2, <2>1 DEF CardType
<1>7. c.frame[1] = SetBlockLen => Parsed(d, f).status = "RESPONSE" /\ Parsed(d, f).response = 0
                                  /\ Parsed(d, f).len = c.frame[5]
  <2> DEFINE a == [d EXCEPT !.response = 0, !.status = "RESPONSE"]
  <2>1. a \in CardType /\ a.response = 0 /\ a.status = "RESPONSE"
    BY <1>2 DEF CardType, Statuses
  <2>2. c.frame[1] = SetBlockLen => Parsed(d, f) = [a EXCEPT !.len = f[5]]
    BY <1>1 DEF Parsed, GoIdle, SendOpCond, StopTransmission, SetBlockLen, ReadSingle,
             ReadMultiple, WriteBlock
  <2> HIDE DEF a
  <2>3. QED
    BY <1>1, <2>1, <2>2 DEF CardType
<1>8. c.frame[1] = ReadSingle =>
        /\ Parsed(d, f).status = "S_READ_RESPONSE" /\ Parsed(d, f).response = 0
        /\ Parsed(d, f).pos = c.frame[5] /\ Parsed(d, f).len = c.len
  <2>1. c.frame[1] = ReadSingle =>
          Parsed(d, f) = [d EXCEPT !.pos = f[5], !.response = 0, !.status = "S_READ_RESPONSE"]
    BY <1>1 DEF Parsed, GoIdle, SendOpCond, StopTransmission, SetBlockLen, ReadSingle,
             ReadMultiple, WriteBlock
  <2>2. QED
    BY <1>1, <1>2, <2>1 DEF CardType
<1>9. c.frame[1] = WriteBlock =>
        /\ Parsed(d, f).status = "S_WRITE_RESPONSE" /\ Parsed(d, f).response = 0
        /\ Parsed(d, f).pos = c.frame[5] /\ Parsed(d, f).len = c.len
  <2>1. c.frame[1] = WriteBlock =>
          Parsed(d, f) = [d EXCEPT !.pos = f[5], !.response = 0, !.status = "S_WRITE_RESPONSE"]
    BY <1>1 DEF Parsed, GoIdle, SendOpCond, StopTransmission, SetBlockLen, ReadSingle,
             ReadMultiple, WriteBlock
  <2>2. QED
    BY <1>1, <1>2, <2>1 DEF CardType
<1>10. QED
  BY <1>3, <1>4, <1>5, <1>6, <1>7, <1>8, <1>9, ShownOut, NoPut
       DEF GoIdle, SendOpCond, SetBlockLen, ReadSingle, WriteBlock

\* A block is read: the token, the bytes, two bytes of CRC.
LEMMA ReadToken ==
  ASSUME NEW c \in CardType, c.status = "S_READ", c.count = 0, NEW in \in Nat
  PROVE  LET r == Transfer(c, in)
         IN ~r.put /\ r.out = 254 /\ r.card.status = "S_READ" /\ r.card.count = 1 /\ Keeps(r.card, c)
<1>1. Transfer(c, in) = Shown(Counted(c), 254)
  BY DEF Transfer, Reading, CardType
<1>2. QED
  BY <1>1, ShownOut, NoPut, CountedIs DEF Keeps

\* A byte of the block.
LEMMA ReadByte ==
  ASSUME NEW c \in CardType, c.status = "S_READ", c.count \in 1 .. c.len, NEW in \in Nat
  PROVE  LET r == Transfer(c, in)
         IN /\ ~r.put /\ r.out = Byte(c.pos) /\ r.card.status = "S_READ" /\ r.card.count = c.count + 1
            /\ r.card.len = c.len /\ r.card.pos = c.pos + 1
<1>1. Transfer(c, in) = Shown(Moved(c), Byte(c.pos))
  BY DEF Transfer, Reading, Moved, CardType
<1>2. QED
  BY <1>1, ShownOut, NoPut, MovedIs

\* Two bytes that stand for a CRC.
LEMMA ReadCrc ==
  ASSUME NEW c \in CardType, c.status = "S_READ", c.count \in c.len + 1 .. c.len + 2, NEW in \in Nat
  PROVE  LET r == Transfer(c, in)
         IN ~r.put /\ r.card.status = "S_READ" /\ r.card.count = c.count + 1 /\ Keeps(r.card, c)
<1>1. Transfer(c, in) = Shown(Counted(c), 255)
  BY DEF Transfer, Reading, CardType
<1>2. QED
  BY <1>1, ShownOut, NoPut, CountedIs DEF Keeps

\* A block is written: a gap, the token, the bytes, two bytes of CRC, the answer.
LEMMA WriteGap ==
  ASSUME NEW c \in CardType, c.status = "S_WRITE", NEW in \in Nat, c.count = 0 \/ (c.count = 1 /\ in = 254),
         c.len \in Nat \ {0}
  PROVE  LET r == Transfer(c, in)
         IN ~r.put /\ r.card.status = "S_WRITE" /\ r.card.count = c.count + 1 /\ Keeps(r.card, c)
<1>1. Transfer(c, in) = Shown(Counted(c), 255)
  BY DEF Transfer, Storing, CardType
<1>2. QED
  BY <1>1, ShownOut, NoPut, CountedIs DEF Keeps

\* A byte of the block.
LEMMA WriteByte ==
  ASSUME NEW c \in CardType, c.status = "S_WRITE", c.count \in 2 .. c.len + 1, NEW in \in Nat
  PROVE  LET r == Transfer(c, in)
         IN /\ r.put /\ r.card.status = "S_WRITE" /\ r.card.count = c.count + 1
            /\ r.card.len = c.len /\ r.card.pos = c.pos + 1
<1>1. Transfer(c, in) = [out |-> 255, card |-> Moved(c), put |-> TRUE]
  BY DEF Transfer, Storing, Moved, CardType
<1>2. QED
  BY <1>1, MovedIs

\* Two bytes that stand for a CRC.
LEMMA WriteCrc ==
  ASSUME NEW c \in CardType, c.status = "S_WRITE", c.count \in c.len + 2 .. c.len + 3, NEW in \in Nat
  PROVE  LET r == Transfer(c, in)
         IN ~r.put /\ r.card.status = "S_WRITE" /\ r.card.count = c.count + 1 /\ Keeps(r.card, c)
<1>1. Transfer(c, in) = Shown(Counted(c), 255)
  BY DEF Transfer, Storing, CardType
<1>2. QED
  BY <1>1, ShownOut, NoPut, CountedIs DEF Keeps

\* The block is accepted.
LEMMA WriteAccept ==
  ASSUME NEW c \in CardType, c.status = "S_WRITE", c.count = c.len + 4, NEW in \in Nat
  PROVE  ~Transfer(c, in).put /\ Transfer(c, in).out = 5 /\ Transfer(c, in).card.len = c.len
<1>1. Transfer(c, in) = Shown(Waiting(c), 5)
  BY DEF Transfer, Storing, CardType
<1>2. QED
  BY <1>1, ShownOut, NoPut, WaitingIs

\* An answer is given once.
LEMMA AnswerGiven ==
  ASSUME NEW c \in CardType, NEW in \in Nat,
         c.status \in {"RESPONSE", "S_READ_RESPONSE", "S_WRITE_RESPONSE"}
  PROVE  LET r == Transfer(c, in)
         IN /\ ~r.put /\ r.out = c.response /\ r.card.count = 0 /\ Keeps(r.card, c)
            /\ c.status = "RESPONSE" => r.card.status = "IDLE"
            /\ c.status = "S_READ_RESPONSE" => r.card.status = "S_READ"
            /\ c.status = "S_WRITE_RESPONSE" => r.card.status = "S_WRITE"
<1>1. PICK s \in {"IDLE", "S_READ", "S_WRITE"} :
        /\ Transfer(c, in) = Replied(c, s)
        /\ c.status = "RESPONSE" => s = "IDLE"
        /\ c.status = "S_READ_RESPONSE" => s = "S_READ"
        /\ c.status = "S_WRITE_RESPONSE" => s = "S_WRITE"
  BY DEF Transfer
<1>2. s \in Statuses /\ s # "none"
  BY DEF Statuses
<1>3. QED
  BY <1>1, <1>2, RepliedIs DEF Keeps
----------------------------------------------------------------------------
(* One byte between driver and card. *)

LEMMA ExchangeTyped ==
  ASSUME SdTyped, NEW in \in Nat
  PROVE  LET r == Exchange(in)
         IN /\ r.out \in Int /\ r.card \in CardType
            /\ r.card.present = card.present /\ r.card.enable = card.enable
            /\ card.present => r.card.status # "none"
            /\ r.put => card.present /\ card.enable /\ card.status = "S_WRITE"
<1>1. CASE card.present /\ card.enable
  <2>1. Exchange(in) = Transfer(card, in)
    BY <1>1 DEF Exchange
  <2>2. Shows(Transfer(card, in), card) /\ (Transfer(card, in).put => card.status = "S_WRITE")
    BY <1>1, TransferTyped DEF SdTyped
  <2>3. QED
    BY <1>1, <2>1, <2>2 DEF Shows
<1>2. CASE ~(card.present /\ card.enable)
  <2>1. Exchange(in) = Shown(card, 255)
    BY <1>2 DEF Exchange
  <2>2. QED
    BY <2>1, ShownOut, NoPut DEF SdTyped
<1>3. QED
  BY <1>1, <1>2

\* The line idles while there is no card.
LEMMA NoCard ==
  ASSUME SdTyped, ~card.present, NEW in
  PROVE  Exchange(in).out = 255 /\ Exchange(in).card = card /\ ~Exchange(in).put
<1>1. Exchange(in) = Shown(card, 255)
  BY DEF Exchange
<1>2. QED
  BY <1>1, ShownOut, NoPut

----------------------------------------------------------------------------
(* The blocks in the image. *)

LEMMA BlockIsThere ==
  ASSUME NEW blk \in 0 .. NumBlocks - 1
  PROVE  /\ Size \in Nat /\ blk * BlockLen \in Nat
         /\ blk * BlockLen + BlockLen <= Size
<1>1. PICK a \in Nat, b \in Nat : a = NumBlocks /\ b = BlockLen
  OBVIOUS
<1>2. \A x \in 0 .. a - 1 : x * b \in Nat /\ x * b + b = (x + 1) * b /\ (x + 1) * b <= b * a
  OBVIOUS
<1>3. b * a \in Nat
  OBVIOUS
<1>4. blk \in 0 .. a - 1
  BY <1>1
<1>5. QED
  BY <1>1, <1>2, <1>3, <1>4 DEF Size

\* An image before the first byte.
LEMMA FilledNone ==
  ASSUME NEW before \in Bytes, NEW a \in Nat, NEW data
  PROVE  Filled(before, a, data, 0) = before
<1>2. \A k \in 0 .. Size - 1 : ~(k \in a .. a + BlockLen - 1 /\ k < a + 0)
  OBVIOUS
<1>3. QED
  BY <1>2 DEF Filled, Bytes

\* One byte more is written over.
LEMMA FilledNext ==
  ASSUME NEW before \in Bytes, NEW a \in Nat, NEW data, NEW i \in 1 .. BlockLen,
         a + BlockLen <= Size,
         NEW x, x = data[i], NEW at \in Nat, at = a + (i - 1), NEW im, im = Filled(before, a, data, i - 1),
         NEW new, new = [im EXCEPT ![at] = x]
  PROVE  new = Filled(before, a, data, i)
<1> DEFINE f == Filled(before, a, data, i - 1)
           g == Filled(before, a, data, i)
           h == [f EXCEPT ![a + (i - 1)] = data[i]]
<1>2. Size \in Nat /\ a + BlockLen <= Size
  BY DEF Size
<1>3. /\ f = [k \in 0 .. Size - 1 |->
                IF k \in a .. a + BlockLen - 1 /\ k < a + (i - 1) THEN data[k - a + 1] ELSE before[k]]
      /\ g = [k \in 0 .. Size - 1 |->
                IF k \in a .. a + BlockLen - 1 /\ k < a + i THEN data[k - a + 1] ELSE before[k]]
  BY DEF Filled
<1>4. \A k \in 0 .. Size - 1 : h[k] = g[k]
  <2> TAKE k \in 0 .. Size - 1
  <2>1. CASE k = a + (i - 1)
    <3>1. k - a + 1 = i /\ k \in a .. a + BlockLen - 1 /\ k < a + i
      BY <2>1
    <3>2. g[k] = data[i]
      BY <1>3, <3>1
    <3>3. h[k] = data[i]
      BY <1>3, <2>1
    <3>4. QED
      BY <3>2, <3>3
  <2>2. CASE k # a + (i - 1)
    <3>1. k < a + (i - 1) <=> k < a + i
      BY <1>2, <2>2
    <3>2. h[k] = f[k]
      BY <1>3, <2>2
    <3>3. QED
      BY <1>3, <3>1, <3>2
  <2>3. QED
    BY <2>1, <2>2
<1>5. DOMAIN h = 0 .. Size - 1 /\ DOMAIN g = 0 .. Size - 1 /\ h = [k \in DOMAIN h |-> h[k]]
      /\ g = [k \in DOMAIN g |-> g[k]]
  BY <1>3
<1> HIDE DEF f, g, h
<1>6. h = g
  BY <1>4, <1>5
<1>7. QED
  BY <1>6 DEF f, g, h

\* A block before the first look.
LEMMA SeenNone ==
  ASSUME NEW im, NEW a
  PROVE  Seen(im, a, 0, 0) = <<>>
BY DEF Seen

\* A look at a line that idles, and a look that gets the next byte.
LEMMA SeenIdle ==
  ASSUME NEW im, NEW a \in Nat, NEW m \in Nat, NEW n \in 0 .. m, NEW got \in Seq(Int),
         Len(got) = m, got = Seen(im, a, n, m)
  PROVE  Append(got, 255) = Seen(im, a, n, m + 1)
<1> DEFINE h == Append(got, 255)
           g == Seen(im, a, n, m + 1)
<1>1. h \in Seq(Int) /\ Len(h) = m + 1 /\ h[m + 1] = 255 /\ \A j \in 1 .. m : h[j] = got[j]
  OBVIOUS
<1>2. g = [j \in 1 .. m + 1 |-> IF j <= n THEN im[a + j - 1] ELSE 255]
  BY DEF Seen
<1>3. \A j \in 1 .. m : got[j] = IF j <= n THEN im[a + j - 1] ELSE 255
  BY DEF Seen
<1> HIDE DEF h, g
<1>4. \A j \in 1 .. m + 1 : h[j] = IF j <= n THEN im[a + j - 1] ELSE 255
  <2> TAKE j \in 1 .. m + 1
  <2>1. CASE j = m + 1
    <3>1. ~(j <= n) /\ h[j] = 255
      BY <1>1, <2>1
    <3>2. QED
      BY <3>1, Zenon
  <2>2. CASE j # m + 1
    <3>1. j \in 1 .. m
      BY <2>2
    <3>2. h[j] = got[j]
      BY <1>1, <3>1
    <3>3. got[j] = IF j <= n THEN im[a + j - 1] ELSE 255
      BY <1>3, <3>1, Zenon
    <3>4. QED
      BY <3>2, <3>3
  <2>3. QED
    BY <2>1, <2>2
<1>5. h = [j \in 1 .. m + 1 |-> h[j]]
  BY <1>1
<1>6. h = g
  BY <1>2, <1>4, <1>5
<1>7. QED
  BY <1>6 DEF h, g

\* One byte more is read from a card that is there.
LEMMA SeenByte ==
  ASSUME NEW im, NEW a \in Nat, NEW n \in Nat, NEW got \in Seq(Int), NEW k \in Nat, k = a + n, NEW x \in Int,
         Len(got) = n, got = Seen(im, a, n, n), im[k] = x
  PROVE  Append(got, x) = Seen(im, a, n + 1, n + 1)
<1> DEFINE h == Append(got, x)
           g == Seen(im, a, n + 1, n + 1)
<1>1. h \in Seq(Int) /\ Len(h) = n + 1 /\ h[n + 1] = x /\ \A j \in 1 .. n : h[j] = got[j]
  OBVIOUS
<1>2. g = [j \in 1 .. n + 1 |-> IF j <= n + 1 THEN im[a + j - 1] ELSE 255]
  BY DEF Seen
<1>3. \A j \in 1 .. n : got[j] = im[a + j - 1]
  BY DEF Seen
<1> HIDE DEF h, g
<1>4. \A j \in 1 .. n + 1 : h[j] = IF j <= n + 1 THEN im[a + j - 1] ELSE 255
  <2> TAKE j \in 1 .. n + 1
  <2>1. CASE j = n + 1
    <3>1. a + (n + 1) - 1 = k /\ j <= n + 1
      BY <2>1
    <3>2. QED
      BY <1>1, <2>1, <3>1
  <2>2. CASE j # n + 1
    <3>1. j \in 1 .. n /\ j <= n + 1
      BY <2>2
    <3>2. QED
      BY <1>1, <1>3, <3>1, Zenon
  <2>3. QED
    BY <2>1, <2>2
<1>5. h = [j \in 1 .. n + 1 |-> h[j]]
  BY <1>1
<1>6. h = g
  BY <1>2, <1>4, <1>5
<1>7. QED
  BY <1>6 DEF h, g

----------------------------------------------------------------------------
(* The driver. *)

\* What no step of a call changes: the call and its history.
Stays(d, c) ==
  /\ d.op = c.op /\ d.blk = c.blk /\ d.data = c.data /\ d.swap = c.swap /\ d.upset = c.upset
  /\ d.before = c.before /\ d.calls = c.calls

\* A call keeps its block.
LEMMA AddressStays == Stays(drv', drv) => CardAddress' = CardAddress
BY DEF Stays, CardAddress

\* The block lies in the image.
LEMMA AddressIs ==
  ASSUME SdTyped
  PROVE  CardAddress \in Nat /\ CardAddress + BlockLen <= Size /\ Size \in Nat
<1>1. drv.blk \in 0 .. NumBlocks - 1
  BY DEF SdTyped, DrvType
<1>2. PICK a \in Nat : a = drv.blk * BlockLen /\ a + BlockLen <= Size /\ Size \in Nat
  BY <1>1, BlockIsThere
<1>3. QED
  BY <1>2 DEF CardAddress

\* The operators that move the driver on, and what they leave alone.
LEMMA PcIs ==
  ASSUME NEW d \in DrvType, NEW p \in Running \cup {"idle", "start", "stop"}
  PROVE  LET r == [d EXCEPT !.pc = p]
         IN /\ r \in DrvType /\ Stays(r, d) /\ r.pc = p /\ r.frame = d.frame /\ r.i = d.i /\ r.e = d.e /\ r.b = d.b
            /\ r.got = d.got /\ r.ready = d.ready /\ r.result = d.result
BY DEF DrvType, Stays

LEMMA PcIIs ==
  ASSUME NEW d \in DrvType, NEW p \in Running \cup {"idle", "start", "stop"}, NEW i \in Nat
  PROVE  LET r == [d EXCEPT !.pc = p, !.i = i]
         IN /\ r \in DrvType /\ Stays(r, d) /\ r.pc = p /\ r.frame = d.frame /\ r.i = i /\ r.e = d.e /\ r.b = d.b
            /\ r.got = d.got /\ r.ready = d.ready /\ r.result = d.result
BY DEF DrvType, Stays

LEMMA CommandIs ==
  ASSUME NEW d \in DrvType, NEW cmd \in Nat, NEW arg \in Nat
  PROVE  LET r == Command(d, cmd, arg)
         IN /\ r \in DrvType /\ Stays(r, d) /\ r.pc = "busy" /\ r.frame = Frame(cmd, arg) /\ r.i = 1
            /\ r.e = d.e /\ r.b = d.b /\ r.got = d.got /\ r.ready = d.ready /\ r.result = d.result
<1>1. PICK f \in Seq(Nat) : f = Frame(cmd, arg)
  BY FrameIs
<1>2. Command(d, cmd, arg) = [d EXCEPT !.pc = "busy", !.frame = f, !.i = 1]
  BY <1>1 DEF Command, Frame
<1>3. "busy" \in Running \cup {"idle", "start", "stop"} /\ 1 \in Nat
  BY DEF Running
<1>4. QED
  BY <1>1, <1>2, <1>3 DEF DrvType, Stays

LEMMA AwaitIs ==
  ASSUME NEW d \in DrvType, NEW e \in Nat, NEW n \in Nat
  PROVE  LET r == Await(d, e, n)
         IN /\ r \in DrvType /\ Stays(r, d) /\ r.pc = "resp" /\ r.frame = d.frame /\ r.i = d.i /\ r.e = e /\ r.b = n
            /\ r.got = d.got /\ r.ready = d.ready /\ r.result = d.result
<1>1. "resp" \in Running \cup {"idle", "start", "stop"}
  BY DEF Running
<1>2. QED
  BY <1>1 DEF Await, DrvType, Stays

LEMMA DoneIs ==
  ASSUME NEW d \in DrvType, NEW result \in {"ok", "error"}
  PROVE  LET r == Done(d, result)
         IN /\ r \in DrvType /\ Stays(r, d) /\ r.pc = "stop" /\ r.frame = d.frame /\ r.i = d.i /\ r.e = d.e /\ r.b = d.b
            /\ r.got = d.got /\ r.ready = d.ready /\ r.result = result
BY DEF Done, DrvType, Stays

LEMMA ForgetIs ==
  ASSUME NEW d \in DrvType
  PROVE  LET r == Forget(d)
         IN /\ r \in DrvType /\ Stays(r, d) /\ r.pc = d.pc /\ r.got = d.got /\ r.ready = d.ready /\ r.result = d.result
<1>1. 0 \in Nat /\ <<>> \in Seq(Nat)
  OBVIOUS
<1>2. QED
  BY <1>1 DEF Forget, DrvType, Stays

\* What a byte does to card and image.
Shifted(in) ==
  /\ card' = Exchange(in).card
  /\ image' = IF Exchange(in).put /\ card.pos < Size THEN [image EXCEPT ![card.pos] = in] ELSE image

\* What one shifted byte may change: with no card there, nothing.
LEMMA ShiftedIs ==
  ASSUME SdTyped, NEW in \in Nat, Shifted(in)
  PROVE  /\ Exchange(in).out \in Int
         /\ card' \in CardType /\ (card'.present => card'.status # "none") /\ image' \in Bytes
         /\ card'.present = card.present /\ card'.enable = card.enable
         /\ ~card.present => card' = card /\ image' = image /\ Exchange(in).out = 255
         /\ card.status # "S_WRITE" => image' = image
         /\ card.present /\ card.enable => Exchange(in) = Transfer(card, in)
<1>1. LET r == Exchange(in)
      IN /\ r.out \in Int /\ r.card \in CardType
         /\ r.card.present = card.present /\ r.card.enable = card.enable
         /\ card.present => r.card.status # "none"
         /\ r.put => card.present /\ card.enable /\ card.status = "S_WRITE"
  BY ExchangeTyped
<1>2. ~card.present => Exchange(in).out = 255 /\ Exchange(in).card = card /\ ~Exchange(in).put
  BY NoCard
<1>3. image' \in Bytes
  <2>1. card.pos \in Nat /\ Size \in Nat /\ image \in [0 .. Size - 1 -> Int]
    BY DEF SdTyped, CardType, Size, Bytes
  <2>2. QED
    BY <2>1 DEF Shifted, Bytes
<1>4. card.present /\ card.enable => Exchange(in) = Transfer(card, in)
  BY DEF Exchange
<1> HIDE DEF Shifted
<1>5. QED
  BY <1>1, <1>2, <1>3, <1>4 DEF Shifted

\* A step that leaves the image alone leaves what was written of a block alone.
LEMMA WriteStays ==
  ASSUME WriteKept, image' = image, Stays(drv', drv), card'.present => card.present,
         drv'.pc \notin {"start", "put", "accept"}, drv'.result = "ok" => drv.result = "ok",
         drv'.pc \in Running => drv.pc \in (Running \cup {"start"}) \ {"put", "accept"}
  PROVE  WriteKept'
<1>1. SUFFICES ASSUME drv.op = "write", ~drv.upset
               PROVE  WriteKept'
  BY DEF WriteKept, Stays
<1>2. PICK n \in 0 .. BlockLen :
        /\ image = Filled(drv.before, CardAddress, drv.data, n)
        /\ drv.result = "ok" => n = BlockLen
        /\ drv.pc = "start" \/ (card.present /\ drv.pc \in Running \ {"put", "accept"}) => n = 0
  BY <1>1 DEF WriteKept
<1>3. image' = Filled(drv'.before, CardAddress', drv'.data, n)
  BY <1>2, AddressStays DEF Stays
<1>4. drv'.result = "ok" => n = BlockLen
  BY <1>2
<1>5. card'.present /\ drv'.pc \in Running \ {"put", "accept"} => n = 0
  BY <1>2
<1>6. QED
  BY <1>3, <1>4, <1>5 DEF WriteKept

\* A step that reads nothing leaves what was read alone.
LEMMA ReadStays ==
  ASSUME ReadKept, image' = image, Stays(drv', drv), drv'.got = drv.got, card'.present = card.present,
         drv'.pc \notin {"data", "crc"}, drv'.result = drv.result
  PROVE  ReadKept'
<1>1. SUFFICES ASSUME drv.op = "read", ~drv.upset
               PROVE  ReadKept'
  BY DEF ReadKept, Stays
<1>2. PICK n \in 0 .. Len(drv.got) :
         /\ drv.got = Seen(image, CardAddress, n, Len(drv.got))
         /\ drv.swap = "no" => n = Len(drv.got)
  BY <1>1 DEF ReadKept
<1>3. drv'.got = Seen(image', CardAddress', n, Len(drv'.got)) /\ n \in 0 .. Len(drv'.got)
  BY <1>2, AddressStays
<1>4. drv'.swap = "no" => n = Len(drv'.got)
  BY <1>2 DEF Stays
<1>5. QED
  BY <1>1, <1>3, <1>4 DEF ReadKept, Stays

----------------------------------------------------------------------------
(* Every step keeps the invariant. *)

LEMMA StartStep == IInv /\ Start => IInv'
<1> SUFFICES ASSUME IInv, Start
             PROVE  IInv'
  OBVIOUS
<1> DEFINE cmd == CASE drv.op = "init" -> GoIdle [] drv.op = "read" -> ReadSingle [] drv.op = "write" -> WriteBlock
           c == IF drv.op = "init" THEN Disabled(card) ELSE card
<1>1. drv.pc = "start" /\ card' = Enabled(c) /\ drv' = Command(drv, cmd, CardAddress) /\ image' = image
  BY DEF Start
<1>2. SdTyped /\ drv \in DrvType /\ card \in CardType /\ drv.op \in {"init", "read", "write"} /\ OnCourse
      /\ drv.blk \in 0 .. NumBlocks - 1
  BY DEF IInv, SdTyped, DrvType
<1>3. cmd \in Nat /\ CardAddress \in Nat
  BY <1>2, BlockIsThere DEF CardAddress, GoIdle, ReadSingle, WriteBlock
<1>4. /\ drv' \in DrvType /\ Stays(drv', drv) /\ drv'.pc = "busy" /\ drv'.frame = Frame(cmd, CardAddress)
      /\ drv'.i = 1 /\ drv'.got = drv.got /\ drv'.ready = drv.ready /\ drv'.result = drv.result
  <2> HIDE DEF cmd
  <2>1. PICK m \in Nat, a \in Nat : m = cmd /\ a = CardAddress
    BY <1>3
  <2>2. drv' = Command(drv, m, a)
    BY <1>1, <2>1
  <2>3. LET r == Command(drv, m, a)
        IN /\ r \in DrvType /\ Stays(r, drv) /\ r.pc = "busy" /\ r.frame = Frame(m, a) /\ r.i = 1
           /\ r.e = drv.e /\ r.b = drv.b /\ r.got = drv.got /\ r.ready = drv.ready /\ r.result = drv.result
    BY <1>2, CommandIs
  <2>4. QED
    BY <2>1, <2>2, <2>3, Zenon
<1>5. /\ card' \in CardType /\ card'.present = card.present /\ (card'.present => card'.status # "none")
      /\ card'.len = card.len /\ (card'.present => card'.enable)
      /\ card.present /\ (drv.op = "init" \/ ~card.enable \/ card.status = "IDLE") => card'.status = "IDLE"
  <2>1. c \in CardType /\ c.present = card.present /\ c.len = card.len /\ c.status = card.status
        /\ (card.present => c.enable = (card.enable /\ drv.op # "init"))
    BY <1>2 DEF Disabled, CardType
  <2> HIDE DEF c
  <2>2. "IDLE" \in Statuses
    BY DEF Statuses
  <2>3. Enabled(c) \in CardType /\ Enabled(c).present = c.present /\ Enabled(c).len = c.len
        /\ (c.present => Enabled(c).enable)
        /\ (Enabled(c).status = IF c.present /\ ~c.enable THEN "IDLE" ELSE c.status)
    BY <2>1, <2>2 DEF Enabled, CardType
  <2>4. QED
    BY <1>1, <1>2, <2>1, <2>3 DEF SdTyped
<1> HIDE DEF cmd, c
<1>6. SdTyped'
  BY <1>1, <1>2, <1>4, <1>5 DEF SdTyped
<1>7. OnCourse'
  <2>1. drv.op = "init" => CardAddress = 0
    BY <1>2 DEF OnCourse, CardAddress
  <2>2. CardAddress' = CardAddress
    BY <1>4 DEF Stays, CardAddress
  <2>3. \/ drv.op = "init" /\ drv'.frame = Frame(GoIdle, 0)
        \/ drv.op = "read" /\ drv'.frame = Frame(ReadSingle, CardAddress)
        \/ drv.op = "write" /\ drv'.frame = Frame(WriteBlock, CardAddress)
    BY <1>2, <1>4, <2>1 DEF cmd
  <2>4. QED
    BY <1>1, <1>2, <1>4, <2>2, <2>3 DEF OnCourse, Stays
<1>8. InStep'
  BY <1>1, <1>2, <1>4, <1>5 DEF IInv, InStep, Agreed, OnCourse, Stays, Running
<1>9. WriteKept'
  BY <1>1, <1>2, <1>4, <1>5, WriteStays DEF IInv, OnCourse, Running
<1>10. ReadKept'
  BY <1>1, <1>2, <1>4, <1>5, ReadStays DEF IInv, Running
<1>11. QED
  BY <1>6, <1>7, <1>8, <1>9, <1>10 DEF IInv

\* One look of busyLoop; a card in step lets it end at once.
LEMMA BusyStep == IInv /\ Busy => IInv'
<1> SUFFICES ASSUME IInv, Busy
             PROVE  IInv'
  OBVIOUS
<1>1. /\ drv.pc = "busy" /\ Shifted(255)
      /\ drv' = IF Exchange(255).out = 255 THEN [drv EXCEPT !.pc = "frame"] ELSE drv
  BY DEF Busy, Shift, Shifted
<1>2. SdTyped /\ drv \in DrvType /\ card \in CardType /\ OnCourse /\ 255 \in Nat
  BY DEF IInv, SdTyped
<1>3. /\ card' \in CardType /\ (card'.present => card'.status # "none") /\ image' \in Bytes
      /\ card'.present = card.present /\ card'.enable = card.enable
      /\ ~card.present => card' = card /\ image' = image /\ Exchange(255).out = 255
      /\ card.status # "S_WRITE" => image' = image
      /\ card.present /\ card.enable => Exchange(255) = Transfer(card, 255)
  BY <1>1, <1>2, ShiftedIs
<1>4. /\ drv' \in DrvType /\ Stays(drv', drv) /\ drv'.pc \in {"busy", "frame"} /\ drv'.frame = drv.frame
      /\ drv'.i = drv.i /\ drv'.got = drv.got /\ drv'.ready = drv.ready /\ drv'.result = drv.result
  <2>1. "frame" \in Running \cup {"idle", "start", "stop"}
    BY DEF Running
  <2>2. QED
    BY <1>1, <1>2, <2>1, PcIs DEF Stays
\* A card that is in step shows 0xff at once.
<1>5. ~drv.upset =>
        /\ card' = card /\ image' = image /\ drv'.pc = "frame"
        /\ card.present => card.enable /\ card.status = "IDLE"
  <2>1. SUFFICES ASSUME ~drv.upset, card.present
                 PROVE  card' = card /\ image' = image /\ drv'.pc = "frame" /\ card.enable /\ card.status = "IDLE"
    BY <1>1, <1>2, <1>3, PcIs DEF Running
  <2>2. card.enable /\ card.status = "IDLE"
    BY <1>1, <2>1 DEF IInv, InStep, Agreed, Running
  <2>3. Exchange(255) = Shown(card, 255)
    BY <1>2, <1>3, <2>1, <2>2, IdleWaits
  <2>4. QED
    BY <1>1, <1>2, <1>3, <2>2, <2>3, ShownOut, PcIs DEF Shifted, Running
<1>6. SdTyped'
  BY <1>3, <1>4 DEF SdTyped
<1>7. OnCourse'
  <2>1. CardAddress' = CardAddress
    BY <1>4 DEF Stays, CardAddress
  <2>2. QED
    BY <1>1, <1>2, <1>4, <2>1 DEF OnCourse, Stays, Running
<1>8. InStep'
  BY <1>1, <1>2, <1>4, <1>5 DEF IInv, InStep, Agreed, OnCourse, Stays, Running
<1>9. WriteKept'
  <2>1. drv.upset => WriteKept'
    BY <1>4 DEF WriteKept, Stays
  <2>2. QED
    BY <1>1, <1>4, <1>5, <2>1, WriteStays DEF IInv, Running
<1>10. ReadKept'
  <2>1. drv.upset => ReadKept'
    BY <1>4 DEF ReadKept, Stays
  <2>2. QED
    BY <1>1, <1>4, <1>5, <2>1, ReadStays DEF IInv, Running
<1>11. QED
  BY <1>6, <1>7, <1>8, <1>9, <1>10 DEF IInv

\* The frame that is sent, by the call it belongs to.
LEMMA FrameHeld ==
  ASSUME SdTyped, OnCourse, drv.pc \in Running
  PROVE  /\ \A k \in 1 .. 6 : drv.frame[k] \in Nat
         /\ drv.op = "init" => /\ drv.frame[1] \in {GoIdle, SendOpCond, SetBlockLen}
                               /\ drv.frame[1] = SetBlockLen => drv.frame[5] = BlockLen
         /\ drv.op = "read" => drv.frame[1] = ReadSingle /\ drv.frame[5] = CardAddress
         /\ drv.op = "write" => drv.frame[1] = WriteBlock /\ drv.frame[5] = CardAddress
         /\ drv.op \in {"init", "read", "write"} /\ CardAddress \in Nat
<1>1. CardAddress \in Nat /\ drv.op \in {"init", "read", "write"}
  BY BlockIsThere DEF CardAddress, SdTyped, DrvType
<1> DEFINE is(cmd, arg) == /\ drv.frame[1] = cmd /\ drv.frame[5] = arg
                           /\ \A k \in 1 .. 6 : drv.frame[k] \in Nat
<1>2. \A cmd, arg \in Nat : drv.frame = Frame(cmd, arg) => is(cmd, arg)
  <2> TAKE cmd, arg \in Nat
  <2>1. Frame(cmd, arg)[1] = cmd /\ Frame(cmd, arg)[5] = arg /\ \A k \in 1 .. 6 : Frame(cmd, arg)[k] \in Nat
    BY FrameIs
  <2>2. QED
    BY <2>1, Zenon
<1>3. \/ drv.op = "init" /\ (is(GoIdle, 0) \/ is(SendOpCond, 0) \/ is(SetBlockLen, BlockLen))
      \/ drv.op = "read" /\ is(ReadSingle, CardAddress)
      \/ drv.op = "write" /\ is(WriteBlock, CardAddress)
  <2> HIDE DEF is
  <2>1. GoIdle \in Nat /\ SendOpCond \in Nat /\ SetBlockLen \in Nat /\ ReadSingle \in Nat /\ WriteBlock \in Nat
        /\ 0 \in Nat /\ BlockLen \in Nat
    BY DEF GoIdle, SendOpCond, SetBlockLen, ReadSingle, WriteBlock
  <2>2. \/ drv.op = "init" /\ drv.frame \in {Frame(GoIdle, 0), Frame(SendOpCond, 0), Frame(SetBlockLen, BlockLen)}
        \/ drv.op = "read" /\ drv.frame = Frame(ReadSingle, CardAddress)
        \/ drv.op = "write" /\ drv.frame = Frame(WriteBlock, CardAddress)
    BY DEF OnCourse
  <2>3. QED
    BY <1>1, <1>2, <2>1, <2>2, Zenon
<1>4. QED
  BY <1>1, <1>3 DEF GoIdle, SendOpCond, SetBlockLen

\* A byte of a command, the last of which the card parses.
LEMMA SendFrameStep == IInv /\ SendFrame => IInv'
<1> SUFFICES ASSUME IInv, SendFrame
             PROVE  IInv'
  OBVIOUS
<1> DEFINE in == drv.frame[drv.i]
<1>1. /\ drv.pc = "frame" /\ Shifted(in)
      /\ drv' = IF drv.i < 6 THEN [drv EXCEPT !.i = @ + 1] ELSE Await(drv, Expected, Tries)
  BY DEF SendFrame, Shift, Shifted
<1>2. SdTyped /\ drv \in DrvType /\ card \in CardType /\ OnCourse /\ drv.pc \in Running /\ drv.i \in 1 .. 6
  BY <1>1 DEF IInv, SdTyped, Running, OnCourse
<1>a. /\ in \in Nat
      /\ drv.op = "init" => /\ drv.frame[1] \in {GoIdle, SendOpCond, SetBlockLen}
                            /\ drv.frame[1] = SetBlockLen => drv.frame[5] = BlockLen
      /\ drv.op = "read" => drv.frame[1] = ReadSingle /\ drv.frame[5] = CardAddress
      /\ drv.op = "write" => drv.frame[1] = WriteBlock /\ drv.frame[5] = CardAddress
      /\ drv.op \in {"init", "read", "write"}
  BY <1>2, FrameHeld
<1> HIDE DEF in
<1>3. /\ card' \in CardType /\ (card'.present => card'.status # "none") /\ image' \in Bytes
      /\ card'.present = card.present /\ card'.enable = card.enable
      /\ ~card.present => card' = card /\ image' = image
      /\ card.status # "S_WRITE" => image' = image
      /\ card.present /\ card.enable => Exchange(in) = Transfer(card, in)
  BY <1>1, <1>2, <1>a, ShiftedIs
<1>b. Expected \in {0, 1}
  BY DEF Expected
<1>4. /\ drv' \in DrvType /\ Stays(drv', drv) /\ drv'.frame = drv.frame
      /\ drv'.got = drv.got /\ drv'.ready = drv.ready /\ drv'.result = drv.result
      /\ IF drv.i < 6 THEN drv'.pc = "frame" /\ drv'.i = drv.i + 1
                      ELSE drv'.pc = "resp" /\ drv'.e = Expected
  <2>1. CASE drv.i < 6
    <3>1. PICK m \in Nat : m = drv.i + 1
      BY <1>2
    <3>2. drv' = [drv EXCEPT !.i = m]
      BY <1>1, <2>1, <3>1
    <3>3. [drv EXCEPT !.i = m] \in DrvType
      BY <1>2 DEF DrvType
    <3>4. drv'.pc = "frame" /\ Stays(drv', drv) /\ drv'.frame = drv.frame /\ drv'.i = m
          /\ drv'.got = drv.got /\ drv'.ready = drv.ready /\ drv'.result = drv.result
      <4>1. drv.pc = "frame"
        BY <1>1
      <4>2. QED
        BY <1>2, <3>2, <4>1 DEF DrvType, Stays
    <3>5. QED
      BY <2>1, <3>1, <3>2, <3>3, <3>4, Zenon
  <2>2. CASE ~(drv.i < 6)
    <3>1. PICK e \in Nat : e = Expected
      BY <1>b
    <3>2. drv' = Await(drv, e, Tries) /\ Tries \in Nat
      BY <1>1, <2>2, <3>1
    <3>3. /\ drv' \in DrvType /\ Stays(drv', drv) /\ drv'.pc = "resp" /\ drv'.frame = drv.frame /\ drv'.e = e
          /\ drv'.got = drv.got /\ drv'.ready = drv.ready /\ drv'.result = drv.result
      <4>0. drv \in DrvType /\ Tries \in Nat
        BY <1>2
      <4>1. LET r == Await(drv, e, Tries)
            IN /\ r \in DrvType /\ Stays(r, drv) /\ r.pc = "resp" /\ r.frame = drv.frame /\ r.i = drv.i
               /\ r.e = e /\ r.b = Tries /\ r.got = drv.got /\ r.ready = drv.ready /\ r.result = drv.result
        BY <4>0, AwaitIs
      <4>2. QED
        BY <3>2, <4>1, Zenon
    <3>4. QED
      BY <2>2, <3>1, <3>3, Zenon
  <2>3. QED
    BY <2>1, <2>2
\* A card that is in step takes the frame byte by byte.
<1>5. ~drv.upset /\ card.present =>
        /\ image' = image /\ card'.enable
        /\ drv.i < 6 => /\ card'.status = "COMMAND" /\ card'.len = card.len /\ Len(card'.frame) = drv.i
                        /\ \A k \in 1 .. drv.i : card'.frame[k] = drv.frame[k]
        /\ drv.i = 6 =>
             /\ card'.response = Expected
             /\ card'.len = IF drv.frame[1] = SetBlockLen THEN drv.frame[5] ELSE card.len
             /\ drv.op = "init" => card'.status = "RESPONSE"
             /\ drv.op = "read" => card'.status = "S_READ_RESPONSE" /\ card'.pos = CardAddress
             /\ drv.op = "write" => card'.status = "S_WRITE_RESPONSE" /\ card'.pos = CardAddress
  <2> SUFFICES ASSUME ~drv.upset, card.present
               PROVE  /\ image' = image /\ card'.enable
                      /\ drv.i < 6 => /\ card'.status = "COMMAND" /\ card'.len = card.len /\ Len(card'.frame) = drv.i
                                      /\ \A k \in 1 .. drv.i : card'.frame[k] = drv.frame[k]
                      /\ drv.i = 6 =>
                           /\ card'.response = Expected
                           /\ card'.len = IF drv.frame[1] = SetBlockLen THEN drv.frame[5] ELSE card.len
                           /\ drv.op = "init" => card'.status = "RESPONSE"
                           /\ drv.op = "read" => card'.status = "S_READ_RESPONSE" /\ card'.pos = CardAddress
                           /\ drv.op = "write" => card'.status = "S_WRITE_RESPONSE" /\ card'.pos = CardAddress
    OBVIOUS
  <2>1. /\ card.enable
        /\ drv.i = 1 => card.status = "IDLE"
        /\ drv.i # 1 => /\ card.status = "COMMAND" /\ Len(card.frame) = drv.i - 1
                        /\ \A k \in 1 .. drv.i - 1 : card.frame[k] = drv.frame[k]
    BY <1>1, <1>2 DEF IInv, InStep, Agreed
  <2>2. card' = Transfer(card, in).card
    BY <1>1, <1>3, <2>1 DEF Shifted
  <2>3. image' = image /\ card'.enable
    BY <1>2, <1>3, <2>1
  <2>4. CASE drv.i = 1
    <3>0. drv.frame[1] \in {64, 65, 80, 81, 88}
      BY <1>a DEF GoIdle, SendOpCond, SetBlockLen, ReadSingle, WriteBlock
    <3>a. in = drv.frame[1]
      BY <2>4, Zenon DEF in
    <3>b. \A x \in {64, 65, 80, 81, 88} : IsCommand(x)
      BY DEF IsCommand
    <3>1. in = drv.frame[1] /\ IsCommand(in)
      BY <3>0, <3>a, <3>b
    <3>2. card'.status = "COMMAND" /\ Keeps(card', card) /\ Len(card'.frame) = 1 /\ card'.frame[1] = in
      BY <1>2, <1>a, <2>1, <2>2, <2>4, <3>1, IdleTakes
    <3>3. \A k \in 1 .. 1 : card'.frame[k] = drv.frame[k]
      BY <3>1, <3>2
    <3>4. QED
      BY <2>3, <2>4, <3>2, <3>3 DEF Keeps
  <2>5. CASE drv.i \in 2 .. 5
    <3>1. PICK s \in Seq(Nat) : s = card.frame
      BY <1>2 DEF CardType
    <3>2. Len(s) = drv.i - 1 /\ \A k \in 1 .. drv.i - 1 : s[k] = drv.frame[k]
      BY <2>1, <2>5, <3>1
    <3>3. Len(card.frame) < 5 /\ card.status = "COMMAND"
      BY <2>1, <2>5
    <3>4. card'.status = "COMMAND" /\ Keeps(card', card) /\ card'.frame = Append(s, in)
      BY <1>2, <1>a, <2>2, <3>1, <3>3, CommandTakes
    <3>5. Len(Append(s, in)) = Len(s) + 1 /\ Append(s, in)[Len(s) + 1] = in
          /\ \A k \in 1 .. Len(s) : Append(s, in)[k] = s[k]
      BY <1>a
    <3>6. Len(s) + 1 = drv.i /\ \A k \in 1 .. drv.i : k = drv.i \/ k \in 1 .. drv.i - 1
      BY <2>5, <3>2
    <3>7. \A k \in 1 .. drv.i : card'.frame[k] = drv.frame[k]
      BY <3>2, <3>4, <3>5, <3>6 DEF in
    <3>8. QED
      BY <2>3, <2>5, <3>4, <3>5, <3>6, <3>7 DEF Keeps
  <2>6. CASE drv.i = 6
    <3>1. card.status = "COMMAND" /\ Len(card.frame) = 5 /\ card.frame[1] = drv.frame[1] /\ card.frame[5] = drv.frame[5]
      BY <2>1, <2>6
    <3>2. card.frame[1] \in {GoIdle, SendOpCond, SetBlockLen, ReadSingle, WriteBlock}
      BY <1>a, <3>1
    <3>3. /\ card.frame[1] = GoIdle => card'.status = "RESPONSE" /\ card'.response = 1
          /\ card.frame[1] \in {SendOpCond, SetBlockLen} => card'.status = "RESPONSE" /\ card'.response = 0
          /\ card'.len = IF card.frame[1] = SetBlockLen THEN card.frame[5] ELSE card.len
          /\ card.frame[1] = ReadSingle =>
               card'.status = "S_READ_RESPONSE" /\ card'.response = 0 /\ card'.pos = card.frame[5]
          /\ card.frame[1] = WriteBlock =>
               card'.status = "S_WRITE_RESPONSE" /\ card'.response = 0 /\ card'.pos = card.frame[5]
      BY <1>2, <1>a, <2>2, <3>1, <3>2, CommandParsed
    <3>4. QED
      BY <1>a, <2>3, <2>6, <3>1, <3>3 DEF Expected, GoIdle, SendOpCond, SetBlockLen, ReadSingle, WriteBlock
  <2>7. QED
    BY <1>2, <2>4, <2>5, <2>6
<1>6. SdTyped'
  BY <1>3, <1>4 DEF SdTyped
<1>7. OnCourse'
  <2>1. CardAddress' = CardAddress /\ Expected' = Expected
    BY <1>4 DEF Stays, CardAddress, Expected
  <2>2. QED
    BY <1>1, <1>2, <1>4, <2>1 DEF OnCourse, Stays, Running
<1>8. InStep'
  <2>1. SUFFICES ASSUME ~drv.upset
                 PROVE  InStep'
    BY <1>4 DEF InStep, Stays
  <2>2. drv'.ready => card'.len = BlockLen
    BY <1>2, <1>3, <1>4, <1>5, <1>a, <2>1 DEF IInv, InStep, ReadSingle, WriteBlock, SetBlockLen
  <2>3. card'.present => Agreed(card', drv')
    <3>1. SUFFICES ASSUME card.present
                   PROVE  Agreed(card', drv')
      BY <1>3
    <3>2. drv.i < 6 => drv'.pc = "frame" /\ drv'.i = drv.i + 1 /\ drv'.i # 1 /\ drv'.i - 1 = drv.i
      BY <1>2, <1>4
    <3>3. ~(drv.i < 6) => drv.i = 6 /\ drv'.pc = "resp" /\ drv'.e \in {0, 1} /\ drv'.e = Expected
      BY <1>2, <1>4, <1>b
    <3>4. drv.frame[1] = SetBlockLen => drv.frame[5] = BlockLen
      BY <1>a DEF SetBlockLen, ReadSingle, WriteBlock
    <3>5. CASE drv.i < 6
      BY <1>4, <1>5, <2>1, <3>1, <3>2, <3>5 DEF Agreed, Running
    <3>6. CASE ~(drv.i < 6)
      BY <1>4, <1>5, <2>1, <3>1, <3>3, <3>4, <3>6 DEF Agreed, Running, Stays, CardAddress
    <3>7. QED
      BY <3>5, <3>6
  <2>4. QED
    BY <1>4, <2>2, <2>3 DEF InStep
<1>9. WriteKept'
  <2>1. drv.upset => WriteKept'
    BY <1>4 DEF WriteKept, Stays
  <2>2. QED
    BY <1>1, <1>3, <1>4, <1>5, <2>1, WriteStays DEF IInv, Running
<1>10. ReadKept'
  <2>1. drv.upset => ReadKept'
    BY <1>4 DEF ReadKept, Stays
  <2>2. QED
    BY <1>1, <1>3, <1>4, <1>5, <2>1, ReadStays DEF IInv, Running
<1>11. QED
  BY <1>6, <1>7, <1>8, <1>9, <1>10 DEF IInv

\* What a driver that waits for an answer makes of a byte.
LEMMA LookedIs ==
  ASSUME SdTyped, OnCourse, drv.pc = "resp", NEW out \in Int, NEW d, d = Looked(drv, out)
  PROVE  /\ d \in DrvType /\ Stays(d, drv) /\ d.frame = drv.frame /\ d.got = drv.got /\ d.ready = drv.ready
         /\ out = drv.e =>
              /\ d.result = drv.result
              /\ drv.e = 254 => d.pc = "data" /\ drv.op = "read"
              /\ drv.e # 254 => /\ drv.op = "init" => d.pc = "poll"
                                /\ drv.op = "read" => d.pc = "resp" /\ d.e = 254
                                /\ drv.op = "write" => d.pc = "gap"
         /\ out # drv.e =>
              \/ d.pc = "resp" /\ d.e = drv.e /\ d.result = drv.result
              \/ d.pc = "poll" /\ drv.op = "init" /\ drv.frame[1] = SendOpCond /\ d.result = drv.result
              \/ d.pc = "stop" /\ d.result = "error"
<1>1. drv \in DrvType /\ drv.pc \in Running /\ drv.e \in Nat /\ drv.b \in Nat /\ drv.op \in {"init", "read", "write"}
  BY DEF SdTyped, DrvType, Running
<1>2. /\ drv.op = "init" => drv.frame[1] \in {GoIdle, SendOpCond, SetBlockLen}
      /\ drv.op = "read" => drv.frame[1] = ReadSingle
      /\ drv.op = "write" => drv.frame[1] = WriteBlock
  BY <1>1, FrameHeld
<1>3. drv.e = 254 => drv.op = "read"
  BY DEF OnCourse, Expected
<1>4. {"data", "poll", "gap"} \subseteq Running \cup {"idle", "start", "stop"}
  BY DEF Running
<1>5. ASSUME out = drv.e, drv.e = 254
      PROVE  d = [drv EXCEPT !.pc = "data"]
  BY <1>5 DEF Looked, Answered
<1>6. ASSUME out = drv.e, drv.e # 254, drv.op = "init"
      PROVE  d = [drv EXCEPT !.pc = "poll"]
  <2>1. d = Answered(drv)
    BY <1>6 DEF Looked
  <2>2. QED
    BY <1>2, <1>6, <2>1 DEF Answered, GoIdle, SendOpCond, SetBlockLen, ReadSingle, WriteBlock
<1>7. ASSUME out = drv.e, drv.e # 254, drv.op = "read"
      PROVE  d = Await(drv, 254, Tries)
  <2>1. d = Answered(drv)
    BY <1>7 DEF Looked
  <2>2. QED
    BY <1>2, <1>7, <2>1 DEF Answered, GoIdle, SendOpCond, SetBlockLen, ReadSingle, WriteBlock
<1>8. ASSUME out = drv.e, drv.e # 254, drv.op = "write"
      PROVE  d = [drv EXCEPT !.pc = "gap"]
  <2>1. d = Answered(drv)
    BY <1>8 DEF Looked
  <2>2. QED
    BY <1>2, <1>8, <2>1 DEF Answered, GoIdle, SendOpCond, SetBlockLen, ReadSingle, WriteBlock
<1>9. CASE out = drv.e
  <2>1. drv \in DrvType /\ 254 \in Nat /\ Tries \in Nat
    BY <1>1
  <2>2. \A e \in Nat :
          LET r == Await(drv, e, Tries)
          IN /\ r \in DrvType /\ Stays(r, drv) /\ r.pc = "resp" /\ r.frame = drv.frame /\ r.e = e
             /\ r.got = drv.got /\ r.ready = drv.ready /\ r.result = drv.result
    BY <2>1, AwaitIs
  <2>3. \A p \in {"data", "poll", "gap"} :
          LET r == [drv EXCEPT !.pc = p]
          IN /\ r \in DrvType /\ Stays(r, drv) /\ r.pc = p /\ r.frame = drv.frame
             /\ r.got = drv.got /\ r.ready = drv.ready /\ r.result = drv.result
    BY <1>1, <1>4, PcIs
  <2>4. CASE drv.e = 254
    BY <1>3, <1>5, <1>9, <2>3, <2>4
  <2>5. CASE drv.e # 254 /\ drv.op = "init"
    BY <1>6, <1>9, <2>3, <2>5
  <2>6. CASE drv.e # 254 /\ drv.op = "read"
    <3>1. PICK e \in Nat : e = 254 /\ d = Await(drv, e, Tries)
      BY <1>7, <1>9, <2>6
    <3>2. /\ d \in DrvType /\ Stays(d, drv) /\ d.pc = "resp" /\ d.frame = drv.frame /\ d.e = 254
          /\ d.got = drv.got /\ d.ready = drv.ready /\ d.result = drv.result
      BY <2>2, <3>1
    <3>3. QED
      BY <1>9, <2>6, <3>2
  <2>7. CASE drv.e # 254 /\ drv.op = "write"
    BY <1>8, <1>9, <2>3, <2>7
  <2>8. QED
    BY <1>1, <2>4, <2>5, <2>6, <2>7
<1>10. CASE out # drv.e
  <2>1. CASE drv.b > 1
    <3>1. PICK m \in Nat : m = drv.b - 1
      BY <1>1, <2>1
    <3>a. d = [drv EXCEPT !.b = drv.b - 1]
      BY <1>1, <1>10, <2>1 DEF Looked
    <3>2. d = [drv EXCEPT !.b = m]
      BY <3>1, <3>a
    <3>3. d \in DrvType /\ Stays(d, drv) /\ d.pc = "resp" /\ d.frame = drv.frame /\ d.e = drv.e
          /\ d.got = drv.got /\ d.ready = drv.ready /\ d.result = drv.result
      BY <1>1, <3>2 DEF DrvType, Stays
    <3>4. QED
      BY <1>10, <3>3
  <2>2. CASE ~(drv.b > 1)
    <3> DEFINE z == [drv EXCEPT !.b = 0]
    <3>1. d = Unanswered(z)
      BY <1>1, <1>10, <2>2 DEF Looked
    <3>2. z \in DrvType /\ Stays(z, drv) /\ z.frame = drv.frame /\ z.got = drv.got /\ z.ready = drv.ready
          /\ z.result = drv.result
      <4>1. 0 \in Nat
        OBVIOUS
      <4>2. QED
        BY <1>1, <4>1 DEF DrvType, Stays
    <3> HIDE DEF z
    <3>3. CASE z.frame[1] = SendOpCond
      <4>1. d = [z EXCEPT !.pc = "poll"]
        BY <3>1, <3>3 DEF Unanswered
      <4>2. d \in DrvType /\ Stays(d, z) /\ d.pc = "poll" /\ d.frame = z.frame
            /\ d.got = z.got /\ d.ready = z.ready /\ d.result = z.result
        BY <1>4, <3>2, <4>1, PcIs
      <4>3. drv.op = "init"
        BY <1>1, <1>2, <3>2, <3>3 DEF SendOpCond, ReadSingle, WriteBlock
      <4>4. QED
        BY <1>10, <3>2, <3>3, <4>2, <4>3 DEF Stays
    <3>4. CASE z.frame[1] # SendOpCond
      <4>1. d = Done(z, "error")
        BY <3>1, <3>4 DEF Unanswered
      <4>2. d \in DrvType /\ Stays(d, z) /\ d.pc = "stop" /\ d.frame = z.frame
            /\ d.got = z.got /\ d.ready = z.ready /\ d.result = "error"
        BY <3>2, <4>1, DoneIs
      <4>3. QED
        BY <1>10, <3>2, <4>2 DEF Stays
    <3>5. QED
      BY <3>3, <3>4
  <2>3. QED
    BY <2>1, <2>2
<1>11. QED
  BY <1>9, <1>10

\* One look for the answer: a card in step gives it at the first.
LEMMA GetResponseStep == IInv /\ GetResponse => IInv'
<1> SUFFICES ASSUME IInv, GetResponse
             PROVE  IInv'
  OBVIOUS
<1> DEFINE out == Exchange(255).out
<1>1. drv.pc = "resp" /\ Shifted(255) /\ drv' = Looked(drv, out)
  BY DEF GetResponse, Shift, Shifted
<1>2. /\ SdTyped /\ drv \in DrvType /\ card \in CardType /\ OnCourse /\ 255 \in Nat /\ drv.pc \in Running
      /\ drv.op \in {"init", "read", "write"} /\ drv.result = "none" /\ drv.got = <<>>
  BY <1>1 DEF IInv, SdTyped, DrvType, Running, OnCourse
<1>3. /\ out \in Int /\ card' \in CardType /\ (card'.present => card'.status # "none") /\ image' \in Bytes
      /\ card'.present = card.present /\ card'.enable = card.enable
      /\ ~card.present => card' = card /\ image' = image /\ out = 255
      /\ card.status # "S_WRITE" => image' = image
      /\ card.present /\ card.enable => Exchange(255) = Transfer(card, 255)
  BY <1>1, <1>2, ShiftedIs
<1>a. drv.e \in {0, 1, 254} /\ (drv.e # 254 => drv.e = Expected)
  BY <1>1, <1>2 DEF OnCourse, Expected
<1>b. card' = Exchange(255).card
  BY <1>1 DEF Shifted
<1> HIDE DEF out
<1>4. /\ drv' \in DrvType /\ Stays(drv', drv) /\ drv'.frame = drv.frame /\ drv'.got = drv.got /\ drv'.ready = drv.ready
      /\ out = drv.e =>
           /\ drv'.result = drv.result
           /\ drv.e = 254 => drv'.pc = "data" /\ drv.op = "read"
           /\ drv.e # 254 => /\ drv.op = "init" => drv'.pc = "poll"
                             /\ drv.op = "read" => drv'.pc = "resp" /\ drv'.e = 254
                             /\ drv.op = "write" => drv'.pc = "gap"
      /\ out # drv.e =>
           \/ drv'.pc = "resp" /\ drv'.e = drv.e /\ drv'.result = drv.result
           \/ drv'.pc = "poll" /\ drv.op = "init" /\ drv.frame[1] = SendOpCond /\ drv'.result = drv.result
           \/ drv'.pc = "stop" /\ drv'.result = "error"
  <2>1. PICK d : d = Looked(drv, out)
    OBVIOUS
  <2>2. drv' = d
    BY <1>1, <2>1
  <2>3. QED
    BY <1>1, <1>2, <1>3, <2>1, <2>2, LookedIs
\* A card that is in step answers at once.
<1>5. ~drv.upset /\ card.present =>
        /\ image' = image /\ card'.enable /\ out = drv.e /\ card'.len = card.len /\ card'.pos = card.pos
        /\ drv.e = 254 => card'.status = "S_READ" /\ card'.count = 1 /\ card'.pos = CardAddress
        /\ drv.e # 254 =>
             /\ card'.count = 0
             /\ drv.op = "init" => card'.status = "IDLE"
             /\ drv.op = "read" => card'.status = "S_READ" /\ card'.pos = CardAddress
             /\ drv.op = "write" => card'.status = "S_WRITE" /\ card'.pos = CardAddress
             /\ drv.frame[1] = SetBlockLen => card'.len = BlockLen
  <2> SUFFICES ASSUME ~drv.upset, card.present
               PROVE  /\ image' = image /\ card'.enable /\ out = drv.e /\ card'.len = card.len /\ card'.pos = card.pos
                      /\ drv.e = 254 => card'.status = "S_READ" /\ card'.count = 1 /\ card'.pos = CardAddress
                      /\ drv.e # 254 =>
                           /\ card'.count = 0
                           /\ drv.op = "init" => card'.status = "IDLE"
                           /\ drv.op = "read" => card'.status = "S_READ" /\ card'.pos = CardAddress
                           /\ drv.op = "write" => card'.status = "S_WRITE" /\ card'.pos = CardAddress
                           /\ drv.frame[1] = SetBlockLen => card'.len = BlockLen
    OBVIOUS
  <2>1. /\ card.enable
        /\ drv.e = 254 => card.status = "S_READ" /\ card.count = 0 /\ card.pos = CardAddress
        /\ drv.e # 254 =>
             /\ card.response = drv.e
             /\ drv.op = "init" => card.status = "RESPONSE"
             /\ drv.op = "read" => card.status = "S_READ_RESPONSE" /\ card.pos = CardAddress
             /\ drv.op = "write" => card.status = "S_WRITE_RESPONSE" /\ card.pos = CardAddress
             /\ drv.frame[1] = SetBlockLen => card.len = BlockLen
    BY <1>1, <1>2 DEF IInv, InStep, Agreed, CardAddress
  <2>2. card' = Transfer(card, 255).card /\ out = Transfer(card, 255).out
    BY <1>3, <1>b, <2>1 DEF out
  <2>3. image' = image /\ card'.enable
    BY <1>2, <1>3, <1>4, <2>1
  <2>4. CASE drv.e = 254
    <3>1. card.status = "S_READ" /\ card.count = 0
      BY <2>1, <2>4
    <3>2. out = 254 /\ card'.status = "S_READ" /\ card'.count = 1 /\ Keeps(card', card)
      BY <1>2, <2>2, <3>1, ReadToken
    <3>3. QED
      BY <2>1, <2>3, <2>4, <3>2 DEF Keeps
  <2>5. CASE drv.e # 254
    <3>1. card.status \in {"RESPONSE", "S_READ_RESPONSE", "S_WRITE_RESPONSE"}
      BY <1>2, <2>1, <2>5
    <3>2. /\ out = card.response /\ card'.count = 0 /\ Keeps(card', card)
          /\ card.status = "RESPONSE" => card'.status = "IDLE"
          /\ card.status = "S_READ_RESPONSE" => card'.status = "S_READ"
          /\ card.status = "S_WRITE_RESPONSE" => card'.status = "S_WRITE"
      BY <1>2, <2>2, <3>1, AnswerGiven
    <3>3. QED
      BY <2>1, <2>3, <2>5, <3>2 DEF Keeps
  <2>6. QED
    BY <2>4, <2>5
<1>6. SdTyped'
  BY <1>3, <1>4 DEF SdTyped
<1>7. OnCourse'
  <2>1. CardAddress' = CardAddress /\ Expected' = Expected
    BY <1>4 DEF Stays, CardAddress, Expected
  <2>2. drv'.pc \in {"data", "poll", "resp", "gap", "stop"} /\ Len(drv'.got) = 0
    BY <1>2, <1>4
  <2>3. drv'.pc # "stop" => drv'.result = "none"
    BY <1>2, <1>4
  <2>4. drv'.pc = "resp" => drv'.e = Expected \/ (drv'.e = 254 /\ drv.op = "read")
    BY <1>1, <1>2, <1>4 DEF OnCourse
  <2>5. /\ drv'.pc = "poll" => drv.op = "init"
        /\ drv'.pc = "data" => drv.op = "read"
        /\ drv'.pc = "gap" => drv.op = "write"
    BY <1>2, <1>4
  <2>6. QED
    BY <1>1, <1>2, <1>4, <2>1, <2>2, <2>3, <2>4, <2>5 DEF OnCourse, Stays, Running
<1>8. InStep'
  <2>1. SUFFICES ASSUME ~drv.upset
                 PROVE  InStep'
    BY <1>4 DEF InStep, Stays
  <2>2. card'.len = card.len
    BY <1>3, <1>5, <2>1
  <2>3. CASE ~card.present
    <3>1. out # drv.e
      BY <1>3, <1>a, <2>3
    <3>2. QED
      BY <1>3, <1>4, <2>1, <2>2, <2>3, <3>1 DEF IInv, InStep, SendOpCond, SetBlockLen
  <2>4. CASE card.present
    <3>1. out = drv.e /\ card'.enable /\ Len(drv'.got) = 0 /\ drv'.got = <<>>
      BY <1>2, <1>4, <1>5, <2>1, <2>4
    <3>2. CASE drv.e = 254
      <4>1. drv'.pc = "data" /\ card'.status = "S_READ" /\ card'.count = 1 /\ card'.pos = drv'.blk * BlockLen
        BY <1>4, <1>5, <2>1, <2>4, <3>1, <3>2 DEF CardAddress, Stays
      <4>2. drv'.blk * BlockLen \in Nat
        BY <1>4, BlockIsThere DEF DrvType
      <4>3. Agreed(card', drv')
        BY <3>1, <4>1, <4>2 DEF Agreed, Running
      <4>4. QED
        BY <1>4, <2>1, <2>2, <4>1, <4>3 DEF IInv, InStep
    <3>3. CASE drv.e # 254
      <4>1. /\ card'.count = 0
            /\ drv.op = "init" => card'.status = "IDLE" /\ drv'.pc = "poll"
            /\ drv.op = "read" => card'.status = "S_READ" /\ card'.pos = drv'.blk * BlockLen
                                  /\ drv'.pc = "resp" /\ drv'.e = 254
            /\ drv.op = "write" => card'.status = "S_WRITE" /\ card'.pos = drv'.blk * BlockLen /\ drv'.pc = "gap"
            /\ drv.frame[1] = SetBlockLen => card'.len = BlockLen
        BY <1>4, <1>5, <2>1, <2>4, <3>1, <3>3 DEF CardAddress, Stays
      <4>2. Agreed(card', drv')
        BY <1>2, <3>1, <4>1 DEF Agreed, Running
      <4>3. QED
        BY <1>4, <2>1, <2>2, <4>1, <4>2 DEF IInv, InStep
    <3>4. QED
      BY <3>2, <3>3
  <2>5. QED
    BY <2>3, <2>4
<1>c. ~drv.upset => image' = image
  BY <1>3, <1>5
<1>9. WriteKept'
  <2>1. drv.upset => WriteKept'
    BY <1>4 DEF WriteKept, Stays
  <2>2. drv'.pc \notin {"start", "put", "accept"} /\ drv'.result # "ok"
    BY <1>2, <1>4
  <2>3. QED
    BY <1>1, <1>3, <1>4, <1>c, <2>1, <2>2, WriteStays DEF IInv, Running
<1>10. ReadKept'
  <2>1. SUFFICES ASSUME drv.op = "read", ~drv.upset
                 PROVE  ReadKept'
    BY <1>4 DEF ReadKept, Stays
  <2>2. drv'.got = <<>> /\ Len(drv'.got) = 0 /\ drv'.got = Seen(image', CardAddress', 0, Len(drv'.got))
    BY <1>2, <1>4, SeenNone
  <2>3. drv'.result # "ok" /\ drv'.pc # "crc"
    BY <1>2, <1>4
  <2>4. drv'.pc = "data" => card'.present
    BY <1>3, <1>4, <1>a
  <2>5. card'.present /\ drv'.swap # "inserted" => drv'.swap = "no" /\ drv'.result # "error"
    BY <1>2, <1>3, <1>4, <1>5, <2>1 DEF IInv, ReadKept, Stays
  <2>6. QED
    BY <2>2, <2>3, <2>4, <2>5 DEF ReadKept
<1>11. QED
  BY <1>6, <1>7, <1>8, <1>9, <1>10 DEF IInv

\* The byte that is shifted between two commands of sd_init.
LEMMA PollStep == IInv /\ Poll => IInv'
<1> SUFFICES ASSUME IInv, Poll
             PROVE  IInv'
  OBVIOUS
<1>1. drv.pc = "poll" /\ Shifted(255) /\ drv' = AfterPoll(drv)
  BY DEF Poll, Shift, Shifted
<1>2. /\ SdTyped /\ drv \in DrvType /\ card \in CardType /\ OnCourse /\ 255 \in Nat /\ drv.pc \in Running
      /\ drv.op = "init" /\ drv.result = "none" /\ drv.got = <<>>
  BY <1>1 DEF IInv, SdTyped, Running, OnCourse
<1>3. /\ card' \in CardType /\ (card'.present => card'.status # "none") /\ image' \in Bytes
      /\ card'.present = card.present /\ card'.enable = card.enable
      /\ ~card.present => card' = card /\ image' = image
      /\ card.status # "S_WRITE" => image' = image
      /\ card.present /\ card.enable => Exchange(255) = Transfer(card, 255)
  BY <1>1, <1>2, ShiftedIs
<1>4. /\ drv' \in DrvType /\ Stays(drv', drv) /\ drv'.got = drv.got
      /\ \/ /\ drv'.pc = "busy" /\ drv'.i = 1 /\ drv'.ready = drv.ready /\ drv'.result = drv.result
            /\ drv'.frame \in {Frame(SendOpCond, 0), Frame(SetBlockLen, BlockLen)}
         \/ drv.frame[1] = SetBlockLen /\ drv'.pc = "stop" /\ drv'.ready
  <2>1. drv.frame[1] \in {GoIdle, SendOpCond, SetBlockLen}
    BY <1>2, FrameHeld
  <2>2. \/ drv' = Command(drv, SendOpCond, 0)
        \/ drv' = Command(drv, SetBlockLen, BlockLen)
        \/ drv.frame[1] = SetBlockLen /\ drv' = Done([drv EXCEPT !.ready = TRUE], "ok")
    <3>1. drv.b = 0 \/ drv.b > 0
      BY <1>2 DEF DrvType
    <3>2. QED
      BY <1>1, <2>1, <3>1 DEF AfterPoll, GoIdle, SendOpCond, SetBlockLen
  <2>3. \A cmd \in {SendOpCond, SetBlockLen}, arg \in {0, BlockLen} :
          LET r == Command(drv, cmd, arg)
          IN /\ r \in DrvType /\ Stays(r, drv) /\ r.pc = "busy" /\ r.frame = Frame(cmd, arg) /\ r.i = 1
             /\ r.got = drv.got /\ r.ready = drv.ready /\ r.result = drv.result
    <3>1. \A cmd \in Nat, arg \in Nat :
            LET r == Command(drv, cmd, arg)
            IN /\ r \in DrvType /\ Stays(r, drv) /\ r.pc = "busy" /\ r.frame = Frame(cmd, arg) /\ r.i = 1
               /\ r.got = drv.got /\ r.ready = drv.ready /\ r.result = drv.result
      <4> TAKE cmd, arg \in Nat
      <4>1. LET r == Command(drv, cmd, arg)
            IN /\ r \in DrvType /\ Stays(r, drv) /\ r.pc = "busy" /\ r.frame = Frame(cmd, arg) /\ r.i = 1
               /\ r.e = drv.e /\ r.b = drv.b /\ r.got = drv.got /\ r.ready = drv.ready /\ r.result = drv.result
        <5>1. drv \in DrvType
          BY <1>2
        <5>2. QED
          BY <5>1, CommandIs
      <4>2. QED
        BY <4>1
    <3>2. SendOpCond \in Nat /\ SetBlockLen \in Nat /\ 0 \in Nat /\ BlockLen \in Nat
      BY DEF SendOpCond, SetBlockLen
    <3>3. QED
      BY <3>1, <3>2
  <2>4. CASE drv' = Command(drv, SendOpCond, 0)
    BY <2>3, <2>4
  <2>5. CASE drv' = Command(drv, SetBlockLen, BlockLen)
    BY <2>3, <2>5
  <2>6. CASE drv.frame[1] = SetBlockLen /\ drv' = Done([drv EXCEPT !.ready = TRUE], "ok")
    <3>1. PICK z : z = [drv EXCEPT !.ready = TRUE]
      OBVIOUS
    <3>2. z \in DrvType /\ Stays(z, drv) /\ z.got = drv.got /\ z.ready
      BY <1>2, <3>1 DEF DrvType, Stays
    <3>3. drv' \in DrvType /\ Stays(drv', z) /\ drv'.got = z.got /\ drv'.pc = "stop" /\ drv'.ready = z.ready
      BY <2>6, <3>1, <3>2, DoneIs
    <3>4. QED
      BY <2>6, <3>2, <3>3 DEF Stays
  <2>7. QED
    BY <2>2, <2>4, <2>5, <2>6
<1>5. ~drv.upset =>
        /\ card' = card /\ image' = image
        /\ card.present => card.enable /\ card.status = "IDLE"
  <2>1. SUFFICES ASSUME ~drv.upset, card.present
                 PROVE  card' = card /\ image' = image /\ card.enable /\ card.status = "IDLE"
    BY <1>3
  <2>2. card.enable /\ card.status = "IDLE"
    BY <1>1, <2>1 DEF IInv, InStep, Agreed, Running
  <2>3. Exchange(255) = Shown(card, 255)
    BY <1>2, <1>3, <2>1, <2>2, IdleWaits
  <2>4. QED
    BY <1>1, <1>2, <1>3, <2>2, <2>3, ShownOut DEF Shifted
<1>6. SdTyped'
  BY <1>3, <1>4 DEF SdTyped
<1>7. OnCourse'
  BY <1>1, <1>2, <1>4 DEF OnCourse, Stays, Running
<1>8. InStep'
  BY <1>1, <1>2, <1>4, <1>5 DEF IInv, InStep, Agreed, Stays, Running
<1>9. WriteKept' /\ ReadKept'
  BY <1>2, <1>4 DEF WriteKept, ReadKept, Stays
<1>10. QED
  BY <1>6, <1>7, <1>8, <1>9 DEF IInv

\* A byte of the block: the next one, or 0xff when the card is out.
LEMMA GetDataStep == IInv /\ GetData => IInv'
<1> SUFFICES ASSUME IInv, GetData
             PROVE  IInv'
  OBVIOUS
<1> DEFINE out == Exchange(255).out
           m == Len(drv.got)
<1>1. /\ drv.pc = "data" /\ Shifted(255)
      /\ drv' = [drv EXCEPT !.got = Append(@, out), !.i = 0, !.pc = IF m + 1 < BlockLen THEN "data" ELSE "crc"]
  BY DEF GetData, Shift, Shifted
<1>2. /\ SdTyped /\ drv \in DrvType /\ card \in CardType /\ OnCourse /\ 255 \in Nat /\ drv.pc \in Running
      /\ drv.op = "read" /\ drv.result = "none" /\ drv.ready /\ drv.got \in Seq(Int)
      /\ m \in Nat /\ m < BlockLen /\ drv.blk \in 0 .. NumBlocks - 1
  BY <1>1 DEF IInv, SdTyped, DrvType, Running, OnCourse
<1>3. /\ out \in Int /\ card' \in CardType /\ (card'.present => card'.status # "none") /\ image' \in Bytes
      /\ card'.present = card.present /\ card'.enable = card.enable
      /\ ~card.present => card' = card /\ image' = image /\ out = 255
      /\ card.status # "S_WRITE" => image' = image
      /\ card.present /\ card.enable => Exchange(255) = Transfer(card, 255)
  BY <1>1, <1>2, ShiftedIs
<1>a. card' = Exchange(255).card
  BY <1>1 DEF Shifted
<1>b. Append(drv.got, out) \in Seq(Int) /\ Len(Append(drv.got, out)) = m + 1
  BY <1>2, <1>3
<1> HIDE DEF out
<1>4. /\ drv' \in DrvType /\ Stays(drv', drv) /\ drv'.frame = drv.frame /\ drv'.ready = drv.ready
      /\ drv'.result = drv.result /\ drv'.got = Append(drv.got, out) /\ drv'.i = 0
      /\ drv'.pc = IF m + 1 < BlockLen THEN "data" ELSE "crc"
  <2>1. PICK g \in Seq(Int) : g = Append(drv.got, out)
    BY <1>b
  <2>2. PICK p \in Running : p = IF m + 1 < BlockLen THEN "data" ELSE "crc"
    BY DEF Running
  <2>3. drv' = [drv EXCEPT !.got = g, !.i = 0, !.pc = p] /\ 0 \in Nat
    BY <1>1, <2>1, <2>2
  <2>4. /\ drv' \in DrvType /\ Stays(drv', drv) /\ drv'.frame = drv.frame /\ drv'.ready = drv.ready
        /\ drv'.result = drv.result /\ drv'.got = g /\ drv'.i = 0 /\ drv'.pc = p
    BY <1>2, <2>3 DEF DrvType, Stays
  <2>5. QED
    BY <2>1, <2>2, <2>4, Zenon
<1> HIDE DEF m
<1>c. Len(drv'.got) = m + 1 /\ ((drv'.pc = "data" /\ m + 1 < BlockLen) \/ (drv'.pc = "crc" /\ m + 1 = BlockLen))
  BY <1>2, <1>4, <1>b
\* A card that is in step shows the next byte of the block.
<1>5. ~drv.upset /\ card.present =>
        /\ card'.enable /\ card'.status = "S_READ" /\ card'.count = m + 2 /\ card'.pos = CardAddress + m + 1
        /\ card'.len = card.len /\ image' = image /\ out = image[CardAddress + m]
  <2> SUFFICES ASSUME ~drv.upset, card.present
               PROVE  /\ card'.enable /\ card'.status = "S_READ" /\ card'.count = m + 2 /\ card'.pos = CardAddress + m + 1
                      /\ card'.len = card.len /\ image' = image /\ out = image[CardAddress + m]
    OBVIOUS
  <2>1. /\ card.enable /\ card.status = "S_READ" /\ card.count = m + 1 /\ card.pos = CardAddress + m
        /\ card.len = BlockLen
    BY <1>1, <1>2 DEF IInv, InStep, Agreed, CardAddress, m
  <2>2. card.count \in 1 .. card.len
    BY <1>2, <2>1
  <2>3. card' = Transfer(card, 255).card /\ out = Transfer(card, 255).out
    BY <1>3, <1>a, <2>1 DEF out
  <2>4. /\ out = Byte(card.pos) /\ card'.status = "S_READ" /\ card'.count = card.count + 1
        /\ card'.len = card.len /\ card'.pos = card.pos + 1
    BY <1>2, <2>1, <2>2, <2>3, ReadByte
  <2>5. CardAddress \in Nat /\ CardAddress + m < Size
    BY <1>2, AddressIs
  <2>6. out = image[CardAddress + m]
    BY <2>1, <2>4, <2>5 DEF Byte
  <2>7. QED
    BY <1>2, <1>3, <2>1, <2>4, <2>5, <2>6
<1>6. SdTyped'
  BY <1>3, <1>4 DEF SdTyped
<1>7. OnCourse'
  <2>1. CardAddress' = CardAddress
    BY <1>4 DEF Stays, CardAddress
  <2>2. QED
    BY <1>1, <1>2, <1>4, <1>c, <2>1 DEF OnCourse, Stays, Running
<1>8. InStep'
  <2>1. SUFFICES ASSUME ~drv.upset
                 PROVE  InStep'
    BY <1>4 DEF InStep, Stays
  <2>2. card'.len = BlockLen
    BY <1>2, <1>3, <1>5, <2>1 DEF IInv, InStep
  <2>3. ASSUME card.present
        PROVE  Agreed(card', drv')
    <3>1. card'.enable /\ card'.status = "S_READ" /\ card'.count = m + 2 /\ card'.pos = CardAddress + m + 1
      BY <1>5, <2>1, <2>3
    <3>2. drv'.blk * BlockLen = CardAddress /\ CardAddress \in Nat
      BY <1>2, <1>4, BlockIsThere DEF CardAddress, Stays
    <3>3. CASE drv'.pc = "data"
      <4>1. card'.count = Len(drv'.got) + 1 /\ card'.pos = drv'.blk * BlockLen + Len(drv'.got)
        <5>1. PICK k \in Nat, a \in Nat : k = m /\ a = CardAddress
          BY <1>2, <3>2
        <5>2. Len(drv'.got) = k + 1 /\ card'.count = k + 2 /\ card'.pos = a + k + 1 /\ drv'.blk * BlockLen = a
          BY <1>c, <3>1, <3>2, <5>1
        <5>3. a + k + 1 = a + (k + 1) /\ k + 2 = (k + 1) + 1
          OBVIOUS
        <5>4. QED
          BY <5>2, <5>3
      <4>2. QED
        BY <3>1, <3>3, <4>1 DEF Agreed, Running
    <3>4. CASE drv'.pc = "crc"
      <4>1. card'.count = BlockLen + 1 + drv'.i
        BY <1>2, <1>4, <1>c, <3>1, <3>4
      <4>2. QED
        BY <3>1, <3>4, <4>1 DEF Agreed, Running
    <3>5. QED
      BY <1>c, <3>3, <3>4
  <2>4. QED
    BY <1>3, <1>c, <2>2, <2>3 DEF InStep
<1>9. WriteKept'
  BY <1>2, <1>4 DEF WriteKept, Stays
<1>10. ReadKept'
  <2>1. SUFFICES ASSUME ~drv.upset
                 PROVE  ReadKept'
    BY <1>4 DEF ReadKept, Stays
  <2>2. PICK n \in 0 .. m :
          /\ drv.got = Seen(image, CardAddress, n, m)
          /\ drv.swap = "no" \/ card.present => n = m
    BY <1>1, <1>2, <2>1 DEF IInv, ReadKept, m
  <2>3. /\ drv.swap = "no" => card.present
        /\ card.present /\ drv.swap # "inserted" => drv.swap = "no"
    BY <1>1, <1>2, <2>1 DEF IInv, ReadKept
  <2>4. image' = image
    BY <1>3, <1>5, <2>1
  <2> DEFINE p == IF card.present THEN n + 1 ELSE n
  <2>5. p \in {n, n + 1} /\ IF p = n THEN out = 255 ELSE n = m /\ out = image[CardAddress + m]
    BY <1>3, <1>5, <2>1, <2>2
  <2>6. p \in 0 .. m + 1 /\ (card.present => p = m + 1)
    BY <1>2, <2>2
  <2> HIDE DEF p
  <2>7. Append(drv.got, out) = Seen(image, CardAddress, p, m + 1)
    <3>1. drv.got \in Seq(Int) /\ Len(drv.got) = m /\ m \in Nat /\ CardAddress \in Nat /\ out \in Int
      BY <1>2, <1>3, AddressIs DEF m
    <3>2. PICK k \in Nat, g \in Seq(Int), x \in Int, a \in Nat, z \in Nat :
            k = m /\ g = drv.got /\ x = out /\ a = CardAddress /\ z = a + k
      BY <3>1
    <3>3. n \in 0 .. k /\ Len(g) = k /\ g = Seen(image, a, n, k)
      BY <2>2, <3>1, <3>2
    <3>4. CASE p = n
      <4>1. Append(g, 255) = Seen(image, a, n, k + 1)
        BY <3>3, SeenIdle
      <4>2. QED
        BY <2>5, <3>2, <3>4, <4>1
    <3>5. CASE p # n
      <4>1. p = k + 1 /\ n = k /\ image[z] = x
        BY <2>5, <3>2, <3>5
      <4>2. Append(g, x) = Seen(image, a, k + 1, k + 1)
        BY <3>2, <3>3, <4>1, SeenByte
      <4>3. QED
        BY <3>2, <4>1, <4>2
    <3>6. QED
      BY <3>4, <3>5
  <2>8. drv'.got = Seen(image', CardAddress', p, Len(drv'.got)) /\ p \in 0 .. Len(drv'.got)
        /\ (card.present => p = Len(drv'.got))
    BY <1>4, <1>c, <2>4, <2>6, <2>7, AddressStays
  <2>9. QED
    BY <1>2, <1>3, <1>4, <2>3, <2>8 DEF ReadKept, Stays
<1>11. QED
  BY <1>6, <1>7, <1>8, <1>9, <1>10 DEF IInv

\* The two bytes after the block, with which the read succeeds.
LEMMA GetCrcStep == IInv /\ GetCrc => IInv'
<1> SUFFICES ASSUME IInv, GetCrc
             PROVE  IInv'
  OBVIOUS
<1>1. /\ drv.pc = "crc" /\ Shifted(255)
      /\ drv' = IF drv.i = 0 THEN [drv EXCEPT !.i = 1] ELSE Done(drv, "ok")
  BY DEF GetCrc, Shift, Shifted
<1>2. /\ SdTyped /\ drv \in DrvType /\ card \in CardType /\ OnCourse /\ 255 \in Nat /\ drv.pc \in Running
      /\ drv.op = "read" /\ drv.result = "none" /\ drv.ready /\ drv.i \in 0 .. 1 /\ Len(drv.got) = BlockLen
  BY <1>1 DEF IInv, SdTyped, Running, OnCourse
<1>3. /\ card' \in CardType /\ (card'.present => card'.status # "none") /\ image' \in Bytes
      /\ card'.present = card.present /\ card'.enable = card.enable
      /\ ~card.present => card' = card /\ image' = image
      /\ card.status # "S_WRITE" => image' = image
      /\ card.present /\ card.enable => Exchange(255) = Transfer(card, 255)
  BY <1>1, <1>2, ShiftedIs
<1>a. card' = Exchange(255).card
  BY <1>1 DEF Shifted
<1>4. /\ drv' \in DrvType /\ Stays(drv', drv) /\ drv'.frame = drv.frame /\ drv'.ready = drv.ready /\ drv'.got = drv.got
      /\ \/ drv.i = 0 /\ drv'.i = 1 /\ drv'.pc = "crc" /\ drv'.result = "none"
         \/ drv'.pc = "stop" /\ drv'.result = "ok"
  <2>1. CASE drv.i = 0
    <3>1. drv' = [drv EXCEPT !.i = 1] /\ 1 \in Nat /\ drv.pc = "crc" /\ drv.result = "none"
      BY <1>1, <1>2, <2>1
    <3>2. drv' \in DrvType
      BY <1>2, <3>1 DEF DrvType
    <3>3. Stays(drv', drv) /\ drv'.frame = drv.frame /\ drv'.ready = drv.ready /\ drv'.got = drv.got
          /\ drv'.i = 1 /\ drv'.pc = drv.pc /\ drv'.result = drv.result
      BY <1>2, <3>1 DEF DrvType, Stays
    <3>4. QED
      BY <2>1, <3>1, <3>2, <3>3
  <2>2. CASE drv.i # 0
    BY <1>1, <1>2, <2>2, DoneIs
  <2>3. QED
    BY <2>1, <2>2
<1>5. ~drv.upset /\ card.present =>
        /\ card'.enable /\ card'.status = "S_READ" /\ card'.count = BlockLen + 2 + drv.i
        /\ card'.len = card.len /\ image' = image
  <2> SUFFICES ASSUME ~drv.upset, card.present
               PROVE  /\ card'.enable /\ card'.status = "S_READ" /\ card'.count = BlockLen + 2 + drv.i
                      /\ card'.len = card.len /\ image' = image
    OBVIOUS
  <2>1. card.enable /\ card.status = "S_READ" /\ card.count = BlockLen + 1 + drv.i /\ card.len = BlockLen
    BY <1>1, <1>2 DEF IInv, InStep, Agreed
  <2>2. card.count \in card.len + 1 .. card.len + 2
    BY <1>2, <2>1
  <2>3. card' = Transfer(card, 255).card
    BY <1>3, <1>a, <2>1
  <2>4. card'.status = "S_READ" /\ card'.count = card.count + 1 /\ Keeps(card', card)
    BY <1>2, <2>1, <2>2, <2>3, ReadCrc
  <2>5. QED
    BY <1>2, <1>3, <2>1, <2>4 DEF Keeps
<1>6. SdTyped'
  BY <1>3, <1>4 DEF SdTyped
<1>7. OnCourse'
  <2>1. CardAddress' = CardAddress
    BY <1>4 DEF Stays, CardAddress
  <2>2. /\ drv'.pc \in {"crc", "stop"} /\ drv'.ready /\ drv'.op = "read"
        /\ drv'.pc = "crc" => drv'.result = "none" /\ drv'.i \in 0 .. 1 /\ Len(drv'.got) = BlockLen
    BY <1>2, <1>4 DEF Stays
  <2>3. drv'.pc = "crc" => drv'.frame = Frame(ReadSingle, CardAddress)
    BY <1>2, <1>4 DEF OnCourse
  <2>4. QED
    BY <2>1, <2>2, <2>3 DEF OnCourse, Running
<1>8. InStep'
  <2>1. SUFFICES ASSUME ~drv.upset
                 PROVE  InStep'
    BY <1>4 DEF InStep, Stays
  <2>2. card'.len = BlockLen
    BY <1>2, <1>3, <1>5, <2>1 DEF IInv, InStep
  <2>3. card.present => Agreed(card', drv')
    BY <1>2, <1>4, <1>5, <2>1 DEF Agreed, Running
  <2>4. QED
    BY <1>3, <1>4, <2>2, <2>3 DEF InStep
<1>9. WriteKept'
  BY <1>2, <1>4 DEF WriteKept, Stays
<1>10. ReadKept'
  <2>1. SUFFICES ASSUME ~drv.upset
                 PROVE  ReadKept'
    BY <1>4 DEF ReadKept, Stays
  <2>2. PICK n \in 0 .. Len(drv.got) :
          /\ drv.got = Seen(image, CardAddress, n, Len(drv.got))
          /\ drv.swap = "no" => n = Len(drv.got)
    BY <1>2, <2>1 DEF IInv, ReadKept
  <2>3. /\ drv.swap = "no" => card.present
        /\ card.present /\ drv.swap # "inserted" => drv.swap = "no"
    BY <1>1, <1>2, <2>1 DEF IInv, ReadKept
  <2>4. image' = image
    BY <1>3, <1>5, <2>1
  <2>5. drv'.got = Seen(image', CardAddress', n, Len(drv'.got)) /\ n \in 0 .. Len(drv'.got)
        /\ (drv'.swap = "no" => n = Len(drv'.got))
    BY <1>4, <2>2, <2>4, AddressStays DEF Stays
  <2>6. card'.present /\ drv'.pc = "data" => n = Len(drv'.got)
    BY <1>4
  <2>7. QED
    BY <1>2, <1>3, <1>4, <2>3, <2>5, <2>6 DEF ReadKept, Stays
<1>11. QED
  BY <1>6, <1>7, <1>8, <1>9, <1>10 DEF IInv

\* Eight clocks and the data token: nothing is stored yet.
LEMMA GapStep == IInv /\ (Gap \/ Mark) => IInv'
<1> SUFFICES ASSUME IInv, Gap \/ Mark
             PROVE  IInv'
  OBVIOUS
<1>1. PICK in \in {254, 255} :
        /\ Shifted(in)
        /\ \/ drv.pc = "gap" /\ drv' = [drv EXCEPT !.pc = "mark"]
           \/ drv.pc = "mark" /\ drv' = [drv EXCEPT !.pc = "put", !.i = 1] /\ in = 254
  BY DEF Gap, Mark, Shift, Shifted
<1>2. /\ SdTyped /\ drv \in DrvType /\ card \in CardType /\ OnCourse /\ in \in Nat /\ drv.pc \in Running
      /\ drv.op = "write" /\ drv.result = "none" /\ drv.ready /\ drv.pc \in {"gap", "mark"}
  BY <1>1 DEF IInv, SdTyped, Running, OnCourse
<1>3. /\ card' \in CardType /\ (card'.present => card'.status # "none") /\ image' \in Bytes
      /\ card'.present = card.present /\ card'.enable = card.enable
      /\ ~card.present => card' = card /\ image' = image
      /\ card.present /\ card.enable => Exchange(in) = Transfer(card, in)
  BY <1>1, <1>2, ShiftedIs
<1>a. /\ card' = Exchange(in).card
      /\ image' = IF Exchange(in).put /\ card.pos < Size THEN [image EXCEPT ![card.pos] = in] ELSE image
  BY <1>1 DEF Shifted
<1>4. /\ drv' \in DrvType /\ Stays(drv', drv) /\ drv'.frame = drv.frame /\ drv'.ready = drv.ready
      /\ drv'.got = drv.got /\ drv'.result = drv.result
      /\ \/ drv.pc = "gap" /\ drv'.pc = "mark"
         \/ drv.pc = "mark" /\ drv'.pc = "put" /\ drv'.i = 1
  <2>1. {"mark", "put"} \subseteq Running \cup {"idle", "start", "stop"} /\ 1 \in Nat
    BY DEF Running
  <2>2. CASE drv.pc = "gap"
    <3>1. drv' = [drv EXCEPT !.pc = "mark"] /\ drv \in DrvType
      BY <1>1, <1>2, <2>2
    <3>2. drv' \in DrvType
      BY <2>1, <3>1 DEF DrvType
    <3>3. Stays(drv', drv) /\ drv'.frame = drv.frame /\ drv'.ready = drv.ready
          /\ drv'.got = drv.got /\ drv'.result = drv.result /\ drv'.pc = "mark"
      BY <3>1 DEF DrvType, Stays
    <3>4. QED
      BY <2>2, <3>2, <3>3
  <2>3. CASE drv.pc = "mark"
    <3>1. drv' = [drv EXCEPT !.pc = "put", !.i = 1] /\ drv \in DrvType
      BY <1>1, <1>2, <2>3
    <3>2. drv' \in DrvType
      BY <2>1, <3>1 DEF DrvType
    <3>3. Stays(drv', drv) /\ drv'.frame = drv.frame /\ drv'.ready = drv.ready
          /\ drv'.got = drv.got /\ drv'.result = drv.result /\ drv'.pc = "put" /\ drv'.i = 1
      BY <3>1 DEF DrvType, Stays
    <3>4. QED
      BY <2>3, <3>2, <3>3
  <2>4. QED
    BY <1>2, <2>2, <2>3
\* A card that is in step counts the byte and the token.
<1>5. ~drv.upset /\ card.present =>
        /\ card'.enable /\ card'.status = "S_WRITE" /\ card'.pos = CardAddress /\ card'.len = card.len /\ image' = image
        /\ drv.pc = "gap" => card'.count = 1
        /\ drv.pc = "mark" => card'.count = 2
  <2> SUFFICES ASSUME ~drv.upset, card.present
               PROVE  /\ card'.enable /\ card'.status = "S_WRITE" /\ card'.pos = CardAddress
                      /\ card'.len = card.len /\ image' = image
                      /\ drv.pc = "gap" => card'.count = 1
                      /\ drv.pc = "mark" => card'.count = 2
    OBVIOUS
  <2>1. /\ card.enable /\ card.status = "S_WRITE" /\ card.pos = CardAddress /\ card.len \in Nat \ {0}
        /\ drv.pc = "gap" => card.count = 0
        /\ drv.pc = "mark" => card.count = 1
    BY <1>2 DEF IInv, InStep, Agreed, CardAddress
  <2>2. card.count = 0 \/ (card.count = 1 /\ in = 254)
    BY <1>1, <2>1
  <2>3. ~Transfer(card, in).put /\ card' = Transfer(card, in).card /\ card'.status = "S_WRITE"
        /\ card'.count = card.count + 1 /\ Keeps(card', card)
    BY <1>2, <1>3, <1>a, <2>1, <2>2, WriteGap
  <2>4. image' = image
    BY <1>3, <1>a, <2>1, <2>3
  <2>5. QED
    BY <1>2, <1>3, <2>1, <2>3, <2>4 DEF Keeps
<1>c. ~drv.upset => image' = image
  BY <1>3, <1>5
<1>6. SdTyped'
  BY <1>3, <1>4 DEF SdTyped
<1>7. OnCourse'
  <2>1. CardAddress' = CardAddress
    BY <1>4, AddressStays
  <2>2. drv'.pc = "put" => drv'.i \in 1 .. BlockLen + 2
    BY <1>4
  <2>3. QED
    BY <1>2, <1>4, <2>1, <2>2 DEF OnCourse, Stays, Running
<1>8. InStep'
  <2>1. SUFFICES ASSUME ~drv.upset
                 PROVE  InStep'
    BY <1>4 DEF InStep, Stays
  <2>2. card'.len = BlockLen
    BY <1>2, <1>3, <1>5, <2>1 DEF IInv, InStep
  <2>3. ASSUME card.present
        PROVE  Agreed(card', drv')
    <3>1. drv'.blk * BlockLen = CardAddress /\ CardAddress \in Nat
      BY <1>2, <1>4, AddressIs DEF CardAddress, Stays
    <3>2. CASE drv.pc = "gap"
      BY <1>2, <1>4, <1>5, <2>1, <2>3, <3>1, <3>2 DEF Agreed, Running
    <3>3. CASE drv.pc = "mark"
      <4>1. drv'.pc = "put" /\ drv'.i = 1 /\ card'.count = 2 /\ card'.pos = CardAddress /\ card'.status = "S_WRITE"
            /\ card'.enable
        BY <1>4, <1>5, <2>1, <2>3, <3>3
      <4>2. Least(drv'.i - 1, BlockLen) = 0
        BY <4>1 DEF Least
      <4>3. card'.count = drv'.i + 1 /\ card'.pos = drv'.blk * BlockLen + Least(drv'.i - 1, BlockLen)
        BY <3>1, <4>1, <4>2
      <4>4. QED
        BY <4>1, <4>3 DEF Agreed, Running
    <3>4. QED
      BY <1>2, <3>2, <3>3
  <2>4. QED
    BY <1>3, <1>4, <2>2, <2>3 DEF InStep
<1>9. WriteKept'
  <2>1. SUFFICES ASSUME ~drv.upset
                 PROVE  WriteKept'
    BY <1>4 DEF WriteKept, Stays
  <2>2. PICK n \in 0 .. BlockLen :
          image = Filled(drv.before, CardAddress, drv.data, n) /\ (card.present => n = 0)
    BY <1>2, <2>1 DEF IInv, WriteKept
  <2>3. image' = Filled(drv'.before, CardAddress', drv'.data, n)
    BY <1>4, <1>c, <2>1, <2>2, AddressStays DEF Stays
  <2>4. drv'.pc = "put" => Least(drv'.i - 1, BlockLen) = 0
    BY <1>4 DEF Least
  <2>5. /\ drv'.result # "ok" /\ drv'.pc \notin {"start", "accept"}
        /\ card'.present => n = 0
    BY <1>2, <1>3, <1>4, <2>2
  <2>6. QED
    BY <2>3, <2>4, <2>5 DEF WriteKept
<1>10. ReadKept'
  BY <1>2, <1>4 DEF ReadKept, Stays
<1>11. QED
  BY <1>6, <1>7, <1>8, <1>9, <1>10 DEF IInv

\* A byte of the block is stored at its place; then two bytes that are not.
LEMMA PutDataStep == IInv /\ PutData => IInv'
<1> SUFFICES ASSUME IInv, PutData
             PROVE  IInv'
  OBVIOUS
<1> DEFINE in == IF drv.i <= BlockLen THEN drv.data[drv.i] ELSE 255
<1>1. /\ drv.pc = "put" /\ Shifted(in)
      /\ drv' = [drv EXCEPT !.i = @ + 1, !.pc = IF drv.i < BlockLen + 2 THEN "put" ELSE "accept"]
  BY DEF PutData, Shift, Shifted
<1>2. /\ SdTyped /\ drv \in DrvType /\ card \in CardType /\ image \in Bytes /\ OnCourse /\ drv.pc \in Running
      /\ drv.op = "write" /\ drv.result = "none" /\ drv.ready /\ drv.i \in 1 .. BlockLen + 2
      /\ drv.data \in Payloads /\ drv.before \in Bytes
  BY <1>1 DEF IInv, SdTyped, DrvType, Running, OnCourse
<1>b. in \in Nat
  <2>1. drv.data \in [1 .. BlockLen -> Nat]
    BY <1>2
  <2>2. QED
    BY <1>2, <2>1
<1> HIDE DEF in
<1>3. /\ card' \in CardType /\ (card'.present => card'.status # "none") /\ image' \in Bytes
      /\ card'.present = card.present /\ card'.enable = card.enable
      /\ ~card.present => card' = card /\ image' = image
      /\ card.present /\ card.enable => Exchange(in) = Transfer(card, in)
  BY <1>1, <1>2, <1>b, ShiftedIs
<1>a. /\ card' = Exchange(in).card
      /\ image' = IF Exchange(in).put /\ card.pos < Size THEN [image EXCEPT ![card.pos] = in] ELSE image
  BY <1>1 DEF Shifted
<1>4. /\ drv' \in DrvType /\ Stays(drv', drv) /\ drv'.frame = drv.frame /\ drv'.ready = drv.ready
      /\ drv'.got = drv.got /\ drv'.result = drv.result /\ drv'.i = drv.i + 1
      /\ drv'.pc = IF drv.i < BlockLen + 2 THEN "put" ELSE "accept"
  <2>1. PICK m \in Nat, p \in Running : m = drv.i + 1 /\ p = IF drv.i < BlockLen + 2 THEN "put" ELSE "accept"
    BY <1>2 DEF Running
  <2>2. drv' = [drv EXCEPT !.pc = p, !.i = m]
    BY <1>1, <2>1
  <2>3. /\ drv' \in DrvType /\ Stays(drv', drv) /\ drv'.frame = drv.frame /\ drv'.ready = drv.ready
        /\ drv'.got = drv.got /\ drv'.result = drv.result /\ drv'.i = m /\ drv'.pc = p
    <3>1. drv \in DrvType
      BY <1>2
    <3>2. [drv EXCEPT !.pc = p, !.i = m] \in DrvType
      BY <3>1 DEF DrvType
    <3>3. QED
      BY <2>2, <3>1, <3>2 DEF DrvType, Stays
  <2>4. QED
    BY <2>1, <2>3, Zenon
<1>d. (drv.i < BlockLen + 2 /\ drv'.pc = "put") \/ (drv.i = BlockLen + 2 /\ drv'.pc = "accept")
  BY <1>2, <1>4
\* A card that is in step stores the bytes of the block and passes over two more.
<1>5. ~drv.upset /\ card.present =>
        /\ card'.enable /\ card'.status = "S_WRITE" /\ card'.len = card.len /\ card'.count = drv.i + 2
        /\ drv.i <= BlockLen => /\ image' = [image EXCEPT ![CardAddress + (drv.i - 1)] = drv.data[drv.i]]
                                /\ card'.pos = CardAddress + drv.i
        /\ drv.i > BlockLen => image' = image /\ card'.pos = CardAddress + BlockLen
  <2> SUFFICES ASSUME ~drv.upset, card.present
               PROVE  /\ card'.enable /\ card'.status = "S_WRITE" /\ card'.len = card.len /\ card'.count = drv.i + 2
                      /\ drv.i <= BlockLen => /\ image' = [image EXCEPT ![CardAddress + (drv.i - 1)] = drv.data[drv.i]]
                                              /\ card'.pos = CardAddress + drv.i
                      /\ drv.i > BlockLen => image' = image /\ card'.pos = CardAddress + BlockLen
    OBVIOUS
  <2>1. /\ card.enable /\ card.status = "S_WRITE" /\ card.len = BlockLen
        /\ card.count = drv.i + 1 /\ card.pos = CardAddress + Least(drv.i - 1, BlockLen)
    BY <1>1, <1>2 DEF IInv, InStep, Agreed, CardAddress
  <2>2. CardAddress \in Nat /\ CardAddress + BlockLen <= Size /\ Size \in Nat
    BY <1>2, AddressIs
  <2>3. CASE drv.i <= BlockLen
    <3>1. card.count \in 2 .. card.len + 1 /\ card.pos = CardAddress + (drv.i - 1)
      BY <1>2, <2>1, <2>3 DEF Least
    <3>0. card' = Transfer(card, in).card
      BY <1>3, <1>a, <2>1
    <3>a. card \in CardType /\ card.status = "S_WRITE" /\ in \in Nat
      BY <1>2, <1>b, <2>1
    <3>2. /\ Transfer(card, in).put /\ card' = Transfer(card, in).card /\ card'.status = "S_WRITE"
          /\ card'.count = card.count + 1 /\ card'.len = card.len /\ card'.pos = card.pos + 1
      BY <3>0, <3>a, <3>1, WriteByte
    <3>3. card.pos < Size
      BY <1>2, <2>2, <2>3, <3>1
    <3>4. image' = [image EXCEPT ![card.pos] = in]
      BY <1>3, <1>a, <2>1, <3>2, <3>3
    <3>5. in = drv.data[drv.i]
      BY <2>3 DEF in
    <3>6. card'.pos = CardAddress + drv.i /\ card'.count = drv.i + 2
      BY <1>2, <2>1, <2>2, <3>1, <3>2
    <3>7. QED
      BY <1>2, <1>3, <2>1, <2>3, <3>1, <3>2, <3>4, <3>5, <3>6
  <2>4. CASE drv.i > BlockLen
    <3>1. card.count \in card.len + 2 .. card.len + 3 /\ card.pos = CardAddress + BlockLen
      BY <1>2, <2>1, <2>4 DEF Least
    <3>2. /\ ~Transfer(card, in).put /\ card' = Transfer(card, in).card /\ card'.status = "S_WRITE"
          /\ card'.count = card.count + 1 /\ Keeps(card', card)
      BY <1>2, <1>3, <1>a, <1>b, <2>1, <3>1, WriteCrc
    <3>3. image' = image
      BY <1>3, <1>a, <2>1, <3>2
    <3>4. QED
      BY <1>2, <1>3, <2>1, <2>4, <3>1, <3>2, <3>3 DEF Keeps
  <2>5. QED
    BY <1>2, <2>3, <2>4
<1>6. SdTyped'
  BY <1>3, <1>4 DEF SdTyped
<1>7. OnCourse'
  <2>1. CardAddress' = CardAddress
    BY <1>4, AddressStays
  <2>2. drv'.pc = "put" => drv'.i \in 1 .. BlockLen + 2
    BY <1>2, <1>4, <1>d
  <2>3. QED
    BY <1>2, <1>4, <1>d, <2>1, <2>2 DEF OnCourse, Stays, Running
<1>8. InStep'
  <2>1. SUFFICES ASSUME ~drv.upset
                 PROVE  InStep'
    BY <1>4 DEF InStep, Stays
  <2>2. card'.len = BlockLen
    BY <1>2, <1>3, <1>5, <2>1 DEF IInv, InStep
  <2>3. ASSUME card.present
        PROVE  Agreed(card', drv')
    <3>1. drv'.blk * BlockLen = CardAddress /\ CardAddress \in Nat
      BY <1>2, <1>4, AddressIs DEF CardAddress, Stays
    <3>2. /\ card'.enable /\ card'.status = "S_WRITE" /\ card'.count = drv.i + 2
          /\ card'.pos = CardAddress + Least(drv.i, BlockLen)
      BY <1>2, <1>5, <2>1, <2>3, <3>1 DEF Least
    <3>3. CASE drv.i < BlockLen + 2
      <4>1. drv'.pc = "put" /\ card'.count = drv'.i + 1 /\ drv'.i - 1 = drv.i
        BY <1>2, <1>4, <3>2, <3>3
      <4>2. card'.pos = drv'.blk * BlockLen + Least(drv'.i - 1, BlockLen)
        BY <3>1, <3>2, <4>1
      <4>3. QED
        BY <3>2, <4>1, <4>2 DEF Agreed, Running
    <3>4. CASE ~(drv.i < BlockLen + 2)
      <4>1. drv'.pc = "accept" /\ card'.count = BlockLen + 4
        BY <1>2, <1>d, <3>2, <3>4
      <4>2. QED
        BY <3>2, <4>1 DEF Agreed, Running
    <3>5. QED
      BY <3>3, <3>4
  <2>4. QED
    BY <1>3, <1>d, <2>2, <2>3 DEF InStep
<1>9. WriteKept'
  <2>1. SUFFICES ASSUME ~drv.upset
                 PROVE  WriteKept'
    BY <1>4 DEF WriteKept, Stays
  <2>2. PICK n \in 0 .. BlockLen :
          image = Filled(drv.before, CardAddress, drv.data, n) /\ (card.present => n = Least(drv.i - 1, BlockLen))
    BY <1>1, <1>2, <2>1 DEF IInv, WriteKept
  <2>3. PICK p \in 0 .. BlockLen :
          image' = Filled(drv.before, CardAddress, drv.data, p) /\ (card.present => p = Least(drv.i, BlockLen))
    <3>1. CASE ~card.present
      BY <1>3, <2>2, <3>1
    <3>2. CASE card.present /\ drv.i <= BlockLen
      <4>1. n = drv.i - 1 /\ Least(drv.i, BlockLen) = drv.i /\ drv.i \in 0 .. BlockLen
        BY <1>2, <2>2, <3>2 DEF Least
      <4>2. CardAddress \in Nat /\ CardAddress + BlockLen <= Size
        BY <1>2, AddressIs
      <4>3. PICK j \in 1 .. BlockLen : j = drv.i
        BY <1>2, <3>2
      <4>4. image = Filled(drv.before, CardAddress, drv.data, j - 1)
        BY <2>2, <4>1, <4>3
      <4>5. image' = [image EXCEPT ![CardAddress + (j - 1)] = drv.data[j]]
        BY <1>5, <2>1, <3>2, <4>3
      <4>6. image' = Filled(drv.before, CardAddress, drv.data, j)
        <5>1. PICK at \in Nat, a \in Nat : at = a + (j - 1) /\ a = CardAddress
          BY <4>2
        <5>2. PICK x, im : x = drv.data[j] /\ im = image
          OBVIOUS
        <5>3. im = Filled(drv.before, a, drv.data, j - 1) /\ image' = [im EXCEPT ![at] = x] /\ a + BlockLen <= Size
          BY <4>2, <4>4, <4>5, <5>1, <5>2
        <5>4. image' = Filled(drv.before, a, drv.data, j)
          BY <1>2, <5>1, <5>2, <5>3, FilledNext
        <5>5. QED
          BY <5>1, <5>4
      <4>7. QED
        BY <4>1, <4>3, <4>6
    <3>3. CASE card.present /\ drv.i > BlockLen
      <4>1. n = BlockLen /\ Least(drv.i, BlockLen) = BlockLen
        BY <1>2, <2>2, <3>3 DEF Least
      <4>2. QED
        BY <1>5, <2>1, <2>2, <3>3, <4>1
    <3>4. QED
      BY <1>2, <3>1, <3>2, <3>3
  <2>4. image' = Filled(drv'.before, CardAddress', drv'.data, p)
    BY <1>4, <2>3, AddressStays DEF Stays
  <2>5. card'.present /\ drv'.pc = "put" => p = Least(drv'.i - 1, BlockLen)
    <3>1. drv'.i - 1 = drv.i
      BY <1>2, <1>4
    <3>2. QED
      BY <1>3, <2>3, <3>1
  <2>6. card'.present /\ drv'.pc = "accept" => p = BlockLen
    BY <1>2, <1>3, <1>d, <2>3 DEF Least
  <2>7. drv'.result # "ok" /\ drv'.pc \in {"put", "accept"}
    BY <1>2, <1>4, <1>d
  <2>8. QED
    BY <2>4, <2>5, <2>6, <2>7 DEF WriteKept
<1>10. ReadKept'
  BY <1>2, <1>4 DEF ReadKept, Stays
<1>11. QED
  BY <1>6, <1>7, <1>8, <1>9, <1>10 DEF IInv

\* The card tells whether it has the block; no card, no success.
LEMMA AcceptStep == IInv /\ Accept => IInv'
<1> SUFFICES ASSUME IInv, Accept
             PROVE  IInv'
  OBVIOUS
<1> DEFINE out == Exchange(255).out
           result == IF out % 32 = 5 THEN "ok" ELSE "error"
<1>1. drv.pc = "accept" /\ Shifted(255) /\ drv' = Done(drv, result)
  BY DEF Accept, Shift, Shifted
<1>2. /\ SdTyped /\ drv \in DrvType /\ card \in CardType /\ OnCourse /\ 255 \in Nat /\ drv.pc \in Running
      /\ drv.op = "write" /\ drv.result = "none" /\ drv.ready
  BY <1>1 DEF IInv, SdTyped, Running, OnCourse
<1>3. /\ out \in Int /\ card' \in CardType /\ (card'.present => card'.status # "none") /\ image' \in Bytes
      /\ card'.present = card.present /\ card'.enable = card.enable
      /\ ~card.present => card' = card /\ image' = image /\ out = 255
      /\ card.present /\ card.enable => Exchange(255) = Transfer(card, 255)
  BY <1>1, <1>2, ShiftedIs
<1>a. /\ card' = Exchange(255).card
      /\ image' = IF Exchange(255).put /\ card.pos < Size THEN [image EXCEPT ![card.pos] = 255] ELSE image
  BY <1>1 DEF Shifted
<1> HIDE DEF out
<1>b. result \in {"ok", "error"} /\ (out = 255 => result = "error")
  OBVIOUS
<1> HIDE DEF result
<1>4. /\ drv' \in DrvType /\ Stays(drv', drv) /\ drv'.pc = "stop" /\ drv'.ready = drv.ready
      /\ drv'.got = drv.got /\ drv'.result = result
  BY <1>1, <1>2, <1>b, DoneIs
<1>5. ~drv.upset => card'.len = card.len /\ image' = image
  <2> SUFFICES ASSUME ~drv.upset, card.present
               PROVE  card'.len = card.len /\ image' = image
    BY <1>3
  <2>1. card.enable /\ card.status = "S_WRITE" /\ card.len = BlockLen /\ card.count = BlockLen + 4
    BY <1>1, <1>2 DEF IInv, InStep, Agreed
  <2>2. ~Transfer(card, 255).put /\ Transfer(card, 255).card.len = card.len
    BY <1>2, <2>1, WriteAccept
  <2>3. QED
    BY <1>3, <1>a, <2>1, <2>2
<1>6. SdTyped'
  BY <1>3, <1>4 DEF SdTyped
<1>7. OnCourse'
  BY <1>2, <1>4 DEF OnCourse, Stays, Running
<1>8. InStep'
  BY <1>2, <1>4, <1>5 DEF IInv, InStep, Agreed, Stays, Running
<1>9. WriteKept'
  <2>1. SUFFICES ASSUME ~drv.upset
                 PROVE  WriteKept'
    BY <1>4 DEF WriteKept, Stays
  <2>2. PICK n \in 0 .. BlockLen :
          image = Filled(drv.before, CardAddress, drv.data, n) /\ (card.present => n = BlockLen)
    BY <1>1, <1>2, <2>1 DEF IInv, WriteKept
  <2>3. image' = Filled(drv'.before, CardAddress', drv'.data, n)
    BY <1>4, <1>5, <2>1, <2>2, AddressStays DEF Stays
  <2>4. drv'.result = "ok" => n = BlockLen
    BY <1>3, <1>4, <1>b, <2>2
  <2>5. QED
    BY <1>4, <2>3, <2>4 DEF WriteKept, Running
<1>10. ReadKept'
  BY <1>2, <1>4 DEF ReadKept, Stays
<1>11. QED
  BY <1>6, <1>7, <1>8, <1>9, <1>10 DEF IInv

\* The card is deselected and the call returns.
LEMMA StopStep == IInv /\ Stop => IInv'
<1> SUFFICES ASSUME IInv, Stop
             PROVE  IInv'
  OBVIOUS
<1>1. drv.pc = "stop" /\ card' = Disabled(card) /\ drv' = Forget([drv EXCEPT !.pc = "idle"]) /\ image' = image
  BY DEF Stop
<1>2. SdTyped /\ drv \in DrvType /\ card \in CardType /\ OnCourse
  BY DEF IInv, SdTyped
<1>3. /\ card' \in CardType /\ (card'.present => card'.status # "none") /\ card'.present = card.present
      /\ card'.len = card.len /\ (card.present => ~card'.enable)
  <2>1. card.present => card.status # "none"
    BY <1>2 DEF SdTyped
  <2>2. QED
    BY <1>1, <1>2, <2>1 DEF Disabled, CardType
<1>4. /\ drv' \in DrvType /\ Stays(drv', drv) /\ drv'.pc = "idle" /\ drv'.ready = drv.ready
      /\ drv'.got = drv.got /\ drv'.result = drv.result
  <2>1. PICK d : d = [drv EXCEPT !.pc = "idle"]
    OBVIOUS
  <2>2. d \in DrvType /\ Stays(d, drv) /\ d.pc = "idle" /\ d.ready = drv.ready
        /\ d.got = drv.got /\ d.result = drv.result
    BY <1>2, <2>1, PcIs
  <2>3. drv' \in DrvType /\ Stays(drv', d) /\ drv'.pc = d.pc /\ drv'.ready = d.ready
        /\ drv'.got = d.got /\ drv'.result = d.result
    BY <1>1, <2>1, <2>2, ForgetIs
  <2>4. QED
    BY <2>2, <2>3 DEF Stays
<1>5. SdTyped'
  BY <1>1, <1>2, <1>3, <1>4 DEF SdTyped
<1>6. OnCourse'
  BY <1>2, <1>4 DEF OnCourse, Stays, Running
<1>7. InStep'
  BY <1>2, <1>3, <1>4 DEF IInv, InStep, Agreed, Stays, Running
<1>8. WriteKept'
  BY <1>1, <1>3, <1>4, WriteStays DEF IInv, Running
<1>9. ReadKept'
  <2>1. ReadKept /\ image' = image /\ Stays(drv', drv) /\ drv'.got = drv.got /\ card'.present = card.present
        /\ drv'.result = drv.result
    BY <1>1, <1>3, <1>4 DEF IInv
  <2>2. drv'.pc \notin {"data", "crc"}
    BY <1>4
  <2>3. QED
    BY <2>1, <2>2, ReadStays
<1>10. QED
  BY <1>5, <1>6, <1>7, <1>8, <1>9 DEF IInv

\* A card is made; nothing has been called before.
LEMMA CreateStep == IInv /\ Created /\ Create => IInv'
<1> SUFFICES ASSUME IInv, Created, Create
             PROVE  IInv'
  OBVIOUS
<1>1. PICK enable \in BOOLEAN, len \in {0, BlockLen} :
        card' = [card EXCEPT !.status = "IDLE", !.enable = enable, !.len = len]
  BY DEF Create
<1>2. card.status = "none" /\ image' = image /\ drv' = drv
  BY DEF Create
<1>3. SdTyped /\ card \in CardType /\ ~card.present /\ OnCourse /\ drv.pc = "idle" /\ ~drv.ready
  BY <1>2 DEF IInv, SdTyped, Created
<1>4. card' \in CardType /\ ~card'.present
  <2>1. "IDLE" \in Statuses /\ len \in Nat
    BY DEF Statuses
  <2>2. QED
    BY <1>1, <1>3, <2>1 DEF CardType
<1>5. SdTyped'
  BY <1>2, <1>3, <1>4 DEF SdTyped
<1>6. OnCourse'
  BY <1>2, <1>3 DEF OnCourse, Expected, CardAddress, Running
<1>7. InStep'
  BY <1>2, <1>3, <1>4 DEF IInv, InStep
<1>8. WriteKept'
  BY <1>2, <1>3, <1>4, AddressStays, WriteStays DEF IInv, Stays, Running
<1>9. ReadKept'
  <2>1. card'.present = card.present
    BY <1>1, <1>3 DEF CardType
  <2>2. ReadKept /\ image' = image /\ Stays(drv', drv) /\ drv'.got = drv.got /\ drv'.result = drv.result
        /\ drv'.pc \notin {"data", "crc"}
    BY <1>2, <1>3 DEF IInv, Stays
  <2>3. QED
    BY <2>1, <2>2, ReadStays
<1>10. QED
  BY <1>5, <1>6, <1>7, <1>8, <1>9 DEF IInv

\* A card comes in: a call that runs can rely on nothing from here on.
LEMMA InsertStep == IInv /\ Insert => IInv'
<1> SUFFICES ASSUME IInv, Insert
             PROVE  IInv'
  OBVIOUS
<1>1. /\ card.status # "none" /\ ~card.present /\ card' = [card EXCEPT !.present = TRUE, !.status = "IDLE"]
      /\ drv' = [drv EXCEPT !.swap = "inserted", !.upset = @ \/ drv.pc # "idle"] /\ image' = image
  BY DEF Insert
<1>2. SdTyped /\ drv \in DrvType /\ card \in CardType /\ OnCourse
  BY DEF IInv, SdTyped
<1>3. card' \in CardType /\ card'.present /\ card'.status = "IDLE" /\ card'.len = card.len
  <2>1. "IDLE" \in Statuses
    BY DEF Statuses
  <2>2. QED
    BY <1>1, <1>2, <2>1 DEF CardType
<1>4. /\ drv' \in DrvType /\ drv'.swap = "inserted" /\ (drv'.upset <=> drv.upset \/ drv.pc # "idle")
      /\ drv'.pc = drv.pc /\ drv'.op = drv.op /\ drv'.blk = drv.blk /\ drv'.data = drv.data
      /\ drv'.before = drv.before /\ drv'.frame = drv.frame /\ drv'.i = drv.i /\ drv'.e = drv.e
      /\ drv'.got = drv.got /\ drv'.ready = drv.ready /\ drv'.result = drv.result
  <2>1. PICK u \in BOOLEAN : u <=> drv.upset \/ drv.pc # "idle"
    OBVIOUS
  <2>2. u = (drv.upset \/ drv.pc # "idle")
    BY <1>2, <2>1 DEF DrvType
  <2>3. drv' = [drv EXCEPT !.swap = "inserted", !.upset = u]
    BY <1>1, <2>2
  <2>4. drv' \in DrvType
    BY <1>2, <2>3 DEF DrvType
  <2>5. /\ drv'.swap = "inserted" /\ drv'.upset = u
        /\ drv'.pc = drv.pc /\ drv'.op = drv.op /\ drv'.blk = drv.blk /\ drv'.data = drv.data
        /\ drv'.before = drv.before /\ drv'.frame = drv.frame /\ drv'.i = drv.i /\ drv'.e = drv.e
        /\ drv'.got = drv.got /\ drv'.ready = drv.ready /\ drv'.result = drv.result
    BY <1>2, <2>3 DEF DrvType
  <2>6. QED
    BY <2>1, <2>4, <2>5
<1>a. CardAddress' = CardAddress /\ Expected' = Expected
  BY <1>4 DEF CardAddress, Expected
<1>5. SdTyped'
  BY <1>1, <1>2, <1>3, <1>4 DEF SdTyped
<1>6. OnCourse'
  BY <1>2, <1>4, <1>a DEF OnCourse, Running
<1>7. InStep'
  BY <1>1, <1>3, <1>4 DEF IInv, InStep, Agreed, Running
<1>8. WriteKept'
  <2>1. SUFFICES ASSUME drv.op = "write", ~drv.upset, drv.pc = "idle"
                 PROVE  WriteKept'
    BY <1>4 DEF WriteKept
  <2>2. PICK n \in 0 .. BlockLen :
          image = Filled(drv.before, CardAddress, drv.data, n) /\ (drv.result = "ok" => n = BlockLen)
    BY <2>1 DEF IInv, WriteKept
  <2>3. image' = Filled(drv'.before, CardAddress', drv'.data, n) /\ (drv'.result = "ok" => n = BlockLen)
    BY <1>1, <1>4, <1>a, <2>2
  <2>4. QED
    BY <1>4, <2>1, <2>3 DEF WriteKept, Running
<1>9. ReadKept'
  <2>1. SUFFICES ASSUME drv.op = "read", ~drv.upset, drv.pc = "idle"
                 PROVE  ReadKept'
    BY <1>4 DEF ReadKept
  <2>2. PICK n \in 0 .. Len(drv.got) : drv.got = Seen(image, CardAddress, n, Len(drv.got))
    BY <2>1 DEF IInv, ReadKept
  <2>3. drv'.got = Seen(image', CardAddress', n, Len(drv'.got)) /\ n \in 0 .. Len(drv'.got)
    BY <1>1, <1>4, <1>a, <2>2
  <2>4. drv'.result = "ok" => Len(drv'.got) = BlockLen
    BY <1>4, <2>1 DEF IInv, ReadKept
  <2>5. QED
    BY <1>4, <2>1, <2>3, <2>4 DEF ReadKept
<1>10. QED
  BY <1>5, <1>6, <1>7, <1>8, <1>9 DEF IInv

\* A card goes out: what was written stays a first part of the block.
LEMMA EjectStep == IInv /\ Eject => IInv'
<1> SUFFICES ASSUME IInv, Eject
             PROVE  IInv'
  OBVIOUS
<1> DEFINE s == IF drv.swap = "no" THEN "ejected" ELSE drv.swap
<1>1. /\ card.present /\ card' = [card EXCEPT !.present = FALSE] /\ image' = image
      /\ drv' = [drv EXCEPT !.swap = s]
  BY DEF Eject
<1>2. SdTyped /\ drv \in DrvType /\ card \in CardType /\ OnCourse
  BY DEF IInv, SdTyped
<1>3. card' \in CardType /\ ~card'.present /\ card'.len = card.len
  BY <1>1, <1>2 DEF CardType
<1>4. /\ drv' \in DrvType /\ drv'.swap # "no" /\ drv'.upset = drv.upset
      /\ drv'.pc = drv.pc /\ drv'.op = drv.op /\ drv'.blk = drv.blk /\ drv'.data = drv.data
      /\ drv'.before = drv.before /\ drv'.frame = drv.frame /\ drv'.i = drv.i /\ drv'.e = drv.e
      /\ drv'.got = drv.got /\ drv'.ready = drv.ready /\ drv'.result = drv.result
  <2>1. s \in {"inserted", "ejected"}
    BY <1>2 DEF DrvType
  <2> HIDE DEF s
  <2>2. QED
    BY <1>1, <1>2, <2>1 DEF DrvType
<1>a. CardAddress' = CardAddress /\ Expected' = Expected
  BY <1>4 DEF CardAddress, Expected
<1>5. SdTyped'
  BY <1>1, <1>2, <1>3, <1>4 DEF SdTyped
<1>6. OnCourse'
  BY <1>2, <1>4, <1>a DEF OnCourse, Running
<1>7. InStep'
  BY <1>3, <1>4 DEF IInv, InStep
<1>8. WriteKept'
  <2>1. SUFFICES ASSUME drv.op = "write", ~drv.upset
                 PROVE  WriteKept'
    BY <1>4 DEF WriteKept
  <2>2. PICK n \in 0 .. BlockLen :
          image = Filled(drv.before, CardAddress, drv.data, n) /\ (drv.result = "ok" => n = BlockLen)
          /\ (drv.pc = "start" => n = 0)
    BY <2>1 DEF IInv, WriteKept
  <2>3. image' = Filled(drv'.before, CardAddress', drv'.data, n) /\ (drv'.result = "ok" => n = BlockLen)
        /\ (drv'.pc = "start" => n = 0)
    BY <1>1, <1>4, <1>a, <2>2
  <2>4. QED
    BY <1>3, <2>3 DEF WriteKept
<1>9. ReadKept'
  <2>1. SUFFICES ASSUME drv.op = "read", ~drv.upset
                 PROVE  ReadKept'
    BY <1>4 DEF ReadKept
  <2>2. PICK n \in 0 .. Len(drv.got) : drv.got = Seen(image, CardAddress, n, Len(drv.got))
    BY <2>1 DEF IInv, ReadKept
  <2>3. drv'.got = Seen(image', CardAddress', n, Len(drv'.got)) /\ n \in 0 .. Len(drv'.got)
    BY <1>1, <1>4, <1>a, <2>2
  <2>4. drv'.result = "ok" => Len(drv'.got) = BlockLen
    BY <1>4, <2>1 DEF IInv, ReadKept
  <2>5. QED
    BY <1>3, <1>4, <2>3, <2>4 DEF ReadKept
<1>10. QED
  BY <1>5, <1>6, <1>7, <1>8, <1>9 DEF IInv

\* The driver forgets where it was, the card does not.
LEMMA ResetStep == IInv /\ Reset => IInv'
<1> SUFFICES ASSUME IInv, Reset
             PROVE  IInv'
  OBVIOUS
<1>1. /\ drv' = Forget([drv EXCEPT !.pc = "idle", !.ready = FALSE, !.result = "none"])
      /\ card' = card /\ image' = image
  BY DEF Reset
<1>2. SdTyped /\ drv \in DrvType /\ card \in CardType /\ OnCourse
  BY DEF IInv, SdTyped
<1>4. /\ drv' \in DrvType /\ Stays(drv', drv) /\ drv'.pc = "idle" /\ ~drv'.ready
      /\ drv'.got = drv.got /\ drv'.result = "none"
  <2>1. PICK d : d = [drv EXCEPT !.pc = "idle", !.ready = FALSE, !.result = "none"]
    OBVIOUS
  <2>2. d \in DrvType /\ Stays(d, drv) /\ d.pc = "idle" /\ ~d.ready /\ d.got = drv.got /\ d.result = "none"
    BY <1>2, <2>1 DEF DrvType, Stays
  <2>3. drv' \in DrvType /\ Stays(drv', d) /\ drv'.pc = d.pc /\ drv'.ready = d.ready
        /\ drv'.got = d.got /\ drv'.result = d.result
    BY <1>1, <2>1, <2>2, ForgetIs
  <2>4. QED
    BY <2>2, <2>3 DEF Stays
<1>5. SdTyped'
  BY <1>1, <1>2, <1>4 DEF SdTyped
<1>6. OnCourse'
  BY <1>2, <1>4 DEF OnCourse, Stays, Running
<1>7. InStep'
  BY <1>1, <1>4 DEF IInv, InStep, Agreed, Stays, Running
<1>8. WriteKept'
  BY <1>1, <1>4, WriteStays DEF IInv, Running
<1>9. ReadKept'
  <2>1. SUFFICES ASSUME drv.op = "read", ~drv.upset
                 PROVE  ReadKept'
    BY <1>4 DEF ReadKept, Stays
  <2>2. PICK n \in 0 .. Len(drv.got) :
          drv.got = Seen(image, CardAddress, n, Len(drv.got)) /\ (drv.swap = "no" => n = Len(drv.got))
    BY <2>1 DEF IInv, ReadKept
  <2>3. drv'.got = Seen(image', CardAddress', n, Len(drv'.got)) /\ n \in 0 .. Len(drv'.got)
        /\ (drv'.swap = "no" => n = Len(drv'.got))
    BY <1>1, <1>4, <2>2, AddressStays DEF Stays
  <2>4. card'.present /\ drv'.swap # "inserted" => drv'.swap = "no"
    BY <1>1, <1>4, <2>1 DEF IInv, ReadKept, Stays
  <2>5. QED
    BY <1>4, <2>3, <2>4 DEF ReadKept
<1>10. QED
  BY <1>5, <1>6, <1>7, <1>8, <1>9 DEF IInv

\* A call begins: op, blk and data are its own, and nothing of it is done.
LEMMA BeginStep ==
  ASSUME IInv, NEW op \in {"init", "read", "write"}, NEW blk \in 0 .. NumBlocks - 1,
         NEW data \in Payloads \cup {<<>>}, Begin(op, blk, data), op # "init" => drv.ready,
         op = "init" => blk = 0 /\ ~drv.ready, op = "write" => data \in Payloads
  PROVE  IInv'
<1>1. /\ drv.pc = "idle" /\ card' = card /\ image' = image
      /\ drv' = [drv EXCEPT !.op = op, !.blk = blk, !.data = data, !.pc = "start", !.got = <<>>,
                            !.swap = "no", !.upset = @ /\ op # "init", !.result = "none",
                            !.before = image, !.calls = @ + 1]
  BY DEF Begin, Idle
<1>2. SdTyped /\ drv \in DrvType /\ card \in CardType /\ image \in Bytes
  BY DEF IInv, SdTyped
<1>3. /\ drv' \in DrvType /\ drv'.op = op /\ drv'.blk = blk /\ drv'.data = data /\ drv'.pc = "start"
      /\ drv'.got = <<>> /\ drv'.swap = "no" /\ (drv'.upset <=> drv.upset /\ op # "init") /\ drv'.result = "none"
      /\ drv'.before = image /\ drv'.ready = drv.ready
  <2>1. PICK u \in BOOLEAN : u <=> drv.upset /\ op # "init"
    OBVIOUS
  <2>2. u = (drv.upset /\ op # "init")
    BY <1>2, <2>1 DEF DrvType
  <2>3. drv' = [drv EXCEPT !.op = op, !.blk = blk, !.data = data, !.pc = "start", !.got = <<>>,
                            !.swap = "no", !.upset = u, !.result = "none",
                            !.before = image, !.calls = @ + 1]
    BY <1>1, <2>2
  <2>4. "start" \in Running \cup {"idle", "start", "stop"} /\ <<>> \in Seq(Int) /\ drv.calls + 1 \in Nat
    BY <1>2 DEF DrvType
  <2>5. drv' \in DrvType
    BY <1>2, <2>3, <2>4 DEF DrvType
  <2>6. /\ drv'.op = op /\ drv'.blk = blk /\ drv'.data = data /\ drv'.pc = "start"
        /\ drv'.got = <<>> /\ drv'.swap = "no" /\ drv'.upset = u /\ drv'.result = "none"
        /\ drv'.before = image /\ drv'.ready = drv.ready
    BY <1>2, <2>3 DEF DrvType
  <2>7. QED
    BY <2>1, <2>5, <2>6
<1>4. SdTyped'
  BY <1>1, <1>2, <1>3 DEF SdTyped
<1>5. OnCourse'
  BY <1>3 DEF OnCourse, Running
<1>6. InStep'
  <2>1. SUFFICES ASSUME ~drv'.upset
                 PROVE  InStep'
    BY DEF InStep
  <2>2. CASE op = "init"
    BY <1>1, <1>3, <2>1, <2>2 DEF IInv, InStep, Agreed, Running
  <2>3. CASE op # "init"
    BY <1>1, <1>3, <2>1, <2>3 DEF IInv, InStep, Agreed, Running
  <2>4. QED
    BY <2>2, <2>3
<1>7. WriteKept'
  <2>1. CardAddress' \in Nat
    BY <1>4, AddressIs, BlockIsThere, <1>3 DEF CardAddress
  <2>2. image' = Filled(drv'.before, CardAddress', drv'.data, 0)
    BY <1>1, <1>2, <1>3, <2>1, FilledNone
  <2>3. 0 \in 0 .. BlockLen
    OBVIOUS
  <2>4. QED
    BY <1>3, <2>2, <2>3 DEF WriteKept, Running
<1>8. ReadKept'
  <2>1. Len(drv'.got) = 0 /\ drv'.got = Seen(image', CardAddress', 0, 0)
    BY <1>3, SeenNone
  <2>2. QED
    BY <1>3, <2>1 DEF ReadKept
<1>9. QED
  BY <1>4, <1>5, <1>6, <1>7, <1>8 DEF IInv

\* There is a card to talk to from the first call on.
LEMMA CreatedStays == SdTyped /\ OnCourse /\ Created /\ [SdNext]_sdVars => Created'
<1> SUFFICES ASSUME SdTyped, OnCourse, Created, [SdNext]_sdVars
             PROVE  Created'
  OBVIOUS
<1>1. card \in CardType /\ drv \in DrvType
  BY DEF SdTyped
<1>2. ASSUME card.status # "none", card'.status # "none"
      PROVE  Created'
  BY <1>2 DEF Created
<1>3. ASSUME NEW in \in Nat, Shifted(in), drv.pc # "idle"
      PROVE  Created'
  <2>1. (card'.present => card'.status # "none") /\ card'.present = card.present /\ (~card.present => card' = card)
    BY <1>3, ShiftedIs
  <2>2. card.status # "none"
    BY <1>3 DEF Created
  <2>3. card'.status # "none"
    BY <2>1, <2>2, <1>1 DEF CardType
  <2>4. QED
    BY <2>3 DEF Created
<1>4. CASE Create
  <2>1. card'.status = "IDLE"
    BY <1>1, <1>4 DEF Create, CardType
  <2>2. QED
    BY <2>1 DEF Created
<1>5. CASE Insert
  <2>1. card'.status = "IDLE"
    BY <1>1, <1>5 DEF Insert, CardType
  <2>2. QED
    BY <2>1 DEF Created
<1>6. CASE Eject
  <2>1. card'.status = card.status /\ drv'.pc = drv.pc /\ drv'.ready = drv.ready
    BY <1>1, <1>6 DEF Eject, CardType, DrvType
  <2>2. QED
    BY <2>1 DEF Created
<1>7. CASE Reset
  <2>1. drv'.pc = "idle" /\ ~drv'.ready
    BY <1>1, <1>7 DEF Reset, Forget, DrvType
  <2>2. QED
    BY <2>1 DEF Created
<1>8. CASE BeginInit \/ BeginRead \/ BeginWrite
  <2>1. card' = card /\ card.status # "none"
    BY <1>8 DEF BeginInit, BeginRead, BeginWrite, Begin
  <2>2. QED
    BY <2>1 DEF Created
<1>9. CASE Start \/ Stop
  <2>1. drv.pc # "idle"
    BY <1>9 DEF Start, Stop
  <2>2. card.status # "none"
    BY <2>1 DEF Created
  <2>3. Disabled(card) \in CardType /\ Disabled(card).status = card.status
    BY <1>1 DEF Disabled, CardType
  <2>4. \A c \in CardType : Enabled(c).status \in {c.status, "IDLE"}
    BY DEF Enabled, CardType
  <2>5. card'.status # "none"
    BY <1>1, <1>9, <2>2, <2>3, <2>4 DEF Start, Stop
  <2>6. QED
    BY <2>5 DEF Created
<1>10. CASE Busy \/ GetResponse \/ Poll \/ GetData \/ GetCrc \/ Gap \/ Accept
  <2>1. Shifted(255) /\ drv.pc # "idle"
    BY <1>10 DEF Busy, GetResponse, Poll, GetData, GetCrc, Gap, Accept, Shift, Shifted
  <2>2. QED
    BY <1>3, <2>1
<1>11. CASE SendFrame
  <2>1. Shifted(drv.frame[drv.i]) /\ drv.pc = "frame"
    BY <1>11 DEF SendFrame, Shift, Shifted
  <2>2. drv.frame[drv.i] \in Nat
    BY <2>1, FrameHeld DEF OnCourse, Running
  <2>3. QED
    BY <1>3, <2>1, <2>2
<1>12. CASE Mark
  <2>1. Shifted(254) /\ drv.pc # "idle" /\ 254 \in Nat
    BY <1>12 DEF Mark, Shift, Shifted
  <2>2. QED
    BY <1>3, <2>1
<1>13. CASE PutData
  <2>1. Shifted(IF drv.i <= BlockLen THEN drv.data[drv.i] ELSE 255) /\ drv.pc = "put"
    BY <1>13 DEF PutData, Shift, Shifted
  <2>2. drv.data \in [1 .. BlockLen -> Nat] /\ drv.i \in 1 .. BlockLen + 2
    BY <2>1 DEF OnCourse
  <2>3. QED
    BY <1>3, <2>1, <2>2
<1>14. CASE UNCHANGED sdVars
  BY <1>14 DEF sdVars, Created
<1>15. QED
  BY <1>4, <1>5, <1>6, <1>7, <1>8, <1>9, <1>10, <1>11, <1>12, <1>13, <1>14 DEF SdNext, Driver

(* The invariant and what it says. *)

LEMMA Begun == IInv /\ (BeginInit \/ BeginRead \/ BeginWrite) => IInv'
<1> SUFFICES ASSUME IInv, BeginInit \/ BeginRead \/ BeginWrite
             PROVE  IInv'
  OBVIOUS
<1>1. CASE BeginInit
  <2>1. 0 \in 0 .. NumBlocks - 1
    OBVIOUS
  <2>2. Begin("init", 0, <<>>) /\ ~drv.ready
    BY <1>1 DEF BeginInit
  <2>3. QED
    BY <2>1, <2>2, BeginStep
<1>2. CASE BeginRead
  <2>1. PICK blk \in 0 .. NumBlocks - 1 : Begin("read", blk, <<>>) /\ drv.ready
    BY <1>2 DEF BeginRead
  <2>2. QED
    BY <2>1, BeginStep
<1>3. CASE BeginWrite
  <2>1. PICK blk \in 0 .. NumBlocks - 1, p \in Payloads : Begin("write", blk, p) /\ drv.ready
    BY <1>3 DEF BeginWrite
  <2>2. QED
    BY <2>1, BeginStep
<1>4. QED
  BY <1>1, <1>2, <1>3

\* A step that changes nothing.
LEMMA Stuttered == IInv /\ UNCHANGED sdVars => IInv'
BY DEF IInv, sdVars, SdTyped, OnCourse, InStep, WriteKept, ReadKept, Agreed, CardAddress, Expected

\* The machine is switched on.
LEMMA Started == SdInit => IInv /\ Created
<1> SUFFICES ASSUME SdInit
             PROVE  IInv /\ Created
  OBVIOUS
<1>1. Size \in Nat /\ [k \in 0 .. Size - 1 |-> k % 16] \in Bytes
  <2>1. Size \in Nat
    BY BlockIsThere DEF Size
  <2>2. \A k \in 0 .. Size - 1 : k % 16 \in Int
    BY <2>1
  <2>3. QED
    BY <2>1, <2>2 DEF Bytes
<1>2. SdTyped
  BY <1>1 DEF SdInit, SdTyped, CardType, Statuses, DrvType, Running
<1>3. QED
  BY <1>2 DEF SdInit, IInv, Created, OnCourse, InStep, WriteKept, ReadKept, Running

\* In every state card and driver stand where the invariant says: sd_sendCmd,
\* sd_readBlock and sd_writeBlock and the card's card_transfer count the bytes of
\* an exchange alike, whatever the user does to the card between two of them.
THEOREM Exchanges == SdSpec => [](IInv /\ Created)
<1>1. ASSUME IInv, Created, [SdNext]_sdVars
      PROVE  IInv' /\ Created'
  <2>1. Created'
    BY <1>1, CreatedStays DEF IInv
  <2>2. IInv'
    BY <1>1, CreateStep, InsertStep, EjectStep, ResetStep, Begun, StartStep, BusyStep, SendFrameStep,
       GetResponseStep, PollStep, GetDataStep, GetCrcStep, GapStep, PutDataStep, AcceptStep, StopStep, Stuttered
       DEF SdNext, Driver
  <2>3. QED
    BY <2>1, <2>2
<1>2. QED
  BY <1>1, Started, PTL DEF SdSpec

\* sd_writeBlock changes a first part of the block it was given and nothing
\* else, all of it when it reports success, for every length of a block, every
\* payload and every number of tries.
THEOREM SdWritePrefixHolds == SdSpec => []SdWritePrefix
<1>1. IInv => SdWritePrefix
  BY DEF IInv, WriteKept, SdWritePrefix, Filled, InBlock, NewByte
<1>2. QED
  BY <1>1, Exchanges, PTL

\* sd_readBlock returns the block, or a first part of it and then bytes 0xff
\* when the card was ejected under it, for every length of a block.
THEOREM SdReadExactHolds == SdSpec => []SdReadExact
<1>1. IInv => SdReadExact
  <2> SUFFICES ASSUME IInv, drv.op = "read", drv.result # "none", drv.swap # "inserted", ~drv.upset
               PROVE  /\ card.present => drv.result = "ok"
                      /\ drv.result = "ok" =>
                           \E n \in 0 .. BlockLen :
                             /\ drv.swap = "no" => n = BlockLen
                             /\ drv.got = [k \in 1 .. BlockLen |-> IF k <= n THEN image[CardAddress + k - 1] ELSE 255]
    BY DEF SdReadExact
  <2>1. drv.result \in {"ok", "error"}
    BY DEF IInv, SdTyped, DrvType
  <2>2. card.present => drv.result = "ok"
    BY <2>1 DEF IInv, ReadKept
  <2>3. ASSUME drv.result = "ok"
        PROVE  \E n \in 0 .. BlockLen :
                 /\ drv.swap = "no" => n = BlockLen
                 /\ drv.got = [k \in 1 .. BlockLen |-> IF k <= n THEN image[CardAddress + k - 1] ELSE 255]
    <3>1. Len(drv.got) = BlockLen
      BY <2>3 DEF IInv, ReadKept
    <3>2. PICK n \in 0 .. Len(drv.got) :
            drv.got = Seen(image, CardAddress, n, Len(drv.got)) /\ (drv.swap = "no" => n = Len(drv.got))
      BY DEF IInv, ReadKept
    <3>3. drv.got = Seen(image, CardAddress, n, BlockLen) /\ n \in 0 .. BlockLen /\ (drv.swap = "no" => n = BlockLen)
      BY <3>1, <3>2
    <3>4. QED
      BY <3>3 DEF Seen
  <2>4. QED
    BY <2>2, <2>3
<1>2. QED
  BY <1>1, Exchanges, PTL
====
