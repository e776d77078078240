---- MODULE Kbc ----
(* The keyboard controller (system/kbc/kbc.c): an AVR between a PS/2 keyboard,
   whose clock interrupts it at every edge (INT0), and the Z80, which it holds
   with a wait line while it serves an access (INT1). The two routines do not
   interrupt each other; an edge of the clock lasts longer than either. *)
EXTENDS Integers, Sequences

CONSTANTS
  Codes,      \* the codes the keyboard sends, 8 bits
  BusReads,   \* the addresses the Z80 reads
  BusWrites   \* what it writes: pairs of an address and a byte

\* The data line makes bytes of a frame; the Z80 has two address lines.
ASSUME BytesAre ==
  Codes \subseteq 0 .. 255 /\ BusReads \subseteq 0 .. 3 /\ BusWrites \subseteq (0 .. 3) \X (0 .. 255)

VARIABLES
  wire,   \* the keyboard: code and position of its frame, level of the clock
  kbc,    \* the controller: registers and the static variables of INT0
  bus,    \* the access of the Z80 that waits, if any, and what it last read
  seen    \* history: the bits clocked in since bit index 0, and the codes sent

kbcVars == <<wire, kbc, bus, seen>>

Power == [k \in 0 .. 7 |-> <<1, 2, 4, 8, 16, 32, 64, 128>>[k + 1]]
BitOf(code, k) == (code \div Power[k]) % 2
Parity(code) == (1 + BitOf(code, 0) + BitOf(code, 1) + BitOf(code, 2) + BitOf(code, 3)
                   + BitOf(code, 4) + BitOf(code, 5) + BitOf(code, 6) + BitOf(code, 7)) % 2

\* The level of the data line at bit k of the frame of a code.
Level(code, k) ==
  CASE k = 0 -> 0
    [] k \in 1 .. 8 -> BitOf(code, k - 1)
    [] k = 9 -> Parity(code)
    [] k = 10 -> 1

(* The keyboard. *)

KeyPressed ==
  /\ wire.bit = 11
  /\ \E code \in Codes : wire' = [wire EXCEPT !.code = code, !.bit = 0]
  /\ UNCHANGED <<kbc, bus, seen>>

\* An edge of the clock; the last one of a frame is a rising edge.
ClockFalls ==
  /\ wire.bit < 11 /\ wire.clock = 1 /\ ~kbc.int0
  /\ wire' = [wire EXCEPT !.clock = 0]
  /\ kbc' = [kbc EXCEPT !.int0 = kbc.gFallingEdge]
  /\ UNCHANGED <<bus, seen>>

ClockRises ==
  /\ wire.clock = 0 /\ ~kbc.int0
  /\ wire' = [wire EXCEPT !.clock = 1, !.bit = @ + 1]
  /\ kbc' = [kbc EXCEPT !.int0 = ~kbc.gFallingEdge]
  /\ seen' = [seen EXCEPT !.last = IF wire.bit = 10 THEN wire.code ELSE @]
  /\ UNCHANGED bus

(* The interrupt routines. *)

DataPin == IF wire.bit = 11 THEN 1 ELSE Level(wire.code, wire.bit)

Shifted(buffer) == buffer \div 2 + 128 * DataPin

Falling ==
  /\ kbc.int0 /\ kbc.gFallingEdge
  /\ kbc' = [kbc EXCEPT !.int0 = FALSE, !.gFallingEdge = FALSE,
                        !.buffer = IF kbc.gBitIndex \in 1 .. 8 THEN Shifted(@) ELSE @]
  /\ seen' = [seen EXCEPT !.bits = Append(@, DataPin)]
  /\ UNCHANGED <<wire, bus>>

\* Mutant: the packet is taken to end with the parity bit.
Rising_Early ==
  /\ kbc.int0 /\ ~kbc.gFallingEdge
  /\ kbc' = IF kbc.gBitIndex + 1 = 10
            THEN [kbc EXCEPT !.int0 = FALSE, !.gFallingEdge = TRUE, !.gBitIndex = 0,
                             !.buffer = 0, !.outputRegister[0] = kbc.buffer]
            ELSE [kbc EXCEPT !.int0 = FALSE, !.gFallingEdge = TRUE, !.gBitIndex = @ + 1]
  /\ seen' = [seen EXCEPT !.bits = IF Len(@) = 11 THEN <<>> ELSE @]
  /\ UNCHANGED <<wire, bus>>

Rising ==
  /\ kbc.int0 /\ ~kbc.gFallingEdge
  /\ kbc' = IF kbc.gBitIndex + 1 = 11
            THEN [kbc EXCEPT !.int0 = FALSE, !.gFallingEdge = TRUE, !.gBitIndex = 0,
                             !.buffer = 0, !.outputRegister[0] = kbc.buffer]
            ELSE [kbc EXCEPT !.int0 = FALSE, !.gFallingEdge = TRUE, !.gBitIndex = @ + 1]
  /\ seen' = [seen EXCEPT !.bits = IF Len(@) = 11 THEN <<>> ELSE @]
  /\ UNCHANGED <<wire, bus>>

\* "PORTD &= !(1 << WAIT_PIN)" releases the wait line and, with a logical not,
\* clears every other bit of the port: the pull-ups main has enabled go.
Released(k) == [k EXCEPT !.pullups = FALSE]

\* The Z80 waits until INT1 is served; INT0 goes first when both are pending.
ServeRead ==
  /\ bus.wait = "read" /\ ~kbc.int0
  /\ bus' = [wait |-> "no", address |-> bus.address, data |-> kbc.outputRegister[bus.address]]
  /\ kbc' = Released(kbc)
  /\ UNCHANGED <<wire, seen>>

ServeWrite ==
  /\ bus.wait = "write" /\ ~kbc.int0
  /\ bus' = [wait |-> "no", address |-> 0, data |-> 0]
  /\ kbc' = CASE bus.address = 0 -> Released(kbc)
              [] bus.address = 1 -> [Released(kbc) EXCEPT !.outputRegister[1] = bus.data]
              [] bus.address = 2 -> [Released(kbc) EXCEPT !.tccr0b = bus.data % 8]
              [] bus.address = 3 -> [Released(kbc) EXCEPT !.ocr0a = bus.data]
  /\ UNCHANGED <<wire, seen>>

Access ==
  /\ bus.wait = "no"
  /\ \/ \E a \in BusReads : bus' = [wait |-> "read", address |-> a, data |-> 0]
     \/ \E w \in BusWrites : bus' = [wait |-> "write", address |-> w[1], data |-> w[2]]
  /\ UNCHANGED <<wire, kbc, seen>>

Fresh == [buffer |-> 0, gBitIndex |-> 0, gFallingEdge |-> TRUE, int0 |-> FALSE,
          outputRegister |-> [a \in 0 .. 3 |-> 0], tccr0b |-> 0, ocr0a |-> 0,
          pullups |-> TRUE]

\* The controller is started, before the keyboard or in the middle of a frame.
Restart ==
  /\ wire.clock = 1 /\ ~kbc.int0 /\ seen.start = 0
  /\ kbc' = Fresh
  /\ seen' = [bits |-> <<>>, start |-> wire.bit % 11, last |-> 0]
  /\ UNCHANGED <<wire, bus>>

KbcInit ==
  /\ wire = [code |-> 0, bit |-> 11, clock |-> 1]
  /\ kbc = Fresh
  /\ bus = [wait |-> "no", address |-> 0, data |-> 0]
  /\ seen = [bits |-> <<>>, start |-> 0, last |-> 0]

KbcNext == \/ KeyPressed \/ ClockFalls \/ ClockRises \/ Falling \/ Rising
           \/ ServeRead \/ ServeWrite \/ Access \/ Restart

KbcSpec == KbcInit /\ [][KbcNext]_kbcVars

(* Properties. *)

\* How many data bits are among the bits seen; less than none before the start bit.
DataSeen == IF Len(seen.bits) < 9 THEN Len(seen.bits) - 1 ELSE 8

\* Controller and keyboard keep the distance between their bit counts for ever:
\* a controller started between two frames has the code of the last whole frame
\* in its register and the bits of the running one in its buffer, whatever the
\* Z80 does meanwhile; one started in the middle of a frame never finds the
\* start of a frame again.
KbcInStep ==
  ~kbc.int0 =>
    /\ (kbc.gBitIndex + seen.start) % 11 = wire.bit % 11
    /\ kbc.gFallingEdge = (wire.clock = 1)
    /\ kbc.buffer \in 0 .. 255
    /\ \A k \in 0 .. 7 : BitOf(kbc.buffer, k) =
                           IF k + DataSeen >= 8 THEN seen.bits[k + DataSeen - 6] ELSE 0
    /\ seen.start = 0 => kbc.outputRegister[0] = seen.last
====
