-------------------------------- MODULE Cpu --------------------------------
(* The arithmetic of the processor the emulator executes programs with        *)
(* (libz80/z80.c): the 8-bit and 16-bit operations and the flags they leave,  *)
(* run in the chains programs are made of: decimal sums byte by byte, 32-bit  *)
(* sums word by word, shifts of two bytes.  The two flags that copy bits of   *)
(* the result (5 and 3) and the count of clock cycles are left out.           *)
EXTENDS Integers, FiniteSets, FiniteSetsExt

CONSTANTS Decimals,  \* bytes of two decimal digits that are loaded
          Words,     \* 16-bit operands
          ShiftBytes \* bytes that are shifted

W == 65536        \* the values of a word
SignBit == 32768

ASSUME CpuFits ==
    /\ Decimals \subseteq {16 * tens + ones : tens, ones \in 0 .. 9}
    /\ Words \subseteq 0 .. W - 1
    /\ ShiftBytes \subseteq 0 .. 255

VARIABLES alu,  \* [R, F]: the register worked on (A, or HL) and the flags
          job   \* the chain in progress: its kind, its stage and its operands

cpuVars == <<alu, job>>

One(b) == IF b THEN 1 ELSE 0
\* v & mask # 0, where mask is one of the bits
Bit(v, mask) == ((v \div mask) % 2) = 1
Masks == {1, 2, 4, 8, 16, 32, 64, 128}

----------------------------------------------------------------------------
(* The flags and the operations, as the code computes them                   *)

\* The table of the code: a row is the first one, or its complement
ParityRow == <<1, 0, 0, 1, 0, 1, 1, 0, 0, 1, 1, 0, 1, 0, 0, 1>>
parityBit(v) == ParityRow[(v \div 16) + 1] = ParityRow[(v % 16) + 1]

\* Half carry looks at the low digits alone, without the carry that came in.
HalfCarry(a, value, isSub) == IF isSub THEN (a % 16) < (value % 16) ELSE (a % 16) + (value % 16) >= 16

Overflow(minuend, subtrahend, result, isSub) ==
    /\ (minuend # subtrahend) <=> isSub
    /\ result # minuend

doArithmetic(r, value, withCarry, isSub) ==
    LET in == IF withCarry /\ r.F.C THEN 1 ELSE 0
        res == (IF isSub THEN r.R - value - in ELSE r.R + value + in) % W
    IN  [R |-> res % 256,
         F |-> [S |-> Bit(res, 128), Z |-> (res % 256) = 0, H |-> HalfCarry(r.R, value, isSub),
                PV |-> Overflow(Bit(r.R, 128), Bit(value, 128), Bit(res, 128), isSub),
                N |-> isSub, C |-> Bit(res, 256)]]

\* The carry is added to a 16-bit operand, which it may overflow; the sum that is
\* tested for zero is wider than the result.
\* Mutant: the carry is not added.
doAddWord_NoCarry(r, value, withCarry, isSub) ==
    LET sum == IF isSub THEN r.R - value ELSE r.R + value
    IN  [R |-> sum % W, F |-> [r.F EXCEPT !.C = sum < 0 \/ sum >= W]]

doAddWord(r, value, withCarry, isSub) ==
    LET a2 == (value + (IF withCarry /\ r.F.C THEN 1 ELSE 0)) % W
        sum == IF isSub THEN r.R - a2 ELSE r.R + a2
        signs == withCarry \/ isSub
    IN  [R |-> sum % W,
         F |-> [S |-> IF signs THEN Bit(sum % W, SignBit) ELSE r.F.S,
                Z |-> IF signs THEN sum = 0 ELSE r.F.Z,
                H |-> IF isSub THEN (r.R % 4096) < (a2 % 4096) ELSE (r.R % 4096) + (a2 % 4096) >= 4096,
                PV |-> IF signs
                       THEN Overflow(Bit(r.R, SignBit), Bit(a2, SignBit), Bit(sum % W, SignBit), isSub)
                       ELSE r.F.PV,
                N |-> isSub, C |-> sum < 0 \/ sum >= W]]

\* OR A, which programs use to clear the carry
doOR(r, value) ==
    LET a == SumSet({mask \in Masks : Bit(r.R, mask) \/ Bit(value, mask)})
    IN  [R |-> a, F |-> [S |-> Bit(a, 128), Z |-> a = 0, H |-> FALSE, PV |-> parityBit(a),
                         N |-> FALSE, C |-> FALSE]]

\* A shift by one place: the bit that leaves is the carry, in the one that enters
OnePlace(val, out) ==
    [R |-> val, F |-> [S |-> Bit(val, 128), Z |-> val = 0, H |-> FALSE, PV |-> parityBit(val),
                       N |-> FALSE, C |-> out]]
doSL(val) == OnePlace((2 * val) % 256, Bit(val, 128))
doRL(val, f) == OnePlace(((2 * val) % 256) + One(f.C), Bit(val, 128))
\* Mutant: the carry enters after it was replaced by the bit that leaves.
doRR_NewCarry(val, f) == OnePlace((val \div 2) + 128 * One(Bit(val, 1)), Bit(val, 1))
doRR(val, f) == OnePlace((val \div 2) + 128 * One(f.C), Bit(val, 1))
doSR(val, isArith) == OnePlace((val \div 2) + 128 * One(isArith /\ Bit(val, 128)), Bit(val, 1))

\* Mutant: the digits are adjusted as for an addition.
doDAA_AddOnly(r) ==
    LET carry == r.R > 153 \/ r.F.C
        low == (r.R % 16) > 9 \/ r.F.H
        a == (r.R + 96 * One(carry) + 6 * One(low)) % 256
    IN  [R |-> a, F |-> [r.F EXCEPT !.C = carry]]

doDAA(r) ==
    LET carry == r.R > 153 \/ r.F.C
        low == (r.R % 16) > 9 \/ r.F.H
        factor == 96 * One(carry) + 6 * One(low)
        a == (IF r.F.N THEN r.R - factor ELSE r.R + factor) % 256
    IN  [R |-> a, F |-> [r.F EXCEPT !.S = Bit(a, 128), !.Z = (a = 0), !.PV = parityBit(a),
                                    !.H = Bit(r.R, 16) # Bit(a, 16), !.C = carry]]

----------------------------------------------------------------------------
(* The chains.  A chain keeps the carry of its last step for the next one.   *)

NoJob == [kind |-> "idle"]
NoFlags == [S |-> FALSE, Z |-> FALSE, H |-> FALSE, PV |-> FALSE, N |-> FALSE, C |-> FALSE]

CpuInit == alu = [R |-> 0, F |-> NoFlags] /\ job = NoJob

\* ld a,x; add/adc/sub/sbc a,y: with the carry the last byte of the sum left
Decimal(x, y, withCarry, isSub) ==
    /\ job.kind \in {"idle", "adjusted"}
    /\ job.kind = "idle" => ~withCarry
    /\ job.kind = "adjusted" => isSub = alu.F.N
    /\ alu' = doArithmetic([R |-> x, F |-> alu.F], y, withCarry, isSub)
    /\ job' = [kind |-> "decimal", x |-> x, y |-> y, isSub |-> isSub,
               in |-> One(withCarry /\ alu.F.C)]

\* daa
Adjust ==
    /\ job.kind = "decimal"
    /\ alu' = doDAA(alu)
    /\ job' = [job EXCEPT !.kind = "adjusted"]

\* add hl,de on the low words; or a; sbc hl,de when they are subtracted
LowWords(a, b, isSub) ==
    /\ job.kind \in {"idle", "right"}
    /\ LET flags == IF isSub THEN doOR(alu, alu.R).F ELSE alu.F
       IN  alu' = doAddWord([R |-> a, F |-> flags], b, isSub, isSub)
    /\ job' = [kind |-> "low", a |-> a, b |-> b, isSub |-> isSub]

\* adc hl,bc or sbc hl,bc on the high words
HighWords(a, b) ==
    /\ job.kind = "low"
    /\ alu' = doAddWord([R |-> a, F |-> alu.F], b, TRUE, job.isSub)
    /\ job' = [kind |-> "long", a |-> a, b |-> b, isSub |-> job.isSub, low |-> alu.R,
               in |-> One(alu.F.C), under |-> job]

\* sla l; rl h; srl h; rr l; sra h; rr l
ShiftLeft(h, l) ==
    /\ job.kind = "idle"
    /\ alu' = doRL(h, doSL(l).F)
    /\ job' = [kind |-> "left", h |-> h, l |-> l, other |-> doSL(l).R]
ShiftRight(h, l, isArith) ==
    /\ job.kind = "idle"
    /\ alu' = doRR(l, doSR(h, isArith).F)
    /\ job' = [kind |-> "right", h |-> h, l |-> l, isArith |-> isArith, other |-> doSR(h, isArith).R]

CpuNext ==
    \/ \E x, y \in Decimals, withCarry, isSub \in BOOLEAN : Decimal(x, y, withCarry, isSub)
    \/ Adjust
    \/ \E a, b \in Words, isSub \in BOOLEAN : LowWords(a, b, isSub)
    \/ \E a, b \in Words : HighWords(a, b)
    \/ \E h, l \in ShiftBytes : ShiftLeft(h, l)
    \/ \E h, l \in ShiftBytes, isArith \in BOOLEAN : ShiftRight(h, l, isArith)

CpuSpec == CpuInit /\ [][CpuNext]_cpuVars

----------------------------------------------------------------------------
Number(bcd) == 10 * (bcd \div 16) + (bcd % 16)

\* What a decimal sum is after daa (z80.c:636): the decimal sum or difference of the two
\* bytes and of the carry, with the decimal carry out -- except exactly where the half
\* carry of z80.c:363 misses the carry that came in: an adc whose low digits add up to 15.
CpuDecimal ==
    job.kind = "adjusted" =>
        LET exact == IF job.isSub THEN Number(job.x) - Number(job.y) - job.in
                                  ELSE Number(job.x) + Number(job.y) + job.in
            missed == ~job.isSub /\ job.in = 1 /\ (job.x % 16) + (job.y % 16) = 15
        IN  (Number(alu.R) = (exact % 100) /\ (alu.F.C <=> exact \notin 0 .. 99)) <=> ~missed

Signed(word) == IF word >= SignBit THEN word - W ELSE word

\* What a 32-bit sum or difference leaves (z80.c:385): the right result always; the right
\* carry except exactly when a carry meets ffff as the high operand, which it overflows
\* (z80.c:388); the right zero flag unless the high sum is 10000 (z80.c:413); and the
\* right signed comparison (S against PV) except when a carry meets 7fff, whose sign it
\* changes.
CpuLong ==
    job.kind = "long" =>
        LET Sum(a, b, c) == IF job.isSub THEN a - b - c ELSE a + b + c
            low == Sum(job.under.a, job.under.b, 0)
            in == One(low \notin 0 .. W - 1)
            high == Sum(job.a, job.b, in)
        IN  /\ job.low = (low % W) /\ alu.R = (high % W)
            /\ (alu.F.C <=> high \notin 0 .. W - 1) <=> ~(in = 1 /\ job.b = W - 1)
            /\ (alu.F.Z <=> (high % W) = 0) <=> (high # W \/ (in = 1 /\ job.b = W - 1))
            /\ (alu.F.S # alu.F.PV <=> Sum(Signed(job.a), Signed(job.b), in) < 0)
                    <=> ~(in = 1 /\ job.b = SignBit - 1)

\* Shifts of two bytes (z80.c:512): the pair is doubled or halved, an arithmetic shift
\* rounding down, the bit that leaves is the carry, and the parity flag (the table of
\* z80.c:240) is that of the last byte shifted.
CpuShifts ==
    LET pair == 256 * job.h + job.l
        other == job.other
        bits == {mask \in Masks : Bit(alu.R, mask)}
    IN  /\ job.kind = "left" =>
             /\ 256 * alu.R + other = ((2 * pair) % W)
             /\ alu.F.C <=> 2 * pair >= W
        /\ job.kind = "right" =>
             /\ 256 * other + alu.R = ((IF job.isArith THEN Signed(pair) ELSE pair) \div 2) % W
             /\ alu.F.C <=> Bit(pair, 1)
        /\ job.kind \in {"left", "right"} => (alu.F.PV <=> (Cardinality(bits) % 2) = 0)
=============================================================================
