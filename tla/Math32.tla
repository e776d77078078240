------------------------------- MODULE Math32 -------------------------------
(***************************************************************************)
(* The 32-bit arithmetic of math.org, byte by byte as the Z80 does it, and *)
(* fat_clusterToAddr, which the file system places every cluster with.     *)
(*                                                                         *)
(* x is the number register hl points at and y the one de points at, least *)
(* significant byte first; a step is one call.                             *)
(***************************************************************************)
EXTENDS Integers

CONSTANTS
  Base,     \* values of a byte (256)
  Clusters, \* the k of cluster sizes, in blocks of 2 ^ k
  Operands, \* bytes of the second number to start from
  MaxCalls  \* bound: calls per behaviour; no routine keeps anything between calls

ASSUME BaseIsEven == Base \in Nat /\ Base >= 2 /\ Base % 2 = 0
ASSUME RestAre == Clusters \subseteq Nat /\ Operands \subseteq 0 .. Base - 1 /\ MaxCalls \in Nat

VARIABLES
  x, y,  \* the two numbers
  cf,    \* the carry flag
  eq,    \* what the zero flag said after the last comparison
  calls  \* calls made

vars == <<x, y, cf, eq, calls>>
----------------------------------------------------------------------------
Places == 0 .. 3
Bytes  == 0 .. Base - 1
W      == Base * Base * Base * Base

Value(b) == b[0] + Base * (b[1] + Base * (b[2] + Base * b[3]))

\* Mutant: the carry between bytes is dropped.
Plus_NoCarry(a, b, carry) ==
  [i \in Places |-> (a[i] + b[i] + IF i = 0 THEN carry ELSE 0) % Base]

Plus(a, b, carry) ==
  LET c[i \in 0 .. 4] == IF i = 0 THEN carry ELSE (a[i - 1] + b[i - 1] + c[i - 1]) \div Base
  IN  [i \in Places |-> (a[i] + b[i] + c[i]) % Base]

Minus(b, a, borrow) ==
  LET c[i \in 0 .. 4] == IF i = 0 THEN borrow
                         ELSE IF b[i - 1] < a[i - 1] + c[i - 1] THEN 1 ELSE 0
  IN  [i \in Places |-> (b[i] - a[i] - c[i]) % Base]

\* inc32 goes on to the next byte while the last one became zero.
Plus1(a) ==
  [i \in Places |-> IF \A j \in 0 .. i - 1 : a[j] = Base - 1 THEN (a[i] + 1) % Base ELSE a[i]]

\* Mutant: goes on while the last byte did not become zero.
Minus1_TestsZero(a) ==
  [i \in Places |-> IF \A j \in 0 .. i - 1 : a[j] # 1 THEN (a[i] - 1) % Base ELSE a[i]]

\* dec32 goes on while the last byte, taken as signed, became negative.
Minus1(a) ==
  [i \in Places |-> IF \A j \in 0 .. i - 1 : (a[j] - 1) % Base >= Base \div 2
                    THEN (a[i] - 1) % Base ELSE a[i]]

UpByte(a)   == [i \in Places |-> IF i = 0 THEN 0 ELSE a[i - 1]]
DownByte(a) == [i \in Places |-> IF i = 3 THEN 0 ELSE a[i + 1]]

\* Mutant: the bit that leaves a byte is not shifted into the next.
Double_NoCarry(a) == [i \in Places |-> (2 * a[i]) % Base]

Double(a) ==
  [i \in Places |-> ((2 * a[i]) % Base) + IF i = 0 THEN 0 ELSE (2 * a[i - 1]) \div Base]
Halve(a)  ==
  [i \in Places |-> a[i] \div 2 + IF i = 3 THEN 0 ELSE (a[i + 1] % 2) * (Base \div 2)]

\* Mutant: compares from the least significant byte on.
Below_FromLow(b, a) == \E i \in Places : b[i] < a[i] /\ \A j \in 0 .. i - 1 : b[j] = a[j]

\* cp32: the most significant bytes that differ decide.
Below(b, a) == \E i \in Places : b[i] < a[i] /\ \A j \in i + 1 .. 3 : b[j] = a[j]

\* The cluster's number less two, times the bytes of a cluster, from where the
\* data area starts.
Address(cluster, start, k) ==
  LET shifted[i \in 0 .. k + 1] ==
        IF i = 0 THEN UpByte(Minus1(Minus1(cluster))) ELSE Double(shifted[i - 1])
  IN  Plus(shifted[k + 1], start, 0)
----------------------------------------------------------------------------
Init ==
  /\ x \in [Places -> Bytes] /\ y \in [Places -> Operands]
  /\ cf \in 0 .. 1 /\ eq = FALSE
  /\ calls = 0

add32 == x' = Plus(x, y, 0)  /\ cf' = 0 /\ UNCHANGED <<y, eq>>
adc32 == x' = Plus(x, y, cf) /\ UNCHANGED <<y, cf, eq>>
sub32 == y' = Minus(y, x, 0)  /\ cf' = 0 /\ UNCHANGED <<x, eq>>
sbc32 == y' = Minus(y, x, cf) /\ UNCHANGED <<x, cf, eq>>
inc32 == x' = Plus1(x)  /\ UNCHANGED <<y, cf, eq>>
dec32 == x' = Minus1(x) /\ UNCHANGED <<y, cf, eq>>

lshiftbyte32 == x' = UpByte(x) /\ UNCHANGED <<y, cf, eq>>
lshift32     == x' = Double(x) /\ cf' = (2 * x[3]) \div Base /\ UNCHANGED <<y, eq>>
lshift9_32   == x' = Double(UpByte(x)) /\ cf' = (2 * x[2]) \div Base /\ UNCHANGED <<y, eq>>
rshiftbyte32 == x' = DownByte(x) /\ UNCHANGED <<y, cf, eq>>
rshift32     == x' = Halve(x) /\ cf' = x[0] % 2 /\ UNCHANGED <<y, eq>>
rshift9_32   == x' = Halve(DownByte(x)) /\ cf' = x[1] % 2 /\ UNCHANGED <<y, eq>>

ld8(b)  == x' = [i \in Places |-> IF i = 0 THEN b ELSE 0] /\ UNCHANGED <<y, cf, eq>>
ld16(b, c) ==
  x' = [i \in Places |-> IF i = 0 THEN b ELSE IF i = 1 THEN c ELSE 0] /\ UNCHANGED <<y, cf, eq>>
ld32    == y' = x /\ UNCHANGED <<x, cf, eq>>
clear32 == x' = [i \in Places |-> 0] /\ UNCHANGED <<y, cf, eq>>

cp32 ==
  /\ cf' = IF Below(y, x) THEN 1 ELSE 0
  /\ eq' = (y = x)
  /\ UNCHANGED <<x, y>>

clusterToAddr(k) == x' = Address(x, y, k) /\ cf' = 0 /\ UNCHANGED <<y, eq>>

Routine ==
  \/ add32 \/ adc32 \/ sub32 \/ sbc32 \/ inc32 \/ dec32
  \/ lshiftbyte32 \/ lshift32 \/ lshift9_32 \/ rshiftbyte32 \/ rshift32 \/ rshift9_32
  \/ \E b, c \in Operands : ld8(b) \/ ld16(b, c)
  \/ ld32 \/ clear32 \/ cp32
  \/ \E k \in Clusters : clusterToAddr(k)

Next == calls < MaxCalls /\ calls' = calls + 1 /\ Routine

Spec == Init /\ [][Next]_vars
----------------------------------------------------------------------------
(* Properties. *)

\* Type invariant.
TypeOK == x \in [Places -> Bytes] /\ y \in [Places -> Bytes] /\ cf \in 0 .. 1 /\ eq \in BOOLEAN

\* The byte loops add, subtract and count as numbers do, modulo W.
SumsExact ==
  [][/\ add32 => Value(x') = (Value(x) + Value(y)) % W
     /\ adc32 => Value(x') = (Value(x) + Value(y) + cf) % W
     /\ sub32 => Value(y') = (Value(y) - Value(x)) % W
     /\ sbc32 => Value(y') = (Value(y) - Value(x) - cf) % W
     /\ inc32 => Value(x') = (Value(x) + 1) % W]_vars

\* The shifts multiply and divide by 2, 256 and 512, the bit lost in the carry.
ShiftsExact ==
  [][/\ lshift32 => Value(x') + W * cf' = 2 * Value(x)
     /\ lshift9_32 => Value(x') = (2 * Base * Value(x)) % W
     /\ rshift32 => 2 * Value(x') + cf' = Value(x)
     /\ rshift9_32 => Value(x') = Value(x) \div (2 * Base)]_vars

\* The comparison orders numbers, not bytes.
CompareExact ==
  [][cp32 => (cf' = 1 <=> Value(y) < Value(x)) /\ (eq' <=> Value(y) = Value(x))]_vars

\* dec32 is right where the lowest byte that is not zero is at most half its
\* range, or is the last byte; everywhere else the borrow runs on too far.
LowestSmall(b) ==
  \A i \in 0 .. 2 : b[i] # 0 /\ (\A j \in 0 .. i - 1 : b[j] = 0) => b[i] <= Base \div 2

DecExactWhere == [][dec32 => (Value(x') = (Value(x) - 1) % W <=> LowestSmall(x))]_vars

\* The blocks of a cluster: 2 ^ k.
BlocksIn(k) == LET n[i \in 0 .. k] == IF i = 0 THEN 1 ELSE 2 * n[i - 1] IN n[k]

\* fat_clusterToAddr places the clusters whose lowest byte is at least two and
\* at most half its range where they belong.
LowClustersPlaced ==
  [][\A k \in Clusters :
       clusterToAddr(k) /\ x[0] \in 2 .. Base \div 2 =>
         Value(x') = ((Value(x) - 2) * 2 * Base * BlocksIn(k) + Value(y)) % W]_vars

\* The comment of dec32: (hl) = (hl) - 1.  It does not hold: see the README.
DecExact == [][dec32 => Value(x') = (Value(x) - 1) % W]_vars
=============================================================================
