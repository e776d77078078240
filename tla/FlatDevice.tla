----------------------------- MODULE FlatDevice -----------------------------
(***************************************************************************)
(* What random access to a block device promises: the device is a row of   *)
(* bytes with a position, and a call moves any number of them at once.     *)
(* There are no blocks.                                                    *)
(***************************************************************************)
EXTENDS Integers

CONSTANTS
  Size,    \* bytes of the device
  Counts,  \* the byte counts of calls
  Blank,   \* what a byte holds that was never written
  Modulus  \* positions are counted modulo this

VARIABLES
  bytes,  \* the device
  pos,    \* the position
  got     \* the caller's buffer, as the last read left it

fvars == <<bytes, pos, got>>

Init == bytes = [p \in 0 .. Size - 1 |-> Blank] /\ pos = 0 /\ got = <<>>

\* n bytes come from the position, which moves behind them.
Read(n) ==
  /\ pos + n <= Size
  /\ got' = [i \in 1 .. n |-> bytes[pos + i - 1]]
  /\ pos' = pos + n
  /\ UNCHANGED bytes

\* Of n bytes the first m are written where the position is, which stays; a
\* call that does not fail writes all n.
Write(n, m) ==
  /\ m \in 0 .. n
  /\ pos + m <= Size
  /\ bytes' = [p \in 0 .. Size - 1 |-> IF p \in pos .. pos + m - 1 THEN p - pos + 1 ELSE bytes[p]]
  /\ UNCHANGED <<pos, got>>

\* The position is set, or left anywhere by a read that failed.
Move == pos' \in 0 .. Modulus - 1 /\ UNCHANGED <<bytes, got>>

Next ==
  \/ \E n \in Counts : Read(n) \/ \E m \in 0 .. n : Write(n, m)
  \/ Move

Spec == Init /\ [][Next]_fvars
=============================================================================
