---------------------------- MODULE Math32Proofs ----------------------------
(***************************************************************************)
(* Proofs about Math32 for bytes of every even size: the loops over the    *)
(* bytes do what the routines are called for, and dec32 and                *)
(* fat_clusterToAddr do it where LowestSmall and LowClustersPlaced say.    *)
(*                                                                         *)
(* One fact carries them all, Columns: where every place of a sum balances *)
(* with the carry it takes and the carry it gives, the whole balances with *)
(* the first carry and the last.  Each routine needs its carries named and *)
(* its places balanced.                                                    *)
(***************************************************************************)
EXTENDS Math32, TLAPS, WellFoundedInduction

USE BaseIsEven

Numbers == [Places -> Bytes]

\* Quotient and remainder by a positive number are unique.
LEMMA Remainder ==
  ASSUME NEW m \in Nat, m > 0, NEW q \in Int, NEW r \in 0 .. m - 1
  PROVE  (r + m * q) % m = r /\ (r + m * q) \div m = q
OBVIOUS

\* A number is made of its quotient and its remainder.
LEMMA Division ==
  ASSUME NEW m \in Nat, m > 0, NEW a \in Int
  PROVE  a = (a % m) + m * (a \div m) /\ a % m \in 0 .. m - 1 /\ a \div m \in Int
OBVIOUS

----------------------------------------------------------------------------
(* Numbers. *)

\* The carries c of a sum s of a and b, place by place.
Carried(a, b, s, c) == \A i \in Places : a[i] + b[i] + c[i] = s[i] + Base * c[i + 1]

\* Carries from place to place add up.
LEMMA Columns ==
  ASSUME NEW a \in [Places -> Int], NEW b \in [Places -> Int], NEW s \in [Places -> Int],
         NEW c \in [0 .. 4 -> Int], Carried(a, b, s, c)
  PROVE  Value(a) + Value(b) + c[0] = Value(s) + W * c[4]
<1>0. /\ a[0] \in Int /\ a[1] \in Int /\ a[2] \in Int /\ a[3] \in Int
      /\ b[0] \in Int /\ b[1] \in Int /\ b[2] \in Int /\ b[3] \in Int
      /\ s[0] \in Int /\ s[1] \in Int /\ s[2] \in Int /\ s[3] \in Int
      /\ c[0] \in Int /\ c[1] \in Int /\ c[2] \in Int /\ c[3] \in Int /\ c[4] \in Int
  BY DEF Places
<1>c. /\ a[0] + b[0] + c[0] = s[0] + Base * c[1] /\ a[1] + b[1] + c[1] = s[1] + Base * c[2]
      /\ a[2] + b[2] + c[2] = s[2] + Base * c[3] /\ a[3] + b[3] + c[3] = s[3] + Base * c[4]
  <2>1. /\ a[0] + b[0] + c[0] = s[0] + Base * c[0 + 1] /\ a[1] + b[1] + c[1] = s[1] + Base * c[1 + 1]
        /\ a[2] + b[2] + c[2] = s[2] + Base * c[2 + 1] /\ a[3] + b[3] + c[3] = s[3] + Base * c[3 + 1]
    BY DEF Places, Carried
  <2>2. QED
    BY <2>1
<1>a. PICK a0 \in Int, a1 \in Int, a2 \in Int, a3 \in Int : a0 = a[0] /\ a1 = a[1] /\ a2 = a[2] /\ a3 = a[3]
  BY <1>0
<1>b. PICK b0 \in Int, b1 \in Int, b2 \in Int, b3 \in Int : b0 = b[0] /\ b1 = b[1] /\ b2 = b[2] /\ b3 = b[3]
  BY <1>0
<1>s. PICK s0 \in Int, s1 \in Int, s2 \in Int, s3 \in Int : s0 = s[0] /\ s1 = s[1] /\ s2 = s[2] /\ s3 = s[3]
  BY <1>0
<1>d. PICK c0 \in Int, c1 \in Int, c2 \in Int, c3 \in Int, c4 \in Int : c0 = c[0] /\ c1 = c[1] /\ c2 = c[2] /\ c3 = c[3] /\ c4 = c[4]
  BY <1>0
<1>e. /\ a0 + b0 + c0 = s0 + Base * c1 /\ a1 + b1 + c1 = s1 + Base * c2
      /\ a2 + b2 + c2 = s2 + Base * c3 /\ a3 + b3 + c3 = s3 + Base * c4
  BY <1>a, <1>b, <1>s, <1>c, <1>d
<1> DEFINE A2 == a2 + Base * a3
           B2 == b2 + Base * b3
           S2 == s2 + Base * s3
           A1 == a1 + Base * A2
           B1 == b1 + Base * B2
           S1 == s1 + Base * S2
<1>t. A2 \in Int /\ B2 \in Int /\ S2 \in Int /\ A1 \in Int /\ B1 \in Int /\ S1 \in Int
  OBVIOUS
<1>1. Base * (a3 + b3 + c3) = Base * s3 + Base * Base * c4
  BY <1>e
<1>2. A2 + B2 + c2 = S2 + Base * Base * c4
  BY <1>e, <1>1
<1>3. Base * (A2 + B2 + c2) = Base * S2 + Base * Base * Base * c4
  <2> HIDE DEF A2, B2, S2
  <2>1. Base * (A2 + B2 + c2) = Base * (S2 + Base * Base * c4)
    BY <1>2
  <2>2. QED
    BY <1>t, <2>1
<1>4. A1 + B1 + c1 = S1 + Base * Base * Base * c4
  <2> HIDE DEF A2, B2, S2
  <2>1. QED
    BY <1>e, <1>3, <1>t
<1>5. Base * (A1 + B1 + c1) = Base * S1 + Base * Base * Base * Base * c4
  <2> HIDE DEF A1, B1, S1
  <2>1. Base * (A1 + B1 + c1) = Base * (S1 + Base * Base * Base * c4)
    BY <1>4
  <2>2. QED
    BY <1>t, <2>1
<1>6. (a0 + Base * A1) + (b0 + Base * B1) + c0 = (s0 + Base * S1) + W * c4
  <2> HIDE DEF A1, B1, S1
  <2>1. QED
    BY <1>e, <1>5, <1>t DEF W
<1>7. /\ Value(a) = a0 + Base * A1 /\ Value(b) = b0 + Base * B1 /\ Value(s) = s0 + Base * S1
      /\ c[0] = c0 /\ c[4] = c4
  BY <1>a, <1>b, <1>s, <1>d DEF Value
<1>8. QED
  <2> HIDE DEF A1, B1, S1
  <2> QED BY <1>6, <1>7

\* What a number may be worth.
LEMMA ValueRange ==
  ASSUME NEW a \in Numbers
  PROVE  Value(a) \in 0 .. W - 1 /\ W \in Nat /\ W > 0
<1>0. a[0] \in Bytes /\ a[1] \in Bytes /\ a[2] \in Bytes /\ a[3] \in Bytes
  BY DEF Numbers, Places
<1>1. \A b \in Bytes, n \in Nat, m \in Nat : n < m => b + Base * n \in Nat /\ b + Base * n < Base * m
  <2> SUFFICES ASSUME NEW b \in Bytes, NEW n \in Nat, NEW m \in Nat, n < m
               PROVE  b + Base * n \in Nat /\ b + Base * n < Base * m
    OBVIOUS
  <2>1. Base * (n + 1) <= Base * m
    OBVIOUS
  <2>2. Base * n \in Nat /\ Base * m \in Nat /\ Base * (n + 1) = Base * n + Base
    OBVIOUS
  <2>3. QED
    BY <2>1, <2>2 DEF Bytes
<1>2. a[2] + Base * a[3] \in Nat /\ a[2] + Base * a[3] < Base * Base
  BY <1>0, <1>1 DEF Bytes
<1>3. Base * Base \in Nat /\ Base * (Base * Base) \in Nat /\ Base * (Base * (Base * Base)) \in Nat
  OBVIOUS
<1>4. a[1] + Base * (a[2] + Base * a[3]) \in Nat /\ a[1] + Base * (a[2] + Base * a[3]) < Base * (Base * Base)
  BY <1>0, <1>1, <1>2, <1>3
<1>5. Value(a) \in Nat /\ Value(a) < Base * (Base * (Base * Base))
  BY <1>0, <1>1, <1>3, <1>4 DEF Value
<1>6. W = Base * (Base * (Base * Base))
  BY DEF W
<1>7. QED
  BY <1>3, <1>5, <1>6

\* A byte below the rest of a number.
Join(a, rest) == a + Base * rest

\* Numbers are ordered by what lies above their lowest byte, then by that byte.
LEMMA Digit ==
  ASSUME NEW a \in Bytes, NEW b \in Bytes, NEW m \in Int, NEW n \in Int
  PROVE  /\ Join(a, m) < Join(b, n) <=> (m < n \/ (m = n /\ a < b))
         /\ Join(a, m) = Join(b, n) <=> (m = n /\ a = b)
         /\ Join(a, m) \in Int
<1> USE DEF Bytes, Join
<1>1. m < n => a + Base * m < b + Base * n
  <2>1. m < n => Base * (m + 1) <= Base * n
    OBVIOUS
  <2>2. QED
    BY <2>1
<1>2. n < m => b + Base * n < a + Base * m
  <2>1. n < m => Base * (n + 1) <= Base * m
    OBVIOUS
  <2>2. QED
    BY <2>1
<1>3. Base * m \in Int /\ Base * n \in Int
  OBVIOUS
<1>4. QED
  BY <1>1, <1>2, <1>3

\* cp32 orders numbers by what they are worth.
LEMMA BelowIsLess ==
  ASSUME NEW a \in Numbers, NEW b \in Numbers
  PROVE  (Below(b, a) <=> Value(b) < Value(a)) /\ (b = a <=> Value(b) = Value(a))
<1>0. /\ a[0] \in Bytes /\ a[1] \in Bytes /\ a[2] \in Bytes /\ a[3] \in Bytes
      /\ b[0] \in Bytes /\ b[1] \in Bytes /\ b[2] \in Bytes /\ b[3] \in Bytes
  BY DEF Numbers, Places
<1>t. a[3] \in Int /\ b[3] \in Int
  BY <1>0 DEF Bytes
<1>v. /\ Value(a) = Join(a[0], Join(a[1], Join(a[2], a[3])))
      /\ Value(b) = Join(b[0], Join(b[1], Join(b[2], b[3])))
  BY DEF Value, Join
<1>1. Value(b) < Value(a) <=>
        \/ b[3] < a[3]
        \/ b[3] = a[3] /\ b[2] < a[2]
        \/ b[3] = a[3] /\ b[2] = a[2] /\ b[1] < a[1]
        \/ b[3] = a[3] /\ b[2] = a[2] /\ b[1] = a[1] /\ b[0] < a[0]
  BY <1>0, <1>t, <1>v, Digit
<1>2. Value(b) = Value(a) <=> b[3] = a[3] /\ b[2] = a[2] /\ b[1] = a[1] /\ b[0] = a[0]
  BY <1>0, <1>t, <1>v, Digit
<1>3. Below(b, a) <=>
        \/ b[3] < a[3]
        \/ b[3] = a[3] /\ b[2] < a[2]
        \/ b[3] = a[3] /\ b[2] = a[2] /\ b[1] < a[1]
        \/ b[3] = a[3] /\ b[2] = a[2] /\ b[1] = a[1] /\ b[0] < a[0]
  <2>1. Places = {0, 1, 2, 3} /\ 1 .. 3 = {1, 2, 3} /\ 2 .. 3 = {2, 3} /\ 3 .. 3 = {3} /\ 4 .. 3 = {}
    BY DEF Places
  <2>2. /\ (\A j \in 0 + 1 .. 3 : b[j] = a[j]) <=> b[1] = a[1] /\ b[2] = a[2] /\ b[3] = a[3]
        /\ (\A j \in 1 + 1 .. 3 : b[j] = a[j]) <=> b[2] = a[2] /\ b[3] = a[3]
        /\ (\A j \in 2 + 1 .. 3 : b[j] = a[j]) <=> b[3] = a[3]
        /\ (\A j \in 3 + 1 .. 3 : b[j] = a[j])
    OBVIOUS
  <2>3. QED
    BY <2>1, <2>2 DEF Below
<1>4. b = a <=> b[3] = a[3] /\ b[2] = a[2] /\ b[1] = a[1] /\ b[0] = a[0]
  <2>1. Places = {0, 1, 2, 3}
    BY DEF Places
  <2>2. QED
    BY <2>1 DEF Numbers
<1>5. QED
  BY <1>1, <1>2, <1>3, <1>4

----------------------------------------------------------------------------
(* Sums. *)

\* The carries of an addition.
Carries(a, b, carry, c) ==
  c = [i \in 0 .. 4 |-> IF i = 0 THEN carry ELSE (a[i - 1] + b[i - 1] + c[i - 1]) \div Base]

\* The carries can be counted from the lowest place on.
LEMMA CarriesExist ==
  ASSUME NEW a, NEW b, NEW carry
  PROVE  \E c : Carries(a, b, carry, c)
<1> DEFINE c1 == (a[0] + b[0] + carry) \div Base
           c2 == (a[1] + b[1] + c1) \div Base
           c3 == (a[2] + b[2] + c2) \div Base
           c4 == (a[3] + b[3] + c3) \div Base
           f == [i \in 0 .. 4 |-> IF i = 0 THEN carry ELSE IF i = 1 THEN c1 ELSE IF i = 2 THEN c2
                                  ELSE IF i = 3 THEN c3 ELSE c4]
           g == [i \in 0 .. 4 |-> IF i = 0 THEN carry ELSE (a[i - 1] + b[i - 1] + f[i - 1]) \div Base]
<1>f. 0 .. 4 = {0, 1, 2, 3, 4}
  OBVIOUS
<1> HIDE DEF c1, c2, c3, c4
<1>1. f[0] = carry /\ f[1] = c1 /\ f[2] = c2 /\ f[3] = c3 /\ f[4] = c4
  OBVIOUS
<1>2. /\ f[1] = (a[1 - 1] + b[1 - 1] + f[1 - 1]) \div Base
      /\ f[2] = (a[2 - 1] + b[2 - 1] + f[2 - 1]) \div Base
      /\ f[3] = (a[3 - 1] + b[3 - 1] + f[3 - 1]) \div Base
      /\ f[4] = (a[4 - 1] + b[4 - 1] + f[4 - 1]) \div Base
  BY <1>1 DEF c1, c2, c3, c4
<1>3. \A i \in 0 .. 4 : f[i] = g[i]
  BY <1>1, <1>2, <1>f
<1>4. f = g
  BY <1>3
<1>5. QED
  BY <1>4 DEF Carries

\* Plus adds.
LEMMA PlusAdds ==
  ASSUME NEW a \in Numbers, NEW b \in Numbers, NEW carry \in 0 .. 1
  PROVE  /\ Plus(a, b, carry) \in Numbers
         /\ Value(Plus(a, b, carry)) = (Value(a) + Value(b) + carry) % W
<1> DEFINE c == CHOOSE h : Carries(a, b, carry, h)
           s == Plus(a, b, carry)
<1>1. Carries(a, b, carry, c)
  BY CarriesExist
<1>2. s = [i \in Places |-> (a[i] + b[i] + c[i]) % Base]
  BY DEF Plus, Carries
<1> HIDE DEF c, s
<1>3. c[0] = carry /\ \A i \in Places : c[i + 1] = (a[i] + b[i] + c[i]) \div Base
  <2>1. /\ c[0 + 1] = (a[0 + 1 - 1] + b[0 + 1 - 1] + c[0 + 1 - 1]) \div Base
        /\ c[1 + 1] = (a[1 + 1 - 1] + b[1 + 1 - 1] + c[1 + 1 - 1]) \div Base
        /\ c[2 + 1] = (a[2 + 1 - 1] + b[2 + 1 - 1] + c[2 + 1 - 1]) \div Base
        /\ c[3 + 1] = (a[3 + 1 - 1] + b[3 + 1 - 1] + c[3 + 1 - 1]) \div Base
    BY <1>1 DEF Carries
  <2>2. c[0] = carry
    BY <1>1 DEF Carries
  <2>3. Places = {0, 1, 2, 3}
    BY DEF Places
  <2>4. QED
    BY <2>1, <2>2, <2>3
<1>4. \A i \in Places : c[i] \in 0 .. 1 => c[i + 1] \in 0 .. 1
  <2> SUFFICES ASSUME NEW i \in Places, c[i] \in 0 .. 1 PROVE c[i + 1] \in 0 .. 1
    OBVIOUS
  <2>1. a[i] + b[i] + c[i] \in Int /\ a[i] + b[i] + c[i] >= 0 /\ a[i] + b[i] + c[i] < 2 * Base
    BY DEF Bytes, Numbers
  <2>2. (a[i] + b[i] + c[i]) \div Base \in 0 .. 1
    BY <2>1
  <2>3. QED
    BY <1>3, <2>2
<1>5. c \in [0 .. 4 -> 0 .. 1]
  <2>1. 0 + 1 = 1 /\ 1 + 1 = 2 /\ 2 + 1 = 3 /\ 3 + 1 = 4 /\ Places = {0, 1, 2, 3}
    BY DEF Places
  <2>2. c[0] \in 0 .. 1 /\ c[1] \in 0 .. 1 /\ c[2] \in 0 .. 1 /\ c[3] \in 0 .. 1 /\ c[4] \in 0 .. 1
    BY <1>3, <1>4, <2>1
  <2>3. 0 .. 4 = {0, 1, 2, 3, 4}
    OBVIOUS
  <2>4. QED
    BY <1>1, <2>2, <2>3 DEF Carries
<1>6. s \in Numbers /\ Carried(a, b, s, c)
  <2> SUFFICES ASSUME NEW i \in Places
               PROVE  s[i] \in Bytes /\ a[i] + b[i] + c[i] = s[i] + Base * c[i + 1]
    BY <1>2 DEF Numbers, Carried
  <2>1. a[i] + b[i] + c[i] \in Int
    BY <1>5 DEF Bytes, Numbers, Places
  <2> DEFINE t == a[i] + b[i] + c[i]
  <2>2. s[i] = t % Base /\ c[i + 1] = t \div Base
    BY <1>2, <1>3
  <2> HIDE DEF t
  <2>3. \A u \in Int : u % Base \in Bytes /\ u = (u % Base) + Base * (u \div Base)
    BY Division DEF Bytes
  <2>4. t % Base \in Bytes /\ t = (t % Base) + Base * (t \div Base)
    <3>1. t \in Int
      BY <2>1 DEF t
    <3>2. QED
      BY <3>1, <2>3, Zenon
  <2>5. QED
    BY <2>2, <2>4 DEF t
<1>7. Value(a) + Value(b) + carry = Value(s) + W * c[4]
  <2>1. /\ a \in [Places -> Int] /\ b \in [Places -> Int] /\ s \in [Places -> Int]
        /\ c \in [0 .. 4 -> Int]
    BY <1>5, <1>6 DEF Numbers, Bytes
  <2>2. QED
    BY <2>1, <1>3, <1>6, Columns
<1>8. Value(s) = (Value(a) + Value(b) + carry) % W
  <2>1. Value(s) \in 0 .. W - 1 /\ W \in Nat /\ W > 0
    BY <1>6, ValueRange
  <2>2. c[4] \in Int
    BY <1>5
  <2>3. (Value(s) + W * c[4]) % W = Value(s)
    BY <2>1, <2>2, Remainder
  <2>4. QED
    BY <2>3, <1>7
<1>9. QED
  BY <1>6, <1>8 DEF s

\* What the carries make of three numbers, the last carry lost.
LEMMA ColumnsModulo ==
  ASSUME NEW a \in [Places -> Int], NEW b \in [Places -> Int], NEW s \in Numbers,
         NEW c \in [0 .. 4 -> Int], Carried(a, b, s, c)
  PROVE  /\ Value(a) + Value(b) + c[0] = Value(s) + W * c[4]
         /\ Value(s) = (Value(a) + Value(b) + c[0]) % W
<1>1. s \in [Places -> Int] /\ c[4] \in Int
  BY DEF Numbers, Bytes
<1>2. Value(a) + Value(b) + c[0] = Value(s) + W * c[4]
  BY <1>1, Columns
<1>3. Value(s) \in 0 .. W - 1 /\ W \in Nat /\ W > 0
  BY ValueRange
<1>4. (Value(s) + W * c[4]) % W = Value(s)
  BY <1>1, <1>3, Remainder
<1>5. QED
  BY <1>2, <1>4

\* A number and its negative.
Negative(a) == [i \in Places |-> -a[i]]

\* The negative is worth the negative.
LEMMA NegativeValue ==
  ASSUME NEW a \in Numbers
  PROVE  Negative(a) \in [Places -> Int] /\ Value(Negative(a)) = -Value(a)
<1>1. Negative(a) \in [Places -> Int]
  BY DEF Negative, Numbers, Bytes
<1>2. /\ Negative(a)[0] = -a[0] /\ Negative(a)[1] = -a[1]
      /\ Negative(a)[2] = -a[2] /\ Negative(a)[3] = -a[3]
  BY DEF Negative, Places
<1>3. PICK a0 \in Int, a1 \in Int, a2 \in Int, a3 \in Int :
        a0 = a[0] /\ a1 = a[1] /\ a2 = a[2] /\ a3 = a[3]
  BY DEF Numbers, Places, Bytes
<1>4. -a0 + Base * (-a1 + Base * (-a2 + Base * (-a3))) = -(a0 + Base * (a1 + Base * (a2 + Base * a3)))
  OBVIOUS
<1>5. QED
  BY <1>1, <1>2, <1>3, <1>4 DEF Value

\* The borrows of a subtraction.
Borrows(b, a, borrow, c) ==
  c = [i \in 0 .. 4 |-> IF i = 0 THEN borrow ELSE IF b[i - 1] < a[i - 1] + c[i - 1] THEN 1 ELSE 0]

\* The borrows can be, too.
LEMMA BorrowsExist ==
  ASSUME NEW b, NEW a, NEW borrow
  PROVE  \E c : Borrows(b, a, borrow, c)
<1> DEFINE c1 == IF b[0] < a[0] + borrow THEN 1 ELSE 0
           c2 == IF b[1] < a[1] + c1 THEN 1 ELSE 0
           c3 == IF b[2] < a[2] + c2 THEN 1 ELSE 0
           c4 == IF b[3] < a[3] + c3 THEN 1 ELSE 0
           f == [i \in 0 .. 4 |-> IF i = 0 THEN borrow ELSE IF i = 1 THEN c1 ELSE IF i = 2 THEN c2
                                  ELSE IF i = 3 THEN c3 ELSE c4]
           g == [i \in 0 .. 4 |-> IF i = 0 THEN borrow
                                  ELSE IF b[i - 1] < a[i - 1] + f[i - 1] THEN 1 ELSE 0]
<1>f. 0 .. 4 = {0, 1, 2, 3, 4}
  OBVIOUS
<1> HIDE DEF c1, c2, c3, c4
<1>1. f[0] = borrow /\ f[1] = c1 /\ f[2] = c2 /\ f[3] = c3 /\ f[4] = c4
  OBVIOUS
<1>2. /\ f[1] = IF b[1 - 1] < a[1 - 1] + f[1 - 1] THEN 1 ELSE 0
      /\ f[2] = IF b[2 - 1] < a[2 - 1] + f[2 - 1] THEN 1 ELSE 0
      /\ f[3] = IF b[3 - 1] < a[3 - 1] + f[3 - 1] THEN 1 ELSE 0
      /\ f[4] = IF b[4 - 1] < a[4 - 1] + f[4 - 1] THEN 1 ELSE 0
  BY <1>1 DEF c1, c2, c3, c4
<1>3. \A i \in 0 .. 4 : f[i] = g[i]
  BY <1>1, <1>2, <1>f
<1>4. f = g
  BY <1>3
<1>5. QED
  BY <1>4 DEF Borrows

\* Minus subtracts.
LEMMA MinusSubtracts ==
  ASSUME NEW b \in Numbers, NEW a \in Numbers, NEW borrow \in 0 .. 1
  PROVE  /\ Minus(b, a, borrow) \in Numbers
         /\ Value(Minus(b, a, borrow)) = (Value(b) - Value(a) - borrow) % W
<1> DEFINE c == CHOOSE h : Borrows(b, a, borrow, h)
           s == Minus(b, a, borrow)
           d == [i \in 0 .. 4 |-> -c[i]]
<1>1. Borrows(b, a, borrow, c)
  BY BorrowsExist
<1>2. s = [i \in Places |-> (b[i] - a[i] - c[i]) % Base]
  BY DEF Minus, Borrows
<1> HIDE DEF c, s
<1>3. c[0] = borrow /\ \A i \in Places : c[i + 1] = IF b[i] < a[i] + c[i] THEN 1 ELSE 0
  <2>1. /\ c[0 + 1] = IF b[0 + 1 - 1] < a[0 + 1 - 1] + c[0 + 1 - 1] THEN 1 ELSE 0
        /\ c[1 + 1] = IF b[1 + 1 - 1] < a[1 + 1 - 1] + c[1 + 1 - 1] THEN 1 ELSE 0
        /\ c[2 + 1] = IF b[2 + 1 - 1] < a[2 + 1 - 1] + c[2 + 1 - 1] THEN 1 ELSE 0
        /\ c[3 + 1] = IF b[3 + 1 - 1] < a[3 + 1 - 1] + c[3 + 1 - 1] THEN 1 ELSE 0
    BY <1>1 DEF Borrows
  <2>2. c[0] = borrow
    BY <1>1 DEF Borrows
  <2>3. Places = {0, 1, 2, 3}
    BY DEF Places
  <2>4. QED
    BY <2>1, <2>2, <2>3
<1>4. c \in [0 .. 4 -> 0 .. 1]
  <2>1. 0 + 1 = 1 /\ 1 + 1 = 2 /\ 2 + 1 = 3 /\ 3 + 1 = 4 /\ Places = {0, 1, 2, 3}
    BY DEF Places
  <2>2. c[0] \in 0 .. 1 /\ c[1] \in 0 .. 1 /\ c[2] \in 0 .. 1 /\ c[3] \in 0 .. 1 /\ c[4] \in 0 .. 1
    BY <1>3, <2>1
  <2>3. 0 .. 4 = {0, 1, 2, 3, 4}
    OBVIOUS
  <2>4. QED
    BY <1>1, <2>2, <2>3 DEF Borrows
<1>5. ASSUME NEW i \in Places
      PROVE  s[i] \in Bytes /\ b[i] - a[i] - c[i] = s[i] - Base * c[i + 1]
  <2>1. b[i] \in Bytes /\ a[i] \in Bytes /\ c[i] \in 0 .. 1
    BY <1>4 DEF Numbers, Places
  <2>2. \A p \in Bytes, q \in Bytes, r \in 0 .. 1 :
          /\ (p - q - r) % Base \in Bytes
          /\ p < q + r => (p - q - r) % Base = p - q - r + Base
          /\ ~(p < q + r) => (p - q - r) % Base = p - q - r
    BY DEF Bytes
  <2>3. s[i] = (b[i] - a[i] - c[i]) % Base
    BY <1>2
  <2>4. /\ s[i] \in Bytes
        /\ b[i] < a[i] + c[i] => s[i] = b[i] - a[i] - c[i] + Base
        /\ ~(b[i] < a[i] + c[i]) => s[i] = b[i] - a[i] - c[i]
    BY <2>1, <2>2, <2>3
  <2>5. QED
    BY <2>1, <2>4, <1>3 DEF Bytes
<1>6. s \in Numbers
  BY <1>2, <1>5 DEF Numbers
<1>7. Carried(b, Negative(a), s, d) /\ d \in [0 .. 4 -> Int] /\ d[0] = -borrow
  <2> SUFFICES ASSUME NEW i \in Places PROVE b[i] + (-a[i]) + (-c[i]) = s[i] + Base * (-c[i + 1])
    BY <1>3, <1>4 DEF Carried, Negative, Places
  <2>1. b[i] \in Int /\ a[i] \in Int /\ c[i] \in Int /\ s[i] \in Int /\ c[i + 1] \in 0 .. 1
    BY <1>4, <1>6 DEF Numbers, Bytes, Places
  <2>2. QED
    BY <1>5, <2>1
<1> HIDE DEF d
<1>8. Value(s) = (Value(b) + Value(Negative(a)) + d[0]) % W
  BY <1>6, <1>7, NegativeValue, ColumnsModulo DEF Numbers, Bytes
<1>9. Value(b) + Value(Negative(a)) + d[0] = Value(b) - Value(a) - borrow
  <2>1. Value(a) \in Int /\ Value(b) \in Int
    BY ValueRange
  <2>2. QED
    BY <1>7, <2>1, NegativeValue
<1>10. QED
  BY <1>6, <1>8, <1>9 DEF s

Zero == [i \in Places |-> 0]

\* Zero is worth nothing.
LEMMA ZeroValue == Zero \in Numbers /\ Value(Zero) = 0
<1>1. Zero[0] = 0 /\ Zero[1] = 0 /\ Zero[2] = 0 /\ Zero[3] = 0
  BY DEF Zero, Places
<1>2. QED
  BY <1>1 DEF Value, Zero, Numbers, Bytes

\* inc32 counts up by one.
LEMMA Plus1Counts ==
  ASSUME NEW a \in Numbers
  PROVE  Plus1(a) \in Numbers /\ Value(Plus1(a)) = (Value(a) + 1) % W
<1> DEFINE Over(i) == \A j \in 0 .. i - 1 : a[j] = Base - 1
           c == [i \in 0 .. 4 |-> IF Over(i) THEN 1 ELSE 0]
           s == Plus1(a)
<1>1. ASSUME NEW i \in Places PROVE Over(i + 1) <=> Over(i) /\ a[i] = Base - 1
  <2>1. i \in Int /\ 0 <= i /\ 0 .. i + 1 - 1 = (0 .. i - 1) \cup {i}
    BY DEF Places
  <2>2. QED
    BY <2>1
<1>2. s = [i \in Places |-> IF Over(i) THEN (a[i] + 1) % Base ELSE a[i]]
  BY DEF Plus1
<1>3. Over(0)
  OBVIOUS
<1> HIDE DEF Over
<1>4. ASSUME NEW i \in Places
      PROVE  s[i] \in Bytes /\ a[i] + 0 + c[i] = s[i] + Base * c[i + 1]
  <2>1. c[i] = IF Over(i) THEN 1 ELSE 0
    BY DEF Places
  <2>2. c[i + 1] = IF Over(i + 1) THEN 1 ELSE 0
    BY DEF Places
  <2>3. s[i] = IF Over(i) THEN (a[i] + 1) % Base ELSE a[i]
    BY <1>2
  <2>4. \A u \in Bytes : /\ u = Base - 1 => (u + 1) % Base = 0
                         /\ u # Base - 1 => (u + 1) % Base = u + 1
                         /\ (u + 1) % Base \in Bytes
    BY DEF Bytes
  <2>5. a[i] \in Bytes
    BY DEF Numbers
  <2> HIDE DEF c
  <2>6. CASE Over(i) /\ a[i] = Base - 1
    BY <1>1, <2>1, <2>2, <2>3, <2>4, <2>5, <2>6 DEF Bytes
  <2>7. CASE ~(Over(i) /\ a[i] = Base - 1)
    BY <1>1, <2>1, <2>2, <2>3, <2>4, <2>5, <2>7 DEF Bytes
  <2>8. QED
    BY <2>6, <2>7
<1>5. c \in [0 .. 4 -> Int] /\ c[0] = 1
  BY <1>3
<1> HIDE DEF c
<1>6. s \in Numbers
  BY <1>2, <1>4 DEF Numbers
<1>7. Carried(a, Zero, s, c)
  BY <1>4 DEF Carried, Zero
<1>8. Value(s) = (Value(a) + Value(Zero) + c[0]) % W
  BY <1>5, <1>6, <1>7, ZeroValue, ColumnsModulo DEF Numbers, Bytes
<1>9. QED
  BY <1>5, <1>6, <1>8, ZeroValue, ValueRange DEF s

----------------------------------------------------------------------------
(* Shifts. *)

\* A shift by a byte.
LEMMA UpByteShifts ==
  ASSUME NEW a \in Numbers
  PROVE  /\ UpByte(a) \in Numbers /\ UpByte(a)[3] = a[2] /\ a[2] \in Bytes /\ a[3] \in Bytes
         /\ Value(UpByte(a)) + W * a[3] = Base * Value(a)
<1>1. UpByte(a) \in Numbers
  BY DEF UpByte, Numbers, Places, Bytes
<1>2. UpByte(a)[0] = 0 /\ UpByte(a)[1] = a[0] /\ UpByte(a)[2] = a[1] /\ UpByte(a)[3] = a[2]
  BY DEF UpByte, Places
<1>3. PICK a0 \in Int, a1 \in Int, a2 \in Int, a3 \in Int :
        a0 = a[0] /\ a1 = a[1] /\ a2 = a[2] /\ a3 = a[3]
  BY DEF Numbers, Places, Bytes
<1>4. 0 + Base * (a0 + Base * (a1 + Base * a2)) + W * a3
        = Base * (a0 + Base * (a1 + Base * (a2 + Base * a3)))
  BY DEF W
<1>5. a[2] \in Bytes /\ a[3] \in Bytes
  BY DEF Numbers, Places
<1>6. QED
  BY <1>1, <1>2, <1>3, <1>4, <1>5 DEF Value

\* The same to the right; the byte that leaves is the remainder.
LEMMA DownByteShifts ==
  ASSUME NEW a \in Numbers
  PROVE  /\ DownByte(a) \in Numbers /\ DownByte(a)[0] = a[1] /\ a[0] \in Bytes
         /\ Value(a) = a[0] + Base * Value(DownByte(a))
<1>1. DownByte(a) \in Numbers
  BY DEF DownByte, Numbers, Places, Bytes
<1>2. DownByte(a)[0] = a[1] /\ DownByte(a)[1] = a[2] /\ DownByte(a)[2] = a[3] /\ DownByte(a)[3] = 0
  BY DEF DownByte, Places
<1>3. PICK a0 \in Int, a1 \in Int, a2 \in Int, a3 \in Int :
        a0 = a[0] /\ a1 = a[1] /\ a2 = a[2] /\ a3 = a[3]
  BY DEF Numbers, Places, Bytes
<1>4. a0 + Base * (a1 + Base * (a2 + Base * a3)) = a0 + Base * (a1 + Base * (a2 + Base * (a3 + Base * 0)))
  OBVIOUS
<1>5. a[0] \in Bytes
  BY DEF Numbers, Places
<1>6. QED
  BY <1>1, <1>2, <1>3, <1>4, <1>5 DEF Value

\* Half of a byte.
Half == Base \div 2

\* A byte has two halves.
LEMMA BaseHalves == Half \in Nat /\ Half > 0 /\ Base = 2 * Half
BY DEF Half

\* A shift by a bit to the left.
LEMMA DoubleShifts ==
  ASSUME NEW a \in Numbers
  PROVE  /\ Double(a) \in Numbers /\ (2 * a[3]) \div Base \in 0 .. 1
         /\ Value(Double(a)) + W * ((2 * a[3]) \div Base) = 2 * Value(a)
<1> DEFINE c == [i \in 0 .. 4 |-> IF i = 0 THEN 0 ELSE (2 * a[i - 1]) \div Base]
           s == Double(a)
<1>1. \A u \in Bytes : /\ (2 * u) \div Base \in 0 .. 1 /\ (2 * u) % Base \in 0 .. Base - 2
                       /\ 2 * u = ((2 * u) % Base) + Base * ((2 * u) \div Base)
  <2> SUFFICES ASSUME NEW u \in Bytes
               PROVE  /\ (2 * u) \div Base \in 0 .. 1 /\ (2 * u) % Base \in 0 .. Base - 2
                      /\ 2 * u = ((2 * u) % Base) + Base * ((2 * u) \div Base)
    OBVIOUS
  <2>1. CASE u < Half
    <3>1. 2 * u \in 0 .. Base - 2
      BY <2>1, BaseHalves DEF Bytes
    <3>2. (2 * u) % Base = 2 * u /\ (2 * u) \div Base = 0
      BY <3>1
    <3>3. QED
      BY <3>1, <3>2
  <2>2. CASE u >= Half
    <3>1. 2 * u - Base \in 0 .. Base - 2
      BY <2>2, BaseHalves DEF Bytes
    <3>2. PICK r \in 0 .. Base - 2 : r = 2 * u - Base
      BY <3>1
    <3>3. (r + Base * 1) % Base = r /\ (r + Base * 1) \div Base = 1
      BY <3>2, Remainder
    <3>4. r + Base * 1 = 2 * u
      BY <3>2 DEF Bytes
    <3>5. (2 * u) % Base = r /\ (2 * u) \div Base = 1
      BY <3>3, <3>4
    <3>6. QED
      BY <3>4, <3>5
  <2>3. QED
    BY <2>1, <2>2, BaseHalves DEF Bytes
<1>2. \A i \in Places : a[i] \in Bytes /\ c[i + 1] = (2 * a[i]) \div Base
  BY DEF Numbers, Places
<1>3. c[0] = 0 /\ c[4] = (2 * a[3]) \div Base /\ a[3] \in Bytes
  BY DEF Numbers, Places
<1>4. c \in [0 .. 4 -> 0 .. 1]
  <2>1. 0 + 1 = 1 /\ 1 + 1 = 2 /\ 2 + 1 = 3 /\ 3 + 1 = 4 /\ Places = {0, 1, 2, 3}
    BY DEF Places
  <2>2. \A i \in Places : c[i + 1] \in 0 .. 1
    BY <1>1, <1>2
  <2>3. c[0] \in 0 .. 1 /\ c[1] \in 0 .. 1 /\ c[2] \in 0 .. 1 /\ c[3] \in 0 .. 1 /\ c[4] \in 0 .. 1
    <3> HIDE DEF c
    <3>1. c[0 + 1] \in 0 .. 1 /\ c[1 + 1] \in 0 .. 1 /\ c[2 + 1] \in 0 .. 1 /\ c[3 + 1] \in 0 .. 1
      BY <2>1, <2>2
    <3>2. QED
      BY <1>3, <3>1
  <2>4. \A i \in 0 .. 4 : c[i] \in 0 .. 1
    <3> HIDE DEF c
    <3>1. 0 .. 4 = {0, 1, 2, 3, 4}
      OBVIOUS
    <3>2. QED
      BY <2>3, <3>1
  <2>5. QED
    BY <2>4
<1>5. s = [i \in Places |-> ((2 * a[i]) % Base) + c[i]]
  <2>1. \A i \in Places : c[i] = IF i = 0 THEN 0 ELSE (2 * a[i - 1]) \div Base
    BY DEF Places
  <2> HIDE DEF c
  <2>2. QED
    BY <2>1 DEF Double
<1> HIDE DEF c, s
<1>6. ASSUME NEW i \in Places
      PROVE  s[i] \in Bytes /\ a[i] + a[i] + c[i] = s[i] + Base * c[i + 1]
  <2>1. a[i] \in Bytes /\ c[i + 1] = (2 * a[i]) \div Base /\ c[i] \in 0 .. 1
    BY <1>2, <1>4 DEF Places
  <2>2. s[i] = ((2 * a[i]) % Base) + c[i]
    BY <1>5
  <2>3. (2 * a[i]) % Base \in 0 .. Base - 2 /\ 2 * a[i] = ((2 * a[i]) % Base) + Base * c[i + 1]
    BY <1>1, <2>1
  <2>4. c[i + 1] \in 0 .. 1
    BY <1>1, <2>1
  <2>5. PICK u \in Bytes, r \in 0 .. Base - 2, p \in 0 .. 1, q \in 0 .. 1 :
          u = a[i] /\ r = (2 * a[i]) % Base /\ p = c[i] /\ q = c[i + 1]
    BY <2>1, <2>3, <2>4
  <2>6. 2 * u = r + Base * q /\ s[i] = r + p
    BY <2>2, <2>3, <2>5
  <2>7. r + p \in Bytes /\ u + u + p = r + p + Base * q
    BY <2>6 DEF Bytes
  <2>8. QED
    BY <2>5, <2>6, <2>7
<1>7. s \in Numbers /\ Carried(a, a, s, c)
  BY <1>5, <1>6 DEF Numbers, Carried
<1>8. Value(a) + Value(a) + c[0] = Value(s) + W * c[4]
  BY <1>4, <1>7, ColumnsModulo DEF Numbers, Bytes
<1>9. Value(s) + W * ((2 * a[3]) \div Base) = 2 * Value(a)
  <2>1. Value(a) \in Int
    BY ValueRange
  <2>2. QED
    BY <1>3, <1>8, <2>1
<1>10. QED
  BY <1>1, <1>3, <1>7, <1>9 DEF s

\* A shift by a bit to the right.
LEMMA HalveShifts ==
  ASSUME NEW a \in Numbers
  PROVE  Halve(a) \in Numbers /\ a[0] % 2 \in 0 .. 1 /\ 2 * Value(Halve(a)) + (a[0] % 2) = Value(a)
<1> DEFINE c == [i \in 0 .. 4 |-> IF i = 4 THEN 0 ELSE a[i] % 2]
           s == Halve(a)
<1>1. \A u \in Bytes : /\ u % 2 \in 0 .. 1 /\ u \div 2 \in 0 .. Half - 1
                       /\ u = (u % 2) + 2 * (u \div 2)
  BY BaseHalves DEF Bytes
<1>2. ASSUME NEW i \in Places
      PROVE  /\ a[i] \in Bytes /\ c[i] = a[i] % 2 /\ c[i + 1] \in 0 .. 1
             /\ s[i] = (a[i] \div 2) + c[i + 1] * Half
  <2>1. a[i] \in Bytes /\ c[i] = a[i] % 2
    BY DEF Numbers, Places
  <2>2. CASE i = 3
    <3>1. s[i] = a[i] \div 2 + 0 /\ c[i + 1] = 0
      BY <2>2 DEF Halve
    <3>2. QED
      BY <1>1, <2>1, <3>1, BaseHalves
  <2>3. CASE i # 3
    <3>1. i + 1 \in Places /\ i + 1 # 4 /\ i + 1 \in 0 .. 4
      BY <2>3 DEF Places
    <3>2. a[i + 1] \in Bytes /\ c[i + 1] = a[i + 1] % 2
      BY <3>1 DEF Numbers
    <3>3. s[i] = a[i] \div 2 + (a[i + 1] % 2) * Half
      BY <2>3 DEF Halve, Half
    <3>4. QED
      BY <1>1, <2>1, <3>2, <3>3
  <2>4. QED
    BY <2>2, <2>3
<1>3. c[4] = 0 /\ c[0] = a[0] % 2 /\ a[0] \in Bytes
  BY DEF Numbers, Places
<1>4. c \in [0 .. 4 -> 0 .. 1]
  <2>1. \A i \in 0 .. 4 : i # 4 => a[i] \in Bytes
    BY DEF Numbers, Places
  <2>2. QED
    BY <1>1, <2>1
<1>5. s = [i \in Places |-> s[i]]
  BY DEF Halve
<1> HIDE DEF c, s
<1>6. ASSUME NEW i \in Places
      PROVE  s[i] \in Bytes /\ s[i] + s[i] + c[i] = a[i] + Base * c[i + 1]
  <2>1. PICK u \in Bytes, p \in 0 .. 1, q \in 0 .. 1 : u = a[i] /\ p = c[i] /\ q = c[i + 1]
    BY <1>1, <1>2
  <2>2. u = p + 2 * (u \div 2) /\ u \div 2 \in 0 .. Half - 1 /\ s[i] = (u \div 2) + q * Half
    BY <1>1, <1>2, <2>1
  <2>3. q * Half \in {0, Half} /\ Base * q = 2 * (q * Half)
    BY BaseHalves
  <2>4. PICK h \in 0 .. Half - 1, z \in {0, Half} : h = u \div 2 /\ z = q * Half
    BY <2>2, <2>3
  <2>5. s[i] = h + z /\ u = p + 2 * h /\ Base * q = 2 * z
    BY <2>2, <2>3, <2>4
  <2>6. h + z \in Bytes /\ h + z + (h + z) + p = u + Base * q
    BY <2>5, BaseHalves DEF Bytes
  <2>7. QED
    BY <2>1, <2>5, <2>6
<1>7. s \in Numbers /\ Carried(s, s, a, c)
  BY <1>5, <1>6 DEF Numbers, Carried
<1>8. Value(s) + Value(s) + c[0] = Value(a) + W * c[4]
  BY <1>4, <1>7, ColumnsModulo DEF Numbers, Bytes
<1>9. QED
  <2>1. Value(s) \in Int /\ Value(a) \in Int /\ W \in Nat
    BY <1>7, ValueRange
  <2>2. QED
    BY <1>1, <1>3, <1>7, <1>8, <2>1 DEF s

----------------------------------------------------------------------------
(* Counting down, and the address of a cluster. *)

\* What Minus1 should be: the bytes above one that is not zero stay.
CountedDown(a) ==
  [i \in Places |-> IF \A j \in 0 .. i - 1 : a[j] = 0 THEN (a[i] - 1) % Base ELSE a[i]]

\* A byte that is counted down.
LEMMA ByteDown ==
  ASSUME NEW u \in Bytes
  PROVE  /\ (u - 1) % Base \in Bytes /\ (u - 1) % Base # u
         /\ u = 0 => (u - 1) % Base = Base - 1
         /\ u # 0 => (u - 1) % Base = u - 1
         /\ (u - 1) % Base >= Half <=> (u = 0 \/ u > Half)
<1>1. CASE u = 0
  <2>1. Base - 1 \in 0 .. Base - 1 /\ Base - 1 >= Half /\ Base - 1 # 0
    BY BaseHalves
  <2>2. (Base - 1 + Base * (-1)) % Base = Base - 1
    BY <2>1, Remainder
  <2>3. Base - 1 + Base * (-1) = u - 1
    BY <1>1
  <2>4. QED
    BY <1>1, <2>1, <2>2, <2>3 DEF Bytes
<1>2. CASE u # 0
  <2>1. u - 1 \in 0 .. Base - 1
    BY <1>2 DEF Bytes
  <2>2. (u - 1) % Base = u - 1
    BY <2>1
  <2>3. QED
    BY <1>2, <2>1, <2>2, BaseHalves DEF Bytes
<1>3. QED
  BY <1>1, <1>2

\* It counts down by one.
LEMMA CountedDownCounts ==
  ASSUME NEW a \in Numbers
  PROVE  CountedDown(a) \in Numbers /\ Value(CountedDown(a)) = (Value(a) - 1) % W
<1> DEFINE Zeros(i) == \A j \in 0 .. i - 1 : a[j] = 0
           c == [i \in 0 .. 4 |-> IF Zeros(i) THEN -1 ELSE 0]
           s == CountedDown(a)
<1>1. ASSUME NEW i \in Places PROVE Zeros(i + 1) <=> Zeros(i) /\ a[i] = 0
  <2>1. i \in Int /\ 0 <= i /\ 0 .. i + 1 - 1 = (0 .. i - 1) \cup {i}
    BY DEF Places
  <2>2. QED
    BY <2>1
<1>2. s = [i \in Places |-> IF Zeros(i) THEN (a[i] - 1) % Base ELSE a[i]]
  BY DEF CountedDown
<1>3. Zeros(0)
  OBVIOUS
<1> HIDE DEF Zeros
<1>4. ASSUME NEW i \in Places
      PROVE  s[i] \in Bytes /\ a[i] + 0 + c[i] = s[i] + Base * c[i + 1]
  <2>1. c[i] = IF Zeros(i) THEN -1 ELSE 0
    BY DEF Places
  <2>2. c[i + 1] = IF Zeros(i + 1) THEN -1 ELSE 0
    BY DEF Places
  <2>3. s[i] = IF Zeros(i) THEN (a[i] - 1) % Base ELSE a[i]
    BY <1>2
  <2>4. a[i] \in Bytes
    BY DEF Numbers
  <2> HIDE DEF c
  <2>5. CASE Zeros(i) /\ a[i] = 0
    BY <1>1, <2>1, <2>2, <2>3, <2>4, <2>5, ByteDown DEF Bytes
  <2>6. CASE ~(Zeros(i) /\ a[i] = 0)
    BY <1>1, <2>1, <2>2, <2>3, <2>4, <2>6, ByteDown DEF Bytes
  <2>7. QED
    BY <2>5, <2>6
<1>5. c \in [0 .. 4 -> Int] /\ c[0] = -1
  BY <1>3
<1> HIDE DEF c
<1>6. s \in Numbers
  BY <1>2, <1>4 DEF Numbers
<1>7. Carried(a, Zero, s, c)
  BY <1>4 DEF Carried, Zero
<1>8. Value(s) = (Value(a) + Value(Zero) + c[0]) % W
  BY <1>5, <1>6, <1>7, ZeroValue, ColumnsModulo DEF Numbers, Bytes
<1>9. QED
  BY <1>5, <1>6, <1>8, ZeroValue, ValueRange DEF s

\* dec32 counts down exactly the numbers of LowestSmall.
LEMMA Minus1Counts ==
  ASSUME NEW a \in Numbers
  PROVE  Minus1(a) \in Numbers /\ (Value(Minus1(a)) = (Value(a) - 1) % W <=> LowestSmall(a))
<1> DEFINE Zeros(i) == \A j \in 0 .. i - 1 : a[j] = 0
           Runs(i) == \A j \in 0 .. i - 1 : (a[j] - 1) % Base >= Half
<1>1. ASSUME NEW i \in Places
      PROVE  /\ Zeros(i + 1) <=> Zeros(i) /\ a[i] = 0
             /\ Runs(i + 1) <=> Runs(i) /\ (a[i] = 0 \/ a[i] > Half)
             /\ a[i] \in Bytes
  <2>1. i \in Int /\ 0 <= i /\ 0 .. i + 1 - 1 = (0 .. i - 1) \cup {i}
    BY DEF Places
  <2>2. a[i] \in Bytes
    BY DEF Numbers
  <2>3. (a[i] - 1) % Base >= Half <=> (a[i] = 0 \/ a[i] > Half)
    BY <2>2, ByteDown
  <2>4. QED
    BY <2>1, <2>2, <2>3
<1>2. Zeros(0) /\ Runs(0)
  OBVIOUS
<1>3. /\ CountedDown(a) = [i \in Places |-> IF Zeros(i) THEN (a[i] - 1) % Base ELSE a[i]]
      /\ Minus1(a) = [i \in Places |-> IF Runs(i) THEN (a[i] - 1) % Base ELSE a[i]]
  BY DEF CountedDown, Minus1, Half
<1>4. LowestSmall(a) <=> \A i \in 0 .. 2 : a[i] # 0 /\ Zeros(i) => a[i] <= Half
  BY DEF LowestSmall, Half
<1> HIDE DEF Zeros, Runs
<1>5. Minus1(a) \in Numbers
  BY <1>1, <1>3, ByteDown DEF Numbers
<1>6. Minus1(a) = CountedDown(a) <=> \A i \in Places : (Runs(i) <=> Zeros(i))
  <2>1. (\A i \in Places : (Runs(i) <=> Zeros(i))) => Minus1(a) = CountedDown(a)
    BY <1>3
  <2>2. ASSUME Minus1(a) = CountedDown(a), NEW i \in Places
        PROVE  Runs(i) <=> Zeros(i)
    <3>1. Minus1(a)[i] = CountedDown(a)[i]
      BY <2>2
    <3>2. (IF Runs(i) THEN (a[i] - 1) % Base ELSE a[i]) = (IF Zeros(i) THEN (a[i] - 1) % Base ELSE a[i])
      BY <1>3, <3>1
    <3>3. (a[i] - 1) % Base # a[i]
      BY <1>1, ByteDown
    <3>4. QED
      BY <3>2, <3>3
  <2>3. QED
    BY <2>1, <2>2
<1>7. (\A i \in Places : (Runs(i) <=> Zeros(i))) <=> LowestSmall(a)
  <2>1. Places = {0, 1, 2, 3} /\ 0 .. 2 = {0, 1, 2} /\ 0 + 1 = 1 /\ 1 + 1 = 2 /\ 2 + 1 = 3
    BY DEF Places
  <2>2. /\ Zeros(1) <=> Zeros(0) /\ a[0] = 0
        /\ Zeros(2) <=> Zeros(1) /\ a[1] = 0
        /\ Zeros(3) <=> Zeros(2) /\ a[2] = 0
        /\ Runs(1) <=> Runs(0) /\ (a[0] = 0 \/ a[0] > Half)
        /\ Runs(2) <=> Runs(1) /\ (a[1] = 0 \/ a[1] > Half)
        /\ Runs(3) <=> Runs(2) /\ (a[2] = 0 \/ a[2] > Half)
        /\ a[0] \in Int /\ a[1] \in Int /\ a[2] \in Int
    BY <1>1, <2>1 DEF Bytes
  <2>3. LowestSmall(a) <=> /\ a[0] # 0 /\ Zeros(0) => a[0] <= Half
                           /\ a[1] # 0 /\ Zeros(1) => a[1] <= Half
                           /\ a[2] # 0 /\ Zeros(2) => a[2] <= Half
    BY <1>4, <2>1
  <2>4. (\A i \in Places : (Runs(i) <=> Zeros(i))) <=>
          (Runs(1) <=> Zeros(1)) /\ (Runs(2) <=> Zeros(2)) /\ (Runs(3) <=> Zeros(3))
    BY <1>2, <2>1
  <2>5. QED
    BY <1>2, <2>2, <2>3, <2>4, BaseHalves
<1>8. Value(Minus1(a)) = (Value(a) - 1) % W <=> Minus1(a) = CountedDown(a)
  BY <1>5, CountedDownCounts, BelowIsLess
<1>9. QED
  BY <1>5, <1>6, <1>7, <1>8

\* Two clusters less, for the clusters of LowClustersPlaced.
LEMMA TwoLess ==
  ASSUME NEW a \in Numbers, a[0] \in 2 .. Base \div 2
  PROVE  Value(Minus1(Minus1(a))) = Value(a) - 2
<1> DEFINE b == Minus1(a)
<1>1. ASSUME NEW n \in Numbers, n[0] \in 1 .. Half
      PROVE  Minus1(n) \in Numbers /\ Minus1(n)[0] = n[0] - 1 /\ Value(Minus1(n)) = Value(n) - 1
  <2>1. LowestSmall(n)
    <3> SUFFICES ASSUME NEW i \in 0 .. 2, n[i] # 0, \A j \in 0 .. i - 1 : n[j] = 0
                 PROVE  n[i] <= Half
      BY DEF LowestSmall, Half
    <3>1. i = 0
      <4>1. i # 0 => 0 \in 0 .. i - 1
        OBVIOUS
      <4>2. QED
        BY <1>1, <4>1
    <3>2. QED
      BY <1>1, <3>1
  <2>2. Minus1(n) \in Numbers /\ Value(Minus1(n)) = (Value(n) - 1) % W
    BY <2>1, Minus1Counts
  <2>3. Minus1(n)[0] = (n[0] - 1) % Base
    BY DEF Minus1, Places
  <2>4. n[0] \in Bytes /\ n[0] # 0
    BY <1>1 DEF Numbers, Places
  <2>5. Minus1(n)[0] = n[0] - 1
    BY <2>3, <2>4, ByteDown
  <2>6. Value(n) # 0
    <3>1. Value(Zero) = 0 /\ Zero \in Numbers /\ Zero[0] = 0
      BY ZeroValue DEF Zero, Places
    <3>2. n # Zero
      BY <2>4, <3>1
    <3>3. QED
      BY <3>1, <3>2, BelowIsLess
  <2>7. Value(n) - 1 \in 0 .. W - 1 /\ W \in Nat
    BY <2>6, ValueRange
  <2>8. (Value(n) - 1) % W = Value(n) - 1
    BY <2>7
  <2>9. QED
    BY <2>2, <2>5, <2>8
<1>2. a[0] \in 2 .. Half
  BY DEF Half
<1>3. b \in Numbers /\ b[0] = a[0] - 1 /\ Value(b) = Value(a) - 1
  BY <1>1, <1>2, BaseHalves
<1> HIDE DEF b
<1>4. Value(Minus1(b)) = Value(b) - 1
  BY <1>1, <1>2, <1>3, BaseHalves
<1>5. Value(a) \in Int
  BY ValueRange
<1>6. QED
  BY <1>3, <1>4, <1>5 DEF b

\* Numbers are counted by steps of one: a set that holds 0 and with every number
\* the next one holds them all.
LEMMA Counting ==
  ASSUME NEW S, 0 \in S, \A n \in Nat : n \in S => n + 1 \in S
  PROVE  Nat \subseteq S
<1> DEFINE T == Nat \ S
<1>1. SUFFICES ASSUME T # {} PROVE FALSE
  OBVIOUS
<1>2. PICK n \in T : \A m \in T : ~(<<m, n>> \in OpToRel(<, Nat))
  <2>1. T \subseteq Nat
    OBVIOUS
  <2>2. QED
    BY <1>1, <2>1, WFMin, NatLessThanWellFounded
<1>3. n \in Nat /\ n # 0
  OBVIOUS
<1>4. n - 1 \in T
  BY <1>3
<1>5. <<n - 1, n>> \in OpToRel(<, Nat)
  <2>1. OpToRel(<, Nat) = {ss \in Nat \X Nat : ss[1] < ss[2]}
    BY Zenon DEF OpToRel
  <2>2. <<n - 1, n>> \in {ss \in Nat \X Nat : ss[1] < ss[2]}
    BY <1>3, <1>4
  <2>3. QED
    BY <2>1, <2>2, Zenon
<1>6. QED
  BY <1>2, <1>4, <1>5

\* The loop of shifts, and the count of blocks, one shift behind the other.
Shifts(a, k, f) == f = [i \in 0 .. k |-> IF i = 0 THEN a ELSE Double(f[i - 1])]
Counts(k, n) == n = [i \in 0 .. k |-> IF i = 0 THEN 1 ELSE 2 * n[i - 1]]

\* The loop can be run for any count: one more shift extends what there is.
LEMMA ShiftsExist ==
  ASSUME NEW a, NEW k \in Nat
  PROVE  \E f : Shifts(a, k, f)
<1> DEFINE S == {n \in Nat : \E f : Shifts(a, n, f)}
<1>1. 0 \in S
  <2> DEFINE f == [i \in 0 .. 0 |-> a]
             g == [i \in 0 .. 0 |-> IF i = 0 THEN a ELSE Double(f[i - 1])]
  <2>1. \A i \in 0 .. 0 : f[i] = g[i]
    <3>1. \A i \in 0 .. 0 : i = 0
      OBVIOUS
    <3>2. QED
      BY <3>1
  <2>2. f = g
    BY <2>1
  <2>3. QED
    BY <2>2 DEF Shifts
<1>2. ASSUME NEW n \in Nat, n \in S PROVE n + 1 \in S
  <2>1. PICK f : Shifts(a, n, f)
    BY <1>2
  <2> DEFINE h == [i \in 0 .. n + 1 |-> IF i = 0 THEN a ELSE Double(f[i - 1])]
             g == [i \in 0 .. n + 1 |-> IF i = 0 THEN a ELSE Double(h[i - 1])]
  <2>2. \A i \in 0 .. n : f[i] = h[i]
    <3>1. \A i \in 0 .. n : f[i] = IF i = 0 THEN a ELSE Double(f[i - 1])
      BY <2>1 DEF Shifts
    <3>2. \A i \in 0 .. n : i \in 0 .. n + 1
      OBVIOUS
    <3>3. QED
      BY <3>1, <3>2
  <2>3. \A i \in 0 .. n + 1 : i # 0 => i - 1 \in 0 .. n
    OBVIOUS
  <2>4. \A i \in 0 .. n + 1 : h[i] = g[i]
    <3> SUFFICES ASSUME NEW i \in 0 .. n + 1 PROVE h[i] = g[i]
      OBVIOUS
    <3>1. CASE i = 0
      BY <3>1
    <3>2. CASE i # 0
      <4>1. f[i - 1] = h[i - 1]
        BY <2>2, <2>3, <3>2
      <4> HIDE DEF h
      <4>2. g[i] = Double(h[i - 1])
        BY <3>2
      <4>3. h[i] = Double(f[i - 1])
        BY <3>2 DEF h
      <4>4. QED
        BY <4>1, <4>2, <4>3
    <3>3. QED
      BY <3>1, <3>2
  <2>5. h = g
    BY <2>4
  <2>6. Shifts(a, n + 1, h)
    BY <2>5 DEF Shifts
  <2>7. QED
    BY <2>6
<1>3. Nat \subseteq S
  <2> HIDE DEF S
  <2>1. QED
    BY <1>1, <1>2, Counting
<1>4. QED
  BY <1>3

\* The count of blocks exists for the same reason.
LEMMA CountsExist ==
  ASSUME NEW k \in Nat
  PROVE  \E f : Counts(k, f)
<1> DEFINE S == {n \in Nat : \E f : Counts(n, f)}
<1>1. 0 \in S
  <2> DEFINE f == [i \in 0 .. 0 |-> 1]
             g == [i \in 0 .. 0 |-> IF i = 0 THEN 1 ELSE 2 * f[i - 1]]
  <2>1. \A i \in 0 .. 0 : f[i] = g[i]
    <3>1. \A i \in 0 .. 0 : i = 0
      OBVIOUS
    <3>2. QED
      BY <3>1
  <2>2. f = g
    BY <2>1
  <2>3. QED
    BY <2>2 DEF Counts
<1>2. ASSUME NEW n \in Nat, n \in S PROVE n + 1 \in S
  <2>1. PICK f : Counts(n, f)
    BY <1>2
  <2> DEFINE h == [i \in 0 .. n + 1 |-> IF i = 0 THEN 1 ELSE 2 * f[i - 1]]
             g == [i \in 0 .. n + 1 |-> IF i = 0 THEN 1 ELSE 2 * h[i - 1]]
  <2>2. \A i \in 0 .. n : f[i] = h[i]
    <3>1. \A i \in 0 .. n : f[i] = IF i = 0 THEN 1 ELSE 2 * f[i - 1]
      BY <2>1 DEF Counts
    <3>2. \A i \in 0 .. n : i \in 0 .. n + 1
      OBVIOUS
    <3>3. QED
      BY <3>1, <3>2
  <2>3. \A i \in 0 .. n + 1 : i # 0 => i - 1 \in 0 .. n
    OBVIOUS
  <2>4. \A i \in 0 .. n + 1 : h[i] = g[i]
    <3> SUFFICES ASSUME NEW i \in 0 .. n + 1 PROVE h[i] = g[i]
      OBVIOUS
    <3>1. CASE i = 0
      BY <3>1
    <3>2. CASE i # 0
      <4>1. f[i - 1] = h[i - 1]
        BY <2>2, <2>3, <3>2
      <4> HIDE DEF h
      <4>2. g[i] = 2 * h[i - 1]
        BY <3>2
      <4>3. h[i] = 2 * f[i - 1]
        BY <3>2 DEF h
      <4>4. QED
        BY <4>1, <4>2, <4>3
    <3>3. QED
      BY <3>1, <3>2
  <2>5. h = g
    BY <2>4
  <2>6. Counts(n + 1, h)
    BY <2>5 DEF Counts
  <2>7. QED
    BY <2>6
<1>3. Nat \subseteq S
  <2> HIDE DEF S
  <2>1. QED
    BY <1>1, <1>2, Counting
<1>4. QED
  BY <1>3

\* A multiple of the modulus makes no difference.
LEMMA WholeTurns ==
  ASSUME NEW m \in Nat, m > 0, NEW n \in Int, NEW q \in Int
  PROVE  (n - m * q) % m = n % m
<1>1. PICK r \in 0 .. m - 1, d \in Int : n = r + m * d /\ r = n % m
  BY Division
<1>2. (r + m * (d - q)) % m = r
  BY Remainder
<1>3. r + m * (d - q) = n - m * q
  BY <1>1
<1>4. QED
  BY <1>1, <1>2, <1>3

\* A number shifted k bits, and one more, is worth 2 * BlocksIn(k) times as much,
\* but for what is lost at the top.
LEMMA ShiftedValue ==
  ASSUME NEW a \in Numbers, NEW k \in Nat, NEW f, Shifts(a, k + 1, f)
  PROVE  /\ f[k + 1] \in Numbers /\ BlocksIn(k) \in Nat
         /\ \E q \in Int : Value(f[k + 1]) + W * q = 2 * BlocksIn(k) * Value(a)
<1> DEFINE n == CHOOSE h : Counts(k, h)
           S == {i \in Nat : i <= k =>
                  /\ n[i] \in Nat /\ f[i + 1] \in Numbers
                  /\ \E q \in Int : Value(f[i + 1]) + W * q = 2 * n[i] * Value(a)}
<1>1. Counts(k, n)
  BY CountsExist
<1>2. BlocksIn(k) = n[k]
  BY DEF BlocksIn, Counts
<1> HIDE DEF n
<1>3. n[0] = 1 /\ \A i \in Nat : i + 1 <= k => n[i + 1] = 2 * n[i]
  <2>1. n[0] = 1
    BY <1>1 DEF Counts
  <2>2. ASSUME NEW i \in Nat, i + 1 <= k PROVE n[i + 1] = 2 * n[i]
    <3>1. i + 1 \in 0 .. k /\ i + 1 # 0 /\ i + 1 - 1 = i
      BY <2>2
    <3>2. n[i + 1] = 2 * n[i + 1 - 1]
      BY <1>1, <3>1 DEF Counts
    <3>3. QED
      BY <3>1, <3>2
  <2>3. QED
    BY <2>1, <2>2
<1>4. f[0] = a /\ \A i \in Nat : i <= k => f[i + 1] = Double(f[i])
  <2>1. f[0] = a
    BY DEF Shifts
  <2>2. ASSUME NEW i \in Nat, i <= k PROVE f[i + 1] = Double(f[i])
    <3>1. i + 1 \in 0 .. k + 1 /\ i + 1 # 0 /\ i + 1 - 1 = i
      BY <2>2
    <3>2. f[i + 1] = Double(f[i + 1 - 1])
      BY <3>1 DEF Shifts
    <3>3. QED
      BY <3>1, <3>2
  <2>3. QED
    BY <2>1, <2>2
<1>w. W \in Nat /\ Value(a) \in Int
  BY ValueRange
<1>5. ASSUME NEW b \in Numbers
      PROVE  Double(b) \in Numbers /\ Value(b) \in Int /\ Value(Double(b)) \in Int
             /\ \E d \in Int : Value(Double(b)) + W * d = 2 * Value(b)
  <2>1. (2 * b[3]) \div Base \in Int
    BY DoubleShifts
  <2>2. QED
    BY <2>1, DoubleShifts, ValueRange
<1>6. 0 \in S
  <2>1. f[0 + 1] = Double(a)
    BY <1>4
  <2>2. \E q \in Int : Value(Double(a)) + W * q = 2 * Value(a)
    BY <1>5
  <2>3. 2 * n[0] * Value(a) = 2 * Value(a)
    BY <1>3, <1>w
  <2>4. QED
    BY <1>3, <1>5, <2>1, <2>2, <2>3
<1>7. ASSUME NEW i \in Nat, i \in S PROVE i + 1 \in S
  <2> SUFFICES ASSUME i + 1 <= k
               PROVE  /\ n[i + 1] \in Nat /\ f[i + 1 + 1] \in Numbers
                      /\ \E q \in Int : Value(f[i + 1 + 1]) + W * q = 2 * n[i + 1] * Value(a)
    OBVIOUS
  <2>1. n[i] \in Nat /\ f[i + 1] \in Numbers
    BY <1>7
  <2>2. PICK q \in Int : Value(f[i + 1]) + W * q = 2 * n[i] * Value(a)
    BY <1>7
  <2>3. f[i + 1 + 1] = Double(f[i + 1]) /\ n[i + 1] = 2 * n[i]
    BY <1>3, <1>4
  <2>4. PICK d \in Int : Value(Double(f[i + 1])) + W * d = 2 * Value(f[i + 1])
    BY <1>5, <2>1
  <2>5. PICK u \in Int, v \in Int, m \in Nat, t \in Int :
          u = Value(f[i + 1]) /\ v = Value(Double(f[i + 1])) /\ m = n[i] /\ t = Value(a)
    BY <1>5, <1>w, <2>1
  <2>6. u + W * q = 2 * m * t /\ v + W * d = 2 * u
    BY <2>2, <2>4, <2>5
  <2>7. 2 * (u + W * q) = 2 * (2 * m * t)
    BY <2>6
  <2>8. v + W * (d + 2 * q) = 2 * (2 * m) * t
    BY <1>w, <2>6, <2>7
  <2>9. d + 2 * q \in Int
    OBVIOUS
  <2>10. Value(f[i + 1 + 1]) + W * (d + 2 * q) = 2 * n[i + 1] * Value(a)
    BY <2>3, <2>5, <2>8
  <2>11. n[i + 1] \in Nat /\ f[i + 1 + 1] \in Numbers
    BY <1>5, <2>1, <2>3
  <2>12. QED
    BY <2>9, <2>10, <2>11
<1>8. k \in S
  <2> HIDE DEF S
  <2>1. QED
    BY <1>6, <1>7, Counting
<1>9. QED
  BY <1>2, <1>8

\* fat_clusterToAddr: where the clusters are placed.
LEMMA AddressPlaces ==
  ASSUME NEW a \in Numbers, NEW b \in Numbers, NEW k \in Nat
  PROVE  /\ Address(a, b, k) \in Numbers
         /\ a[0] \in 2 .. Base \div 2 =>
              Value(Address(a, b, k)) = ((Value(a) - 2) * 2 * Base * BlocksIn(k) + Value(b)) % W
<1> DEFINE u == UpByte(Minus1(Minus1(a)))
           f == CHOOSE h : Shifts(u, k + 1, h)
<1>1. u \in Numbers /\ Minus1(Minus1(a)) \in Numbers
  BY Minus1Counts, UpByteShifts
<1>2. Address(a, b, k) = Plus(f[k + 1], b, 0)
  BY DEF Address, Shifts
<1>3. Shifts(u, k + 1, f)
  <2>1. k + 1 \in Nat
    OBVIOUS
  <2> HIDE DEF u
  <2>2. QED
    BY <2>1, ShiftsExist
<1> HIDE DEF f
<1>4. /\ f[k + 1] \in Numbers /\ BlocksIn(k) \in Nat
      /\ \E q \in Int : Value(f[k + 1]) + W * q = 2 * BlocksIn(k) * Value(u)
  <2> HIDE DEF u
  <2>1. QED
    BY <1>1, <1>3, ShiftedValue
<1>5. /\ Address(a, b, k) \in Numbers
      /\ Value(Address(a, b, k)) = (Value(f[k + 1]) + Value(b) + 0) % W
  BY <1>2, <1>4, PlusAdds
<1>6. ASSUME a[0] \in 2 .. Base \div 2
      PROVE  Value(Address(a, b, k)) = ((Value(a) - 2) * 2 * Base * BlocksIn(k) + Value(b)) % W
  <2>1. Value(Minus1(Minus1(a))) = Value(a) - 2
    BY <1>6, TwoLess
  <2>2. /\ Minus1(Minus1(a))[3] \in Bytes
        /\ Value(u) + W * Minus1(Minus1(a))[3] = Base * (Value(a) - 2)
    BY <1>1, <2>1, UpByteShifts
  <2>3. PICK q \in Int : Value(f[k + 1]) + W * q = 2 * BlocksIn(k) * Value(u)
    BY <1>4
  <2>4. PICK v \in Int, p \in Int, va \in Int, vb \in Int, n \in Nat, t \in Int :
          /\ v = Value(f[k + 1]) /\ p = Value(u) /\ va = Value(a) /\ vb = Value(b) /\ n = BlocksIn(k)
          /\ t = Minus1(Minus1(a))[3]
    <3>1. Value(f[k + 1]) \in Int /\ Value(a) \in Int /\ Value(b) \in Int
      BY <1>4, ValueRange
    <3>2. Value(u) \in Int
      BY <1>1, ValueRange
    <3>3. Minus1(Minus1(a))[3] \in Int
      BY <2>2 DEF Bytes
    <3> HIDE DEF u
    <3>4. QED
      BY <1>4, <3>1, <3>2, <3>3
  <2>5. v + W * q = 2 * n * p /\ p + W * t = Base * (va - 2)
    BY <2>2, <2>3, <2>4
  <2>6. W \in Nat /\ W > 0
    BY ValueRange
  <2>7. 2 * n * (p + W * t) = 2 * n * (Base * (va - 2))
    BY <2>5
  <2>8. 2 * n * p + W * (2 * n * t) = (va - 2) * 2 * Base * n
    BY <2>6, <2>7
  <2>9. v + vb + 0 = ((va - 2) * 2 * Base * n + vb) - W * (2 * n * t + q)
    BY <2>5, <2>6, <2>8
  <2>10. PICK m \in Int, z \in Int : m = (va - 2) * 2 * Base * n + vb /\ z = 2 * n * t + q
    OBVIOUS
  <2>11. (m - W * z) % W = m % W
    BY <2>6, WholeTurns
  <2>12. v + vb + 0 = m - W * z
    BY <2>9, <2>10
  <2>13. QED
    BY <1>5, <2>4, <2>10, <2>11, <2>12
<1>7. QED
  BY <1>5, <1>6

----------------------------------------------------------------------------
(* The routines. *)

\* The bits that go to the carry flag.
LEMMA Carry == \A a \in Numbers : (2 * a[3]) \div Base \in 0 .. 1 /\ a[0] % 2 \in 0 .. 1 /\ a[1] % 2 \in 0 .. 1
<1> TAKE a \in Numbers
<1>1. a[1] \in Bytes
  BY DEF Numbers, Places
<1>2. a[1] % 2 \in 0 .. 1
  BY <1>1 DEF Bytes
<1>3. QED
  BY <1>2, DoubleShifts, HalveShifts

\* Every routine leaves bytes and flags.
LEMMA RoutineTyped ==
  ASSUME TypeOK, [Next]_vars
  PROVE  TypeOK'
<1> USE RestAre DEF TypeOK
<1>t. x \in Numbers /\ y \in Numbers /\ 0 \in 0 .. 1 /\ Operands \subseteq Bytes
  BY DEF Numbers, Bytes
<1>z. \A b \in Bytes, c \in Bytes : /\ [i \in Places |-> IF i = 0 THEN b ELSE 0] \in Numbers
                                    /\ [i \in Places |-> IF i = 0 THEN b ELSE IF i = 1 THEN c ELSE 0] \in Numbers
                                    /\ [i \in Places |-> 0] \in Numbers
  BY DEF Numbers, Bytes
<1>1. CASE add32
  BY <1>1, <1>t, PlusAdds DEF add32, Numbers
<1>2. CASE adc32
  BY <1>2, <1>t, PlusAdds DEF adc32, Numbers
<1>3. CASE sub32
  BY <1>3, <1>t, MinusSubtracts DEF sub32, Numbers
<1>4. CASE sbc32
  BY <1>4, <1>t, MinusSubtracts DEF sbc32, Numbers
<1>5. CASE inc32
  BY <1>5, <1>t, Plus1Counts DEF inc32, Numbers
<1>6. CASE dec32
  BY <1>6, <1>t, Minus1Counts DEF dec32, Numbers
<1>7. CASE lshiftbyte32
  BY <1>7, <1>t, UpByteShifts DEF lshiftbyte32, Numbers
<1>8. CASE lshift32
  BY <1>8, <1>t, DoubleShifts DEF lshift32, Numbers
<1>9. CASE lshift9_32
  <2>1. UpByte(x) \in Numbers /\ UpByte(x)[3] = x[2]
    BY <1>t, UpByteShifts
  <2>2. x' \in Numbers /\ cf' \in 0 .. 1 /\ y' = y /\ eq' = eq
    BY <1>9, <2>1, DoubleShifts DEF lshift9_32
  <2>3. QED
    BY <1>t, <2>2 DEF Numbers
<1>10. CASE rshiftbyte32
  BY <1>10, <1>t, DownByteShifts DEF rshiftbyte32, Numbers
<1>11. CASE rshift32
  BY <1>11, <1>t, HalveShifts DEF rshift32, Numbers
<1>12. CASE rshift9_32
  <2>1. DownByte(x) \in Numbers /\ x[1] % 2 \in 0 .. 1
    BY <1>t, DownByteShifts, Carry
  <2>2. x' \in Numbers /\ cf' \in 0 .. 1 /\ y' = y /\ eq' = eq
    BY <1>12, <2>1, HalveShifts DEF rshift9_32
  <2>3. QED
    BY <1>t, <2>2 DEF Numbers
<1>13. ASSUME NEW b \in Operands, NEW c \in Operands, ld8(b) \/ ld16(b, c)
       PROVE  TypeOK'
  BY <1>13, <1>t, <1>z DEF ld8, ld16, Numbers
<1>14. CASE ld32 \/ clear32
  BY <1>14, <1>t, <1>z DEF ld32, clear32, Numbers, Bytes
<1>15. CASE cp32
  BY <1>15 DEF cp32
<1>16. ASSUME NEW k \in Clusters, clusterToAddr(k)
       PROVE  TypeOK'
  <2>1. k \in Nat
    OBVIOUS
  <2>2. x' \in Numbers /\ cf' \in 0 .. 1 /\ y' = y /\ eq' = eq
    BY <1>16, <1>t, <2>1, AddressPlaces DEF clusterToAddr
  <2>3. QED
    BY <1>t, <2>2 DEF Numbers
<1>17. CASE UNCHANGED vars
  BY <1>17 DEF vars
<1>18. QED
  BY <1>1, <1>2, <1>3, <1>4, <1>5, <1>6, <1>7, <1>8, <1>9, <1>10, <1>11, <1>12, <1>13, <1>14,
     <1>15, <1>16, <1>17 DEF Next, Routine

\* The two numbers are always made of four bytes.
THEOREM TypeCorrect == Spec => []TypeOK
<1>1. Init => TypeOK
  BY RestAre DEF Init, TypeOK, Bytes
<1>2. TypeOK /\ [Next]_vars => TypeOK'
  BY RoutineTyped
<1>3. QED
  BY <1>1, <1>2, PTL DEF Spec

\* add32, adc32, sub32, sbc32 and inc32 add, subtract and count as numbers do,
\* whatever the bytes and the carry, for every size of a byte.
THEOREM SumsExactHolds == Spec => SumsExact
<1>1. TypeOK => /\ add32 => Value(x') = (Value(x) + Value(y)) % W
                /\ adc32 => Value(x') = (Value(x) + Value(y) + cf) % W
                /\ sub32 => Value(y') = (Value(y) - Value(x)) % W
                /\ sbc32 => Value(y') = (Value(y) - Value(x) - cf) % W
                /\ inc32 => Value(x') = (Value(x) + 1) % W
  <2> SUFFICES ASSUME TypeOK
               PROVE  /\ add32 => Value(x') = (Value(x) + Value(y)) % W
                      /\ adc32 => Value(x') = (Value(x) + Value(y) + cf) % W
                      /\ sub32 => Value(y') = (Value(y) - Value(x)) % W
                      /\ sbc32 => Value(y') = (Value(y) - Value(x) - cf) % W
                      /\ inc32 => Value(x') = (Value(x) + 1) % W
    OBVIOUS
  <2>1. x \in Numbers /\ y \in Numbers /\ cf \in 0 .. 1 /\ 0 \in 0 .. 1
    BY DEF TypeOK, Numbers
  <2>2. Value(x) + Value(y) + 0 = Value(x) + Value(y) /\ Value(y) - Value(x) - 0 = Value(y) - Value(x)
    BY <2>1, ValueRange
  <2>3. add32 => Value(x') = (Value(x) + Value(y)) % W
    BY <2>1, <2>2, PlusAdds DEF add32
  <2>4. adc32 => Value(x') = (Value(x) + Value(y) + cf) % W
    BY <2>1, PlusAdds DEF adc32
  <2>5. sub32 => Value(y') = (Value(y) - Value(x)) % W
    BY <2>1, <2>2, MinusSubtracts DEF sub32
  <2>6. sbc32 => Value(y') = (Value(y) - Value(x) - cf) % W
    BY <2>1, MinusSubtracts DEF sbc32
  <2>7. inc32 => Value(x') = (Value(x) + 1) % W
    BY <2>1, Plus1Counts DEF inc32
  <2>8. QED
    BY <2>3, <2>4, <2>5, <2>6, <2>7
<1>2. QED
  BY <1>1, TypeCorrect, PTL DEF SumsExact

\* The shifts by a bit and by nine, with their carries, multiply and divide.
THEOREM ShiftsExactHolds == Spec => ShiftsExact
<1> DEFINE Exact == /\ lshift32 => Value(x') + W * cf' = 2 * Value(x)
                    /\ lshift9_32 => Value(x') = (2 * Base * Value(x)) % W
                    /\ rshift32 => 2 * Value(x') + cf' = Value(x)
                    /\ rshift9_32 => Value(x') = Value(x) \div (2 * Base)
<1>1. TypeOK => Exact
  <2> SUFFICES ASSUME TypeOK PROVE Exact
    OBVIOUS
  <2>1. x \in Numbers
    BY DEF TypeOK, Numbers
  <2>2. lshift32 => Value(x') + W * cf' = 2 * Value(x)
    BY <2>1, DoubleShifts DEF lshift32
  <2>3. ASSUME lshift9_32 PROVE Value(x') = (2 * Base * Value(x)) % W
    <3>1. /\ UpByte(x) \in Numbers /\ UpByte(x)[3] = x[2] /\ x[3] \in Bytes
          /\ Value(UpByte(x)) + W * x[3] = Base * Value(x)
      BY <2>1, UpByteShifts
    <3>2. /\ x' \in Numbers /\ (2 * x[2]) \div Base \in 0 .. 1
          /\ Value(x') + W * ((2 * x[2]) \div Base) = 2 * Value(UpByte(x))
      BY <2>3, <3>1, DoubleShifts DEF lshift9_32
    <3>3. Value(x') \in 0 .. W - 1 /\ W \in Nat /\ W > 0 /\ Value(x) \in Int /\ Value(UpByte(x)) \in Int
      BY <2>1, <3>1, <3>2, ValueRange
    <3>4. PICK v \in Int, u \in Int, r \in 0 .. W - 1, d \in 0 .. 1, t \in Int :
            v = Value(x) /\ u = Value(UpByte(x)) /\ r = Value(x') /\ d = (2 * x[2]) \div Base /\ t = x[3]
      BY <3>1, <3>2, <3>3 DEF Bytes
    <3>5. u + W * t = Base * v /\ r + W * d = 2 * u
      BY <3>1, <3>2, <3>4
    <3>6. r + W * (d + 2 * t) = 2 * Base * v
      BY <3>3, <3>5
    <3>7. (r + W * (d + 2 * t)) % W = r
      BY <3>3, Remainder
    <3>8. QED
      BY <3>4, <3>6, <3>7
  <2>4. rshift32 => 2 * Value(x') + cf' = Value(x)
    BY <2>1, HalveShifts DEF rshift32
  <2>5. ASSUME rshift9_32 PROVE Value(x') = Value(x) \div (2 * Base)
    <3>1. /\ DownByte(x) \in Numbers /\ DownByte(x)[0] = x[1] /\ x[0] \in Bytes
          /\ Value(x) = x[0] + Base * Value(DownByte(x))
      BY <2>1, DownByteShifts
    <3>2. x' \in Numbers /\ x[1] % 2 \in 0 .. 1 /\ 2 * Value(x') + (x[1] % 2) = Value(DownByte(x))
      BY <2>5, <3>1, HalveShifts DEF rshift9_32
    <3>3. Value(x') \in Int /\ Value(x) \in Int /\ Value(DownByte(x)) \in Int
      BY <2>1, <3>1, <3>2, ValueRange
    <3>4. PICK v \in Int, u \in Int, h \in Int, d \in 0 .. 1, t \in Bytes :
            v = Value(x) /\ u = Value(DownByte(x)) /\ h = Value(x') /\ d = x[1] % 2 /\ t = x[0]
      BY <3>1, <3>2, <3>3
    <3>5. v = t + Base * u /\ 2 * h + d = u
      BY <3>1, <3>2, <3>4
    <3>6. v = (t + Base * d) + (2 * Base) * h
      BY <3>5 DEF Bytes
    <3>7. t + Base * d \in 0 .. 2 * Base - 1 /\ 2 * Base \in Nat /\ 2 * Base > 0
      BY DEF Bytes
    <3>8. ((t + Base * d) + (2 * Base) * h) \div (2 * Base) = h
      BY <3>7, Remainder
    <3>9. QED
      BY <3>4, <3>6, <3>8
  <2>6. QED
    BY <2>2, <2>3, <2>4, <2>5
<1>2. QED
  BY <1>1, TypeCorrect, PTL DEF ShiftsExact

\* cp32 sets the carry for a smaller number and the zero flag for an equal one.
THEOREM CompareExactHolds == Spec => CompareExact
<1>1. TypeOK => (cp32 => (cf' = 1 <=> Value(y) < Value(x)) /\ (eq' <=> Value(y) = Value(x)))
  <2> SUFFICES ASSUME TypeOK, cp32
               PROVE  (cf' = 1 <=> Value(y) < Value(x)) /\ (eq' <=> Value(y) = Value(x))
    OBVIOUS
  <2>1. (Below(y, x) <=> Value(y) < Value(x)) /\ (y = x <=> Value(y) = Value(x))
    BY BelowIsLess DEF TypeOK, Numbers
  <2>2. cf' = IF Below(y, x) THEN 1 ELSE 0
    BY DEF cp32
  <2>3. cf' = 1 <=> Below(y, x)
    BY <2>2
  <2>4. eq' = (y = x)
    BY DEF cp32
  <2>5. eq' <=> y = x
    BY <2>4, Zenon
  <2>6. QED
    BY <2>1, <2>3, <2>5, Zenon
<1>2. QED
  BY <1>1, TypeCorrect, PTL DEF CompareExact

\* dec32 counts down the numbers of LowestSmall, and no others.
THEOREM DecExactWhereHolds == Spec => DecExactWhere
<1>1. TypeOK => (dec32 => (Value(x') = (Value(x) - 1) % W <=> LowestSmall(x)))
  BY Minus1Counts DEF TypeOK, Numbers, dec32
<1>2. QED
  BY <1>1, TypeCorrect, PTL DEF DecExactWhere

\* fat_clusterToAddr is right for the clusters whose lowest byte lies from two to
\* half its range, for every size of a cluster.
THEOREM LowClustersPlacedHolds == Spec => LowClustersPlaced
<1> DEFINE Right(k) == clusterToAddr(k) /\ x[0] \in 2 .. Base \div 2 =>
                         Value(x') = ((Value(x) - 2) * 2 * Base * BlocksIn(k) + Value(y)) % W
<1>1. TypeOK => \A k \in Clusters : Right(k)
  <2> SUFFICES ASSUME TypeOK, NEW k \in Clusters PROVE Right(k)
    OBVIOUS
  <2>1. x \in Numbers /\ y \in Numbers /\ k \in Nat
    BY RestAre DEF TypeOK, Numbers
  <2>2. x[0] \in 2 .. Base \div 2 =>
          Value(Address(x, y, k)) = ((Value(x) - 2) * 2 * Base * BlocksIn(k) + Value(y)) % W
    BY <2>1, AddressPlaces
  <2>3. clusterToAddr(k) => x' = Address(x, y, k)
    BY DEF clusterToAddr
  <2>4. QED
    BY <2>2, <2>3, Zenon
<1> HIDE DEF Right
<1>2. (\A k \in Clusters : Right(k)) <=>
        \A k \in Clusters :
          clusterToAddr(k) /\ x[0] \in 2 .. Base \div 2 =>
            Value(x') = ((Value(x) - 2) * 2 * Base * BlocksIn(k) + Value(y)) % W
  BY Zenon DEF Right
<1>3. QED
  BY <1>1, <1>2, TypeCorrect, PTL DEF LowClustersPlaced
=============================================================================
