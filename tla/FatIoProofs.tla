----------------------------- MODULE FatIoProofs -----------------------------
(***************************************************************************)
(* Proof about FatIo, for clusters of every size and volumes of every      *)
(* number of clusters it allows: as long as every write is one fat_write   *)
(* is right for, the file holds what was written to it, the other file     *)
(* stays as it was, and the reads fat_read is right for return it.         *)
(*                                                                         *)
(* Sound says why: the chain has different clusters, none the neighbour's, *)
(* so that different positions have different places; while a call runs,   *)
(* the device stands where the byte to be moved next belongs (Aimed), and  *)
(* no part of the call reaches past a cluster (FirstFits, LastFits).       *)
(***************************************************************************)
EXTENDS FatIo, TLAPS, FiniteSetTheorems, WellFoundedInduction
USE FileFits

ClusterNumbers == 2 .. NumClusters + 1
Positions == 0 .. MaxSize - 1

\* A chain of different clusters, none the neighbour's, that leaves one free.
Linked(c, other) ==
  /\ c \in Seq(ClusterNumbers) /\ Len(c) < NumClusters
  /\ \A i \in 1 .. Len(c), j \in 1 .. Len(c) : c[i] = c[j] => i = j
  /\ \A i \in 1 .. Len(c) : c[i] # other

CallType ==
  [pc : {"first", "more", "size", "done", "wild"}, op : {"read", "write"}, from : Nat, n : Nat,
   at : Int, link : Nat, rem : Int, total : Int, buf : Seq(Int), fair : BOOLEAN]

FioTyped ==
  /\ data \in [Volume -> Int] /\ content \in [Positions -> Int]
  /\ neighbour \in ClusterNumbers /\ fileSize \in Nat /\ fileOffset \in Nat
  /\ transfers \in Nat /\ rw \in CallType

\* Where the byte at a position of the file lies on the device.
PlaceOf(p, c) == ClusterToAddr(c[p \div C + 1]) + (p % C)

\* Placed, for bytes behind the size of the file too.
InPlace(con, d, c) ==
  \A p \in Positions : con[p] # Unknown => p \div C < Len(c) /\ d[PlaceOf(p, c)] = con[p]

Going(r) == r.pc \in {"first", "more"}

\* The position of the byte that is moved next.
Due(r) == r.from + r.total

\* The device is where that byte belongs.
Aimed(r, c) ==
  /\ r.link = (Due(r) \div C) + 1 /\ r.link <= Len(c)
  /\ r.at = ClusterToAddr(c[r.link]) + (Due(r) % C)

\* What the counters say in the first and in the second part of a call.
Counted(r) ==
  /\ r.n > 0 /\ r.from + r.n <= MaxSize /\ r.fair = Fair(r.from, r.n)
  /\ r.pc = "first" => r.total = 0 /\ r.rem = r.n
  /\ r.pc = "more" => r.n > C /\ r.total = C - (r.from % C) /\ r.rem = r.n - C

\* What a read has got so far was written there.
Got(r, con) ==
  /\ Len(r.buf) = r.total
  /\ \A i \in 1 .. r.total : con[r.from + i - 1] \in {Unknown, r.buf[i]}

Reading == rw.from < C /\ fileOffset = rw.from /\ rw.from + rw.n <= fileSize /\ Got(rw, content)

OnCourse ==
  /\ Going(rw) => /\ Counted(rw) /\ Aimed(rw, chain)
                  /\ rw.op = "read" => Reading
                  /\ rw.op = "write" => rw.fair
  /\ rw.pc = "size" => rw.op = "write"

Sound ==
  /\ FioTyped /\ Linked(chain, neighbour) /\ fileSize <= C * Len(chain)
  /\ InPlace(content, data, chain) /\ NeighbourKept /\ Delivered /\ OnCourse

\* Once a write went wrong nothing is claimed any more.
IInv == plain => Sound
----------------------------------------------------------------------------
(* Places on the device. *)

\* A position is made of the clusters before it and its place in its cluster.
LEMMA Split ==
  ASSUME NEW p \in Nat
  PROVE  p \div C \in Nat /\ p % C \in 0 .. C - 1 /\ p = C * (p \div C) + (p % C)
OBVIOUS

\* Quotient and remainder are unique.
LEMMA Unique ==
  ASSUME NEW m \in Nat, NEW r \in 0 .. C - 1
  PROVE  (C * m + r) \div C = m /\ (C * m + r) % C = r /\ C * m + r \in Nat
OBVIOUS

\* As long as a cluster has room, the next positions lie in it.
LEMMA SameCluster ==
  ASSUME NEW p \in Nat, NEW q \in Nat, p <= q, (p % C) + (q - p) < C
  PROVE  q \div C = p \div C /\ q % C = (p % C) + (q - p)
<1>1. PICK m \in Nat, r \in 0 .. C - 1 : m = p \div C /\ r = p % C /\ p = C * m + r
  BY Split
<1>2. r + (q - p) \in 0 .. C - 1
  BY <1>1
<1>3. (C * m + (r + (q - p))) \div C = m /\ (C * m + (r + (q - p))) % C = r + (q - p)
  BY <1>2, Unique
<1>4. C * m + (r + (q - p)) = q
  BY <1>1
<1>5. QED
  BY <1>1, <1>3, <1>4

\* The first position of the next cluster.
LEMMA NextCluster0 ==
  ASSUME NEW p \in Nat
  PROVE  (p + (C - (p % C))) \div C = p \div C + 1 /\ (p + (C - (p % C))) % C = 0
<1>1. PICK m \in Nat, r \in 0 .. C - 1 : m = p \div C /\ r = p % C /\ p = C * m + r
  BY Split
<1>2. (C * (m + 1) + 0) \div C = m + 1 /\ (C * (m + 1) + 0) % C = 0
  BY Unique
<1>3. C * (m + 1) + 0 = p + (C - r)
  BY <1>1
<1>4. QED
  BY <1>1, <1>2, <1>3

\* The bytes of different clusters lie in different places.
LEMMA Apart ==
  ASSUME NEW a \in ClusterNumbers, NEW b \in ClusterNumbers, NEW i \in 0 .. C - 1, NEW j \in 0 .. C - 1
  PROVE  /\ ClusterToAddr(a) \in Nat /\ ClusterToAddr(a) + i \in Volume
         /\ ClusterToAddr(a) + i = ClusterToAddr(b) + j => a = b /\ i = j
<1>1. PICK m \in 0 .. NumClusters - 1, n \in 0 .. NumClusters - 1 : m = a - 2 /\ n = b - 2
  BY DEF ClusterNumbers
<1>2. ClusterToAddr(a) = C * m /\ ClusterToAddr(b) = C * n
  BY <1>1 DEF ClusterToAddr
<1>3. C * m + i = C * n + j => m = n /\ i = j
  <2>1. (C * m + i) \div C = m /\ (C * m + i) % C = i /\ (C * n + j) \div C = n /\ (C * n + j) % C = j
    BY Unique
  <2>2. QED
    BY <2>1
<1>4. C * m \in Nat /\ C * m <= NumClusters * C
  <2>1. NumClusters - m \in Nat
    OBVIOUS
  <2>2. C * (NumClusters - m) \in Nat
    BY <2>1
  <2>3. QED
    BY <2>2
<1>5. ClusterToAddr(a) + i \in Volume
  <2>1. NumClusters * C \in Nat
    OBVIOUS
  <2>2. QED
    BY <1>2, <1>4, <2>1 DEF Volume
<1>6. QED
  BY <1>1, <1>2, <1>3, <1>4, <1>5 DEF ClusterNumbers
----------------------------------------------------------------------------
(* Chains. *)

\* A set of numbers has a lowest one.
LEMMA LowestIn ==
  ASSUME NEW S \in SUBSET Nat, S # {}
  PROVE  \E z \in S : \A d \in S : z <= d
<1>1. PICK z \in S : \A d \in S : ~(<<d, z>> \in OpToRel(<, Nat))
  BY WFMin, NatLessThanWellFounded
<1>2. OpToRel(<, Nat) = {ss \in Nat \X Nat : ss[1] < ss[2]}
  BY Zenon DEF OpToRel
<1>3. \A d \in S : ~(d < z)
  <2>1. SUFFICES ASSUME NEW d \in S, d < z PROVE FALSE
    OBVIOUS
  <2>2. <<d, z>> \in {ss \in Nat \X Nat : ss[1] < ss[2]}
    BY <2>1
  <2>3. QED
    BY <2>2, <1>1, <1>2, Zenon
<1>4. QED
  BY <1>3

\* A chain that may grow leaves a cluster free: otherwise the clusters, each at
\* its place in the chain and the neighbour's at 0, would be too many.
LEMMA OneIsFree ==
  ASSUME NEW c \in Seq(ClusterNumbers), Len(c) < NumClusters - 1
  PROVE  FreeClusters(c) # {}
<1> SUFFICES ASSUME FreeClusters(c) = {} PROVE FALSE
  OBVIOUS
<1> DEFINE S == 2 .. NumClusters + 1
           T == 0 .. Len(c)
           f == [z \in S |-> IF z = neighbour THEN 0 ELSE CHOOSE i \in 1 .. Len(c) : c[i] = z]
<1>1. \A z \in S : z # neighbour => \E i \in 1 .. Len(c) : c[i] = z
  BY DEF FreeClusters
<1>2. \A z \in S : z # neighbour => f[z] \in 1 .. Len(c) /\ c[f[z]] = z
  BY <1>1
<1>3. f \in [S -> T]
  <2>1. \A z \in S : f[z] \in T
    <3> TAKE z \in S
    <3>1. CASE z = neighbour
      BY <3>1
    <3>2. CASE z # neighbour
      <4>1. f[z] \in 1 .. Len(c)
        BY <1>2, <3>2
      <4> HIDE DEF f
      <4>2. QED
        BY <4>1
    <3>3. QED
      BY <3>1, <3>2
  <2>2. f = [z \in S |-> f[z]]
    OBVIOUS
  <2> HIDE DEF f
  <2>3. QED
    BY <2>1, <2>2
<1>4. IsFiniteSet(S) /\ Cardinality(S) = NumClusters
  <2>1. Cardinality(S) = (NumClusters + 1) - 2 + 1
    BY FS_Interval
  <2>2. QED
    BY <2>1, FS_Interval
<1>5. IsFiniteSet(T) /\ Cardinality(T) = Len(c) + 1
  BY FS_Interval
<1>6. \A u \in S, v \in S : f[u] = f[v] => u = v
  <2> TAKE u \in S, v \in S
  <2>1. CASE u = neighbour /\ v = neighbour
    BY <2>1
  <2>2. CASE u # neighbour /\ v # neighbour
    <3> HIDE DEF f
    <3>1. QED
      BY <1>2, <2>2
  <2>3. CASE u = neighbour /\ v # neighbour
    <3>1. f[u] = 0
      BY <2>3
    <3>2. f[v] # 0
      <4> HIDE DEF f
      <4>1. QED
        BY <1>2, <2>3
    <3>3. QED
      BY <3>1, <3>2
  <2>4. CASE u # neighbour /\ v = neighbour
    <3>1. f[v] = 0
      BY <2>4
    <3>2. f[u] # 0
      <4> HIDE DEF f
      <4>1. QED
        BY <1>2, <2>4
    <3>3. QED
      BY <3>1, <3>2
  <2>5. QED
    BY <2>1, <2>2, <2>3, <2>4
<1> HIDE DEF f, S, T
<1>7. Cardinality(T) < Cardinality(S)
  BY <1>4, <1>5
<1>8. \E u, v \in S : u # v /\ f[u] = f[v]
  BY <1>3, <1>4, <1>5, <1>7, FS_PigeonHole
<1>9. QED
  BY <1>6, <1>8

\* The lowest free cluster.
Lowest(c) == CHOOSE z \in FreeClusters(c) : \A d \in FreeClusters(c) : z <= d

\* A chain stays one when a free cluster is added.
LEMMA OneMore ==
  ASSUME NEW c, Linked(c, neighbour), Len(c) < NumClusters - 1
  PROVE  /\ Linked(Append(c, Lowest(c)), neighbour) /\ Len(Append(c, Lowest(c))) = Len(c) + 1
         /\ \A i \in 1 .. Len(c) : Append(c, Lowest(c))[i] = c[i]
<1> DEFINE z == Lowest(c)
<1>0. c \in Seq(ClusterNumbers) /\ Len(c) \in Nat
  BY DEF Linked
<1>1. z \in FreeClusters(c)
  <2>1. FreeClusters(c) # {} /\ FreeClusters(c) \in SUBSET Nat
    BY <1>0, OneIsFree DEF FreeClusters
  <2>2. \E y \in FreeClusters(c) : \A d \in FreeClusters(c) : y <= d
    BY <2>1, LowestIn
  <2>3. QED
    BY <2>2, Zenon DEF Lowest
<1>2. z \in ClusterNumbers /\ z # neighbour /\ \A i \in 1 .. Len(c) : c[i] # z
  BY <1>0, <1>1 DEF FreeClusters, ClusterNumbers
<1> HIDE DEF z
<1> DEFINE e == Append(c, z)
<1>3. /\ e \in Seq(ClusterNumbers) /\ Len(e) = Len(c) + 1 /\ e[Len(c) + 1] = z
      /\ \A i \in 1 .. Len(c) : e[i] = c[i]
  BY <1>0, <1>2
<1> HIDE DEF e
<1>4. \A i \in 1 .. Len(e) : i \in 1 .. Len(c) \/ i = Len(c) + 1
  BY <1>0, <1>3
<1>5. \A i \in 1 .. Len(e), j \in 1 .. Len(e) : e[i] = e[j] => i = j
  BY <1>2, <1>3, <1>4 DEF Linked
<1>6. \A i \in 1 .. Len(e) : e[i] # neighbour
  BY <1>2, <1>3, <1>4 DEF Linked
<1>7. Linked(e, neighbour)
  BY <1>0, <1>3, <1>5, <1>6 DEF Linked
<1>8. QED
  BY <1>3, <1>7 DEF e, z


\* Numbers are counted by steps of one: a set that holds 0 and with every number
\* the next one holds them all.
LEMMA Counting ==
  ASSUME NEW S, 0 \in S, \A n \in Nat : n \in S => n + 1 \in S
  PROVE  Nat \subseteq S
<1> DEFINE T == Nat \ S
<1>1. SUFFICES ASSUME T # {} PROVE FALSE
  OBVIOUS
<1>2. PICK n \in T : \A m \in T : n <= m
  BY <1>1, LowestIn
<1>3. n \in Nat /\ n # 0
  OBVIOUS
<1>4. n - 1 \in T
  BY <1>3
<1>5. QED
  BY <1>2, <1>3, <1>4

\* The chains Extended goes through.
Grown(k, g) ==
  g = [i \in 0 .. k |-> IF i <= Len(chain) THEN chain ELSE Append(g[i - 1], Lowest(g[i - 1]))]

\* They can be built one after the other.
LEMMA GrownExist ==
  ASSUME NEW k \in Nat, Linked(chain, neighbour)
  PROVE  \E g : Grown(k, g)
<1> DEFINE S == {n \in Nat : \E g : Grown(n, g)}
           Longer(c) == Append(c, Lowest(c))
<1>0. Len(chain) \in Nat
  BY DEF Linked
<1> HIDE DEF Longer
<1>g. \A n, g : Grown(n, g) <=> g = [i \in 0 .. n |-> IF i <= Len(chain) THEN chain ELSE Longer(g[i - 1])]
  BY DEF Grown, Longer
<1>1. 0 \in S
  <2> DEFINE f == [i \in 0 .. 0 |-> chain]
             h == [i \in 0 .. 0 |-> IF i <= Len(chain) THEN chain ELSE Longer(f[i - 1])]
  <2>1. \A i \in 0 .. 0 : i <= Len(chain)
    BY <1>0
  <2>2. \A i \in 0 .. 0 : f[i] = h[i]
    BY <2>1
  <2>3. f = h
    BY <2>2
  <2>4. Grown(0, f)
    <3> HIDE DEF f
    <3>1. QED
      BY <1>g, <2>3
  <2>5. QED
    BY <2>4
<1>2. ASSUME NEW n \in Nat, n \in S PROVE n + 1 \in S
  <2>1. PICK f : Grown(n, f)
    BY <1>2
  <2> DEFINE h == [i \in 0 .. n + 1 |-> IF i <= Len(chain) THEN chain ELSE Longer(f[i - 1])]
             e == [i \in 0 .. n + 1 |-> IF i <= Len(chain) THEN chain ELSE Longer(h[i - 1])]
  <2>2. \A i \in 0 .. n : f[i] = h[i]
    <3>1. \A i \in 0 .. n : f[i] = IF i <= Len(chain) THEN chain ELSE Longer(f[i - 1])
      <4>1. f = [i \in 0 .. n |-> IF i <= Len(chain) THEN chain ELSE Longer(f[i - 1])]
        BY <1>g, <2>1
      <4>2. QED
        BY <4>1
    <3>2. \A i \in 0 .. n : i \in 0 .. n + 1
      OBVIOUS
    <3>3. QED
      BY <3>1, <3>2
  <2>3. \A i \in 0 .. n + 1 : ~(i <= Len(chain)) => i - 1 \in 0 .. n
    BY <1>0
  <2>4. \A i \in 0 .. n + 1 : h[i] = e[i]
    <3> SUFFICES ASSUME NEW i \in 0 .. n + 1 PROVE h[i] = e[i]
      OBVIOUS
    <3>1. CASE i <= Len(chain)
      BY <3>1
    <3>2. CASE ~(i <= Len(chain))
      <4>1. f[i - 1] = h[i - 1]
        BY <2>2, <2>3, <3>2
      <4> HIDE DEF h
      <4>2. e[i] = Longer(h[i - 1])
        BY <3>2
      <4>3. h[i] = Longer(f[i - 1])
        BY <3>2 DEF h
      <4>4. QED
        BY <4>1, <4>2, <4>3
    <3>3. QED
      BY <3>1, <3>2
  <2>5. h = e
    BY <2>4
  <2>6. Grown(n + 1, h)
    <3> HIDE DEF h
    <3>1. QED
      BY <1>g, <2>5
  <2>7. QED
    BY <2>6
<1>3. Nat \subseteq S
  <2> HIDE DEF S
  <2>1. QED
    BY <1>1, <1>2, Counting
<1>4. QED
  BY <1>3

\* Extended makes a chain as long as it is asked to, and keeps what is there.
LEMMA ExtendedGrows ==
  ASSUME Linked(chain, neighbour), NEW length \in 0 .. NumClusters - 1
  PROVE  /\ Linked(Extended(length), neighbour)
         /\ Len(Extended(length)) >= length /\ Len(Extended(length)) >= Len(chain)
         /\ \A i \in 1 .. Len(chain) : Extended(length)[i] = chain[i]
<1> DEFINE g == CHOOSE h : Grown(length, h)
           S == {i \in Nat : i <= length =>
                  /\ Linked(g[i], neighbour)
                  /\ Len(g[i]) = IF i <= Len(chain) THEN Len(chain) ELSE i
                  /\ \A j \in 1 .. Len(chain) : g[i][j] = chain[j]}
<1>0. Len(chain) \in Nat /\ length \in Nat
  BY DEF Linked
<1>1. Grown(length, g)
  BY <1>0, GrownExist
<1>2. Extended(length) = g[length]
  BY DEF Extended, Grown, Lowest
<1> HIDE DEF g
<1>3. \A i \in 0 .. length :
        g[i] = IF i <= Len(chain) THEN chain ELSE Append(g[i - 1], Lowest(g[i - 1]))
  BY <1>1 DEF Grown
<1>4. 0 \in S
  <2>1. g[0] = chain
    BY <1>0, <1>3
  <2>2. QED
    BY <1>0, <2>1
<1>5. ASSUME NEW i \in Nat, i \in S PROVE i + 1 \in S
  <2> SUFFICES ASSUME i + 1 <= length
               PROVE  /\ Linked(g[i + 1], neighbour)
                      /\ Len(g[i + 1]) = IF i + 1 <= Len(chain) THEN Len(chain) ELSE i + 1
                      /\ \A j \in 1 .. Len(chain) : g[i + 1][j] = chain[j]
    OBVIOUS
  <2>1. i + 1 \in 0 .. length /\ i + 1 - 1 = i
    OBVIOUS
  <2>2. CASE i + 1 <= Len(chain)
    <3>1. g[i + 1] = chain
      BY <1>3, <2>1, <2>2
    <3>2. QED
      BY <2>2, <3>1
  <2>3. CASE ~(i + 1 <= Len(chain))
    <3>1. g[i + 1] = Append(g[i], Lowest(g[i]))
      <4>1. g[i + 1] = Append(g[(i + 1) - 1], Lowest(g[(i + 1) - 1]))
        <5>1. i + 1 \in 0 .. length
          BY <2>1
        <5>2. PICK m \in 0 .. length : m = i + 1
          BY <5>1
        <5> HIDE DEF S
        <5>3. g[m] = IF m <= Len(chain) THEN chain ELSE Append(g[m - 1], Lowest(g[m - 1]))
          BY <1>3, Zenon
        <5>4. ~(m <= Len(chain))
          BY <2>3, <5>2
        <5>5. g[m] = Append(g[m - 1], Lowest(g[m - 1]))
          BY <5>3, <5>4, Zenon
        <5>6. QED
          BY <5>2, <5>5
      <4>2. QED
        BY <2>1, <4>1
    <3>2. Linked(g[i], neighbour) /\ Len(g[i]) = i /\ \A j \in 1 .. Len(chain) : g[i][j] = chain[j]
      BY <1>0, <1>5, <2>3
    <3>3. Len(g[i]) < NumClusters - 1
      BY <3>2
    <3>4. /\ Linked(g[i + 1], neighbour) /\ Len(g[i + 1]) = i + 1
          /\ \A j \in 1 .. i : g[i + 1][j] = g[i][j]
      BY <3>1, <3>2, <3>3, OneMore
    <3>5. \A j \in 1 .. Len(chain) : j \in 1 .. i
      BY <1>0, <2>3
    <3>6. QED
      BY <2>3, <3>2, <3>4, <3>5
  <2>4. QED
    BY <2>2, <2>3
<1>6. length \in S
  <2> HIDE DEF S
  <2>1. QED
    BY <1>0, <1>4, <1>5, Counting
<1>7. QED
  BY <1>0, <1>2, <1>6

----------------------------------------------------------------------------
(* Parts of a transfer. *)

\* The places a part of k bytes is written to are those of the positions it is
\* written for, and of no others.
LEMMA Covered ==
  ASSUME FioTyped, Linked(chain, neighbour), Aimed(rw, chain), rw.total \in Nat,
         NEW k \in Nat, (Due(rw) % C) + k <= C, NEW p \in Nat
  PROVE  /\ InTransfer(p, k) => p \div C < Len(chain) /\ PlaceOf(p, chain) = rw.at + (p - Due(rw))
         /\ p \div C < Len(chain) /\ PlaceOf(p, chain) \in rw.at .. rw.at + k - 1 => InTransfer(p, k)
<1>0. PICK q \in Nat : q = Due(rw)
  BY DEF FioTyped, CallType, Due
<1>1. PICK m \in Nat, r \in 0 .. C - 1 : m = q \div C /\ r = q % C /\ q = C * m + r
  BY Split
<1>2. PICK n \in Nat, s \in 0 .. C - 1 : n = p \div C /\ s = p % C /\ p = C * n + s
  BY Split
<1>3. Len(chain) \in Nat /\ \A i \in 1 .. Len(chain) : chain[i] \in ClusterNumbers
  BY DEF Linked
<1>4. m + 1 <= Len(chain) /\ rw.link = m + 1 /\ rw.at = ClusterToAddr(chain[m + 1]) + r
  BY <1>0, <1>1 DEF Aimed
<1>5. InTransfer(p, k) <=> q <= p /\ p < q + k
  BY <1>0 DEF InTransfer, Due, FioTyped, CallType
<1>6. r + k <= C
  BY <1>0, <1>1
<1>7. chain[m + 1] \in ClusterNumbers
  BY <1>3, <1>4
<1>8. ASSUME InTransfer(p, k)
      PROVE  p \div C < Len(chain) /\ PlaceOf(p, chain) = rw.at + (p - q)
  <2>1. q <= p /\ (q % C) + (p - q) < C
    BY <1>1, <1>5, <1>6, <1>8
  <2>2. p \div C = q \div C /\ p % C = (q % C) + (p - q)
    BY <2>1, SameCluster
  <2>3. n = m /\ s = r + (p - q)
    BY <1>1, <1>2, <2>2
  <2>4. PlaceOf(p, chain) = ClusterToAddr(chain[m + 1]) + s
    BY <1>2, <2>3 DEF PlaceOf
  <2>5. ClusterToAddr(chain[m + 1]) \in Nat
    BY <1>7, Apart
  <2>6. QED
    BY <1>2, <1>3, <1>4, <2>3, <2>4, <2>5
<1>9. ASSUME n < Len(chain), PlaceOf(p, chain) \in rw.at .. rw.at + k - 1
      PROVE  InTransfer(p, k)
  <2>1. n + 1 \in 1 .. Len(chain) /\ chain[n + 1] \in ClusterNumbers
    BY <1>3, <1>9
  <2>2. ClusterToAddr(chain[m + 1]) \in Nat /\ ClusterToAddr(chain[n + 1]) \in Nat
    BY <1>7, <2>1, Apart
  <2>3. PlaceOf(p, chain) = ClusterToAddr(chain[n + 1]) + s
    BY <1>2 DEF PlaceOf
  <2>4. PICK j \in 0 .. k - 1 : PlaceOf(p, chain) = rw.at + j
    <3>1. PICK a \in Nat, b \in Nat : a = rw.at /\ b = PlaceOf(p, chain)
      BY <1>4, <2>2, <2>3
    <3>2. b \in a .. a + k - 1
      BY <1>9, <3>1
    <3>3. b - a \in 0 .. k - 1 /\ b = a + (b - a)
      BY <3>2
    <3>4. QED
      BY <3>1, <3>3
  <2>5. r + j \in 0 .. C - 1
    BY <1>6
  <2>6. ClusterToAddr(chain[n + 1]) + s = ClusterToAddr(chain[m + 1]) + (r + j)
    BY <1>4, <2>2, <2>3, <2>4
  <2>7. chain[n + 1] = chain[m + 1] /\ s = r + j
    BY <1>7, <2>1, <2>5, <2>6, Apart
  <2>8. n + 1 = m + 1
    BY <1>4, <2>1, <2>7 DEF Linked
  <2>9. n = m
    BY <2>8
  <2>10. p = q + j
    BY <1>1, <1>2, <2>7, <2>9
  <2>11. QED
    BY <1>5, <2>10
<1>10. QED
  BY <1>0, <1>2, <1>8, <1>9

\* What stays as it is on the device when bytes of one chain are written.
Untouched(d) == \A i \in 0 .. C - 1 : d[ClusterToAddr(neighbour) + i] = Unknown

\* A part of a write reaches the device in the places of the file, and nothing
\* of the neighbour's.
LEMMA StoredInPlace ==
  ASSUME FioTyped, Linked(chain, neighbour), Aimed(rw, chain), rw.total \in Nat,
         InPlace(content, data, chain), Untouched(data),
         NEW k \in Nat, (Due(rw) % C) + k <= C
  PROVE  /\ Stored(k) \in [Volume -> Int] /\ Untouched(Stored(k))
         /\ ContentWith(k) \in [Positions -> Int] /\ InPlace(ContentWith(k), Stored(k), chain)
         /\ \A con \in [Positions -> Int] :
              (\A p \in Positions : con[p] # Unknown => con[p] = content[p] /\ ~InTransfer(p, k))
                => InPlace(con, Stored(k), chain)
<1>0. /\ data \in [Volume -> Int] /\ content \in [Positions -> Int] /\ transfers \in Nat
      /\ rw.at \in Int /\ rw.from \in Nat /\ neighbour \in ClusterNumbers
  BY DEF FioTyped, CallType
<1>1. Stored(k) \in [Volume -> Int]
  <2>1. \A p \in Volume : p \in Int
    BY DEF Volume
  <2>2. QED
    BY <1>0, <2>1 DEF Stored, BufferByte
<1>2. ContentWith(k) \in [Positions -> Int]
  BY <1>0 DEF ContentWith, BufferByte, Positions
<1>3. Untouched(Stored(k))
  <2> SUFFICES ASSUME NEW i \in 0 .. C - 1
               PROVE  Stored(k)[ClusterToAddr(neighbour) + i] = Unknown
    BY DEF Untouched
  <2>1. ClusterToAddr(neighbour) + i \in Volume /\ ClusterToAddr(neighbour) \in Nat
    BY <1>0, Apart
  <2>2. ClusterToAddr(neighbour) + i \notin rw.at .. rw.at + k - 1
    <3> SUFFICES ASSUME ClusterToAddr(neighbour) + i \in rw.at .. rw.at + k - 1 PROVE FALSE
      OBVIOUS
    <3>1. PICK q \in Nat : q = Due(rw)
      BY DEF FioTyped, CallType, Due
    <3>2. PICK m \in Nat, r \in 0 .. C - 1 : m = q \div C /\ r = q % C
      BY Split
    <3>3. m + 1 \in 1 .. Len(chain) /\ rw.at = ClusterToAddr(chain[m + 1]) + r /\ r + k <= C
      <4>1. rw.link = m + 1 /\ rw.link <= Len(chain) /\ rw.at = ClusterToAddr(chain[rw.link]) + r /\ r + k <= C
        BY <3>1, <3>2 DEF Aimed
      <4>2. Len(chain) \in Nat
        BY DEF Linked
      <4>3. QED
        BY <4>1, <4>2
    <3>4. chain[m + 1] \in ClusterNumbers /\ chain[m + 1] # neighbour
      BY <3>3 DEF Linked
    <3>5. ClusterToAddr(chain[m + 1]) \in Nat
      BY <3>4, Apart
    <3>6. ClusterToAddr(neighbour) + i - rw.at \in 0 .. k - 1
      BY <2>1, <3>3, <3>5
    <3>7. r + (ClusterToAddr(neighbour) + i - rw.at) \in 0 .. C - 1
      BY <3>3, <3>6
    <3>8. ClusterToAddr(neighbour) + i
            = ClusterToAddr(chain[m + 1]) + (r + (ClusterToAddr(neighbour) + i - rw.at))
      BY <2>1, <3>3, <3>5
    <3>9. QED
      BY <1>0, <3>4, <3>7, <3>8, Apart
  <2>3. Stored(k)[ClusterToAddr(neighbour) + i] = data[ClusterToAddr(neighbour) + i]
    BY <2>1, <2>2 DEF Stored
  <2>4. QED
    BY <2>3 DEF Untouched
<1>4. ASSUME NEW p \in Positions, p \div C < Len(chain)
      PROVE  PlaceOf(p, chain) \in Volume
  <2>1. PICK n \in Nat, s \in 0 .. C - 1 : n = p \div C /\ s = p % C
    <3>1. p \in Nat
      BY DEF Positions
    <3>2. QED
      BY <3>1, Split
  <2>2. chain[n + 1] \in ClusterNumbers
    BY <1>4, <2>1 DEF Linked
  <2>3. QED
    BY <2>1, <2>2, Apart DEF PlaceOf
<1>5. ASSUME NEW p \in Positions, ~InTransfer(p, k), p \div C < Len(chain)
      PROVE  Stored(k)[PlaceOf(p, chain)] = data[PlaceOf(p, chain)]
  <2>1. p \in Nat
    BY DEF Positions
  <2>2. PlaceOf(p, chain) \notin rw.at .. rw.at + k - 1
    BY <1>5, <2>1, Covered
  <2>3. QED
    BY <1>4, <1>5, <2>2 DEF Stored
<1>6. ASSUME NEW p \in Positions, InTransfer(p, k)
      PROVE  p \div C < Len(chain) /\ Stored(k)[PlaceOf(p, chain)] = ContentWith(k)[p]
  <2>1. p \in Nat
    BY DEF Positions
  <2>2. p \div C < Len(chain) /\ PlaceOf(p, chain) = rw.at + (p - Due(rw))
    BY <1>6, <2>1, Covered
  <2>3. Due(rw) = rw.from + rw.total /\ p - Due(rw) \in 0 .. k - 1
    <3>1. PICK f \in Nat, t \in Nat : f = rw.from /\ t = rw.total
      BY <1>0
    <3>2. p >= f + t /\ p < f + t + k
      BY <1>6, <3>1 DEF InTransfer
    <3>3. p - (f + t) \in 0 .. k - 1
      BY <2>1, <3>2
    <3>4. QED
      BY <3>1, <3>3 DEF Due
  <2>4. PlaceOf(p, chain) \in rw.at .. rw.at + k - 1 /\ PlaceOf(p, chain) \in Volume
    <3>1. PICK a \in Int, j \in 0 .. k - 1 : a = rw.at /\ j = p - Due(rw)
      BY <1>0, <2>3
    <3>2. a + j \in a .. a + k - 1
      OBVIOUS
    <3>3. PlaceOf(p, chain) = a + j
      BY <2>2, <3>1
    <3>4. QED
      BY <1>4, <2>2, <3>1, <3>2, <3>3
  <2>5. Stored(k)[PlaceOf(p, chain)] = BufferByte(transfers, rw.total + PlaceOf(p, chain) - rw.at + 1)
    BY <2>4 DEF Stored
  <2>6. rw.total + PlaceOf(p, chain) - rw.at + 1 = p - rw.from + 1
    <3>1. PICK a \in Int, f \in Nat, t \in Nat : a = rw.at /\ f = rw.from /\ t = rw.total
      BY <1>0
    <3>2. PlaceOf(p, chain) = a + (p - (f + t))
      BY <2>2, <2>3, <3>1
    <3>3. t + (a + (p - (f + t))) - a + 1 = p - f + 1
      BY <2>1
    <3>4. QED
      BY <3>1, <3>2, <3>3
  <2>7. ContentWith(k)[p] = BufferByte(transfers, p - rw.from + 1)
    BY <1>0, <1>6 DEF ContentWith
  <2>8. QED
    BY <2>2, <2>5, <2>6, <2>7
<1>7. InPlace(ContentWith(k), Stored(k), chain)
  <2> SUFFICES ASSUME NEW p \in Positions, ContentWith(k)[p] # Unknown
               PROVE  p \div C < Len(chain) /\ Stored(k)[PlaceOf(p, chain)] = ContentWith(k)[p]
    BY DEF InPlace
  <2>1. CASE InTransfer(p, k)
    BY <1>6, <2>1
  <2>2. CASE ~InTransfer(p, k)
    <3>1. ContentWith(k)[p] = content[p]
      BY <1>0, <2>2 DEF ContentWith
    <3>2. p \div C < Len(chain) /\ data[PlaceOf(p, chain)] = content[p]
      BY <3>1 DEF InPlace
    <3>3. QED
      BY <1>5, <2>2, <3>1, <3>2
  <2>3. QED
    BY <2>1, <2>2
<1>8. ASSUME NEW con \in [Positions -> Int],
             \A p \in Positions : con[p] # Unknown => con[p] = content[p] /\ ~InTransfer(p, k)
      PROVE  InPlace(con, Stored(k), chain)
  <2> SUFFICES ASSUME NEW p \in Positions, con[p] # Unknown
               PROVE  p \div C < Len(chain) /\ Stored(k)[PlaceOf(p, chain)] = con[p]
    BY DEF InPlace
  <2>1. con[p] = content[p] /\ ~InTransfer(p, k)
    BY <1>8
  <2>2. p \div C < Len(chain) /\ data[PlaceOf(p, chain)] = content[p]
    BY <2>1 DEF InPlace
  <2>3. QED
    BY <1>5, <2>1, <2>2
<1>9. QED
  BY <1>1, <1>2, <1>3, <1>7, <1>8

\* A longer chain keeps everything in place.
LEMMA LongerInPlace ==
  ASSUME NEW con, NEW d, NEW b, NEW c, InPlace(con, d, b), Len(b) \in Nat, Len(c) \in Nat, Len(c) >= Len(b),
         \A i \in 1 .. Len(b) : c[i] = b[i]
  PROVE  InPlace(con, d, c)
<1> SUFFICES ASSUME NEW p \in Positions, con[p] # Unknown
             PROVE  p \div C < Len(c) /\ d[PlaceOf(p, c)] = con[p]
  BY DEF InPlace
<1>1. p \div C < Len(b) /\ d[PlaceOf(p, b)] = con[p]
  BY DEF InPlace
<1>2. PICK n \in Nat : n = p \div C
  <2>1. p \in Nat
    BY DEF Positions
  <2>2. QED
    BY <2>1, Split
<1>3. c[n + 1] = b[n + 1]
  BY <1>1, <1>2
<1>4. PlaceOf(p, c) = PlaceOf(p, b)
  BY <1>2, <1>3 DEF PlaceOf
<1>5. QED
  BY <1>1, <1>2, <1>4

----------------------------------------------------------------------------
(* The parts a call is cut into. *)

\* The part that ends a transfer lies in one cluster, and ends where the call
\* was to end, or so much before it as lay before it in its first cluster.
LEMMA LastFits ==
  ASSUME FioTyped, Going(rw), Counted(rw), rw.fair, rw.rem <= C
  PROVE  /\ rw.total \in Nat /\ rw.rem \in Nat /\ (Due(rw) % C) + rw.rem <= C
         /\ Due(rw) + rw.rem <= MaxSize
         /\ rw.total + rw.rem = IF (rw.from % C) + rw.n <= C THEN rw.n ELSE rw.n - (rw.from % C)
<1>1. PICK f \in Nat, n \in Nat, t \in Int, m \in Int : f = rw.from /\ n = rw.n /\ t = rw.total /\ m = rw.rem
  BY DEF FioTyped, CallType
<1>2. PICK r \in 0 .. C - 1 : r = f % C
  BY Split
<1>3. n > 0 /\ f + n <= MaxSize /\ m <= C
  BY <1>1 DEF Counted
<1>4. CASE rw.pc = "first"
  <2>1. t = 0 /\ m = n
    BY <1>1, <1>4 DEF Counted
  <2>2. r + n <= C
    <3>1. r + n <= C \/ C < n
      BY <1>1, <1>2 DEF Counted, Fair
    <3>2. QED
      BY <1>3, <2>1, <3>1
  <2>3. Due(rw) = f
    BY <1>1, <2>1 DEF Due
  <2>4. QED
    BY <1>1, <1>2, <1>3, <2>1, <2>2, <2>3
<1>5. CASE rw.pc = "more"
  <2>1. n > C /\ t = C - r /\ m = n - C
    BY <1>1, <1>2, <1>5 DEF Counted
  <2>2. Due(rw) = f + (C - r)
    BY <1>1, <2>1 DEF Due
  <2>3. Due(rw) % C = 0
    BY <1>2, <2>2, NextCluster0
  <2>4. QED
    BY <1>1, <1>2, <1>3, <2>1, <2>2, <2>3
<1>6. QED
  BY <1>4, <1>5 DEF Going

\* The part up to the end of the first cluster fills that cluster, and the one
\* that follows begins with the next cluster.
LEMMA FirstFits ==
  ASSUME FioTyped, Counted(rw), rw.pc = "first", rw.rem > C, Aimed(rw, chain)
  PROVE  /\ rw.total = 0 /\ rw.n > C /\ rw.rem = rw.n
         /\ C - (rw.from % C) \in 1 .. C /\ (Due(rw) % C) + (C - (rw.from % C)) <= C
         /\ Due(rw) = rw.from /\ Due(rw) + (C - (rw.from % C)) <= MaxSize
         /\ (rw.from + (C - (rw.from % C))) \div C = rw.link
         /\ (rw.from + (C - (rw.from % C))) % C = 0
<1>1. PICK f \in Nat, n \in Nat : f = rw.from /\ n = rw.n
  BY DEF FioTyped, CallType
<1>2. PICK r \in 0 .. C - 1, m \in Nat : r = f % C /\ m = f \div C
  BY Split
<1>3. rw.total = 0 /\ rw.rem = n /\ n > C /\ f + n <= MaxSize
  BY <1>1 DEF Counted
<1>4. Due(rw) = f
  BY <1>1, <1>3 DEF Due
<1>5. rw.link = m + 1
  BY <1>2, <1>4 DEF Aimed
<1>6. (f + (C - r)) \div C = m + 1 /\ (f + (C - r)) % C = 0
  BY <1>2, NextCluster0
<1>7. QED
  BY <1>1, <1>2, <1>3, <1>4, <1>5, <1>6

\* The clusters of a chain lie in the data area.
LEMMA AimIn ==
  ASSUME Linked(chain, neighbour), NEW l \in 1 .. Len(chain)
  PROVE  ClusterToAddr(chain[l]) \in 0 .. (NumClusters - 1) * C
<1>1. chain[l] \in ClusterNumbers
  BY DEF Linked
<1>2. PICK m \in 0 .. NumClusters - 1 : m = chain[l] - 2
  BY <1>1 DEF ClusterNumbers
<1>3. ClusterToAddr(chain[l]) = m * C
  BY <1>2 DEF ClusterToAddr
<1>4. m * C \in Nat /\ (NumClusters - 1) * C - m * C \in Nat
  <2>1. (NumClusters - 1 - m) * C \in Nat
    OBVIOUS
  <2>2. QED
    BY <2>1
<1>5. QED
  BY <1>3, <1>4

\* What is read of a part of at most a cluster's length are bytes.
LEMMA TakenTyped ==
  ASSUME FioTyped, Linked(chain, neighbour), Aimed(rw, chain), rw.total \in Nat, NEW k \in 0 .. C
  PROVE  /\ Taken(k) \in Seq(Int) /\ Len(Taken(k)) = Len(rw.buf) + k
         /\ [i \in 1 .. k |-> data[rw.at + i - 1]] \in Seq(Int)
<1>1. PICK q \in Nat : q = Due(rw)
  BY DEF FioTyped, CallType, Due
<1>2. PICK m \in Nat, r \in 0 .. C - 1 : m = q \div C /\ r = q % C
  BY <1>1, Split
<1>3. rw.link = m + 1 /\ rw.link \in 1 .. Len(chain)
  <2>1. Len(chain) \in Nat
    BY DEF Linked
  <2>2. QED
    BY <1>1, <1>2, <2>1 DEF Aimed
<1>4. PICK a \in 0 .. (NumClusters - 1) * C : a = ClusterToAddr(chain[rw.link])
  BY <1>3, AimIn
<1>5. rw.at = a + r
  BY <1>1, <1>2, <1>4 DEF Aimed
<1>6. \A i \in 1 .. k : rw.at + i - 1 \in Volume
  <2>1. PICK v \in Nat : v = (NumClusters - 1) * C /\ NumClusters * C = v + C
    <3>1. (NumClusters - 1) * C \in Nat /\ NumClusters * C = (NumClusters - 1) * C + C
      OBVIOUS
    <3>2. QED
      BY <3>1
  <2>2. Volume = 0 .. v + C + WordSize + C
    BY <2>1 DEF Volume
  <2>3. a \in 0 .. v
    BY <1>4, <2>1
  <2>4. \A i \in 1 .. k : a + r + i - 1 \in 0 .. v + C + WordSize + C
    BY <2>3
  <2>5. QED
    BY <1>5, <2>2, <2>4
<1>7. [i \in 1 .. k |-> data[rw.at + i - 1]] \in Seq(Int)
  <2>1. \A i \in 1 .. k : data[rw.at + i - 1] \in Int
    BY <1>6 DEF FioTyped
  <2>2. QED
    BY <2>1
<1>8. Len([i \in 1 .. k |-> data[rw.at + i - 1]]) = k
  OBVIOUS
<1>9. rw.buf \in Seq(Int)
  BY DEF FioTyped, CallType
<1>10. QED
  BY <1>7, <1>8, <1>9 DEF Taken

\* Where the bytes of the second of two joined sequences stand.
LEMMA Joined ==
  ASSUME NEW u \in Seq(Int), NEW v \in Seq(Int), NEW i \in 1 .. Len(v)
  PROVE  (u \o v)[Len(u) + i] = v[i]
OBVIOUS

\* A part of a read gets what was written in its place.
LEMMA TakenRight ==
  ASSUME FioTyped, Linked(chain, neighbour), Aimed(rw, chain), rw.total \in Nat,
         InPlace(content, data, chain), Got(rw, content),
         NEW k \in 0 .. C, (Due(rw) % C) + k <= C, Due(rw) + k <= MaxSize
  PROVE  /\ Taken(k) \in Seq(Int) /\ Len(Taken(k)) = rw.total + k
         /\ \A i \in 1 .. rw.total + k : content[rw.from + i - 1] \in {Unknown, Taken(k)[i]}
<1>1. PICK f \in Nat, t \in Nat, a \in Int : f = rw.from /\ t = rw.total /\ a = rw.at
  BY DEF FioTyped, CallType
<1>2. Len(rw.buf) = t /\ rw.buf \in Seq(Int)
  BY <1>1 DEF Got, FioTyped, CallType
<1>3. Taken(k) \in Seq(Int) /\ Len(Taken(k)) = t + k
  BY <1>2, TakenTyped
<1>4. ASSUME NEW i \in 1 .. t PROVE content[f + i - 1] \in {Unknown, Taken(k)[i]}
  <2>1. Taken(k)[i] = rw.buf[i]
    BY <1>2 DEF Taken
  <2>2. QED
    BY <1>1, <2>1 DEF Got
<1>5. ASSUME NEW j \in 1 .. k PROVE content[f + (t + j) - 1] \in {Unknown, Taken(k)[t + j]}
  <2> DEFINE s == [i \in 1 .. k |-> data[rw.at + i - 1]]
  <2>1. Len(s) = k /\ s[j] = data[a + j - 1]
    BY <1>1
  <2>2. s \in Seq(Int)
    BY TakenTyped
  <2> HIDE DEF s
  <2>3. (rw.buf \o s)[t + j] = s[j]
    <3>1. j \in 1 .. Len(s)
      BY <2>1
    <3>2. (rw.buf \o s)[Len(rw.buf) + j] = s[j]
      BY <1>2, <2>2, <3>1, Joined
    <3>3. QED
      BY <1>2, <3>2, Zenon
  <2>4. Taken(k)[t + j] = data[a + j - 1]
    BY <2>1, <2>3 DEF Taken, s
  <2>5. PICK p \in Nat : p = f + (t + j) - 1
    OBVIOUS
  <2>6. p \in Positions /\ InTransfer(p, k) /\ p - Due(rw) = j - 1
    <3>1. Due(rw) = f + t
      BY <1>1 DEF Due
    <3>2. QED
      BY <1>1, <2>5, <3>1 DEF Positions, InTransfer
  <2>7. p \div C < Len(chain) /\ PlaceOf(p, chain) = rw.at + (p - Due(rw))
    BY <2>6, Covered
  <2>8. PlaceOf(p, chain) = a + j - 1
    BY <1>1, <2>6, <2>7
  <2>9. content[p] # Unknown => data[a + j - 1] = content[p]
    BY <2>6, <2>8 DEF InPlace
  <2>10. content[p] \in {Unknown, Taken(k)[t + j]}
    BY <2>4, <2>9
  <2>11. QED
    BY <2>5, <2>10
<1>6. \A i \in 1 .. t + k : i \in 1 .. t \/ \E j \in 1 .. k : i = t + j
  <2> TAKE i \in 1 .. t + k
  <2>1. i \in 1 .. t \/ (i - t \in 1 .. k /\ i = t + (i - t))
    OBVIOUS
  <2>2. QED
    BY <2>1
<1>7. \A i \in 1 .. t + k : content[f + i - 1] \in {Unknown, Taken(k)[i]}
  BY <1>4, <1>5, <1>6
<1>8. QED
  BY <1>1, <1>3, <1>7

----------------------------------------------------------------------------
(* The steps. *)

\* What a call begins with.
LEMMA ReturnedTyped ==
  /\ Returned \in CallType /\ Returned.pc = "done" /\ Returned.op = "write"
  /\ Returned.link = 1 /\ Returned.total = 0 /\ Returned.buf = <<>> /\ Returned.fair = FALSE
BY DEF Returned, CallType

\* lseek moves the position only.
LEMMA SeekSound ==
  ASSUME Sound, NEW p \in Offsets, Seek(p)
  PROVE  Sound'
<1> USE DEF Seek, Returned
<1>1. FioTyped'
  <2>1. rw' \in CallType
    BY DEF CallType
  <2>2. QED
    BY <2>1 DEF Sound, FioTyped
<1>2. (Linked(chain, neighbour) /\ fileSize <= C * Len(chain) /\ InPlace(content, data, chain) /\ NeighbourKept)'
  BY DEF Sound, Linked, InPlace, NeighbourKept
<1>3. Delivered' /\ OnCourse'
  BY DEF Delivered, OnCourse, Going
<1>4. QED
  BY <1>1, <1>2, <1>3 DEF Sound

\* A read begins in the first cluster, or has nothing to read, or returns the
\* end of the chain as a count.
LEMMA ReadSound ==
  ASSUME Sound, NEW n \in Lengths, Read(n)
  PROVE  Sound'
<1>1. PICK o \in Nat, m \in Nat : o = fileOffset /\ m = Limited(n)
  <2>1. n \in Nat /\ fileOffset \in Nat /\ fileSize \in Nat
    BY DEF Sound, FioTyped
  <2>2. Limited(n) \in Nat
    BY <2>1 DEF Limited
  <2>3. QED
    BY <2>1, <2>2
<1>2. m <= n /\ o + n <= MaxSize /\ (m > 0 => o + m <= fileSize)
  BY <1>1 DEF Read, CanCall, Limited, Sound, FioTyped
<1>3. UNCHANGED <<data, chain, neighbour, fileSize, content>> /\ transfers' = transfers + 1
  BY DEF Read
<1>4. (Linked(chain, neighbour) /\ fileSize <= C * Len(chain) /\ InPlace(content, data, chain) /\ NeighbourKept)'
  BY <1>3 DEF Sound, Linked, InPlace, NeighbourKept
<1> DEFINE call == [Returned EXCEPT !.op = "read", !.from = o, !.n = m, !.rem = m]
<1> HIDE DEF call
<1>5. /\ call \in CallType /\ call.pc = "done" /\ call.op = "read" /\ call.from = o /\ call.n = m
      /\ call.link = 1 /\ call.rem = m /\ call.total = 0 /\ call.buf = <<>> /\ call.fair = FALSE
  <2>1. m \in Int
    OBVIOUS
  <2>2. call \in CallType
    BY <2>1, ReturnedTyped DEF call, CallType
  <2>3. QED
    BY <2>2, ReturnedTyped DEF call, CallType
<1>6. fileOffset' = IF m > 0 /\ o >= C THEN o + 2 ELSE o
  BY <1>1 DEF Read
<1>7. rw' \in CallType => FioTyped'
  BY <1>3, <1>6 DEF Sound, FioTyped
<1>8. CASE m = 0
  <2>1. rw' = [call EXCEPT !.fair = TRUE]
    BY <1>1, <1>8 DEF Read, call
  <2>2. /\ rw'.pc = "done" /\ rw'.op = "read" /\ rw'.from = o /\ rw'.n = 0
        /\ rw'.total = 0 /\ rw'.buf = <<>>
    BY <1>5, <1>8, <2>1 DEF CallType
  <2>3. rw' \in CallType
    BY <1>5, <2>1 DEF CallType
  <2>4. (o % C) + 0 <= C
    BY Split
  <2>5. Delivered'
    BY <1>6, <1>8, <2>2, <2>4 DEF Delivered
  <2>6. OnCourse'
    BY <2>2 DEF OnCourse, Going
  <2>7. QED
    BY <1>4, <1>7, <2>3, <2>5, <2>6 DEF Sound
<1>9. CASE m # 0 /\ o < C
  <2>1. Len(chain) \in Nat /\ fileSize <= C * Len(chain) /\ fileSize \in Nat
    BY DEF Sound, Linked, FioTyped
  <2>2. Len(chain) >= 1
    <3>1. SUFFICES ASSUME Len(chain) = 0 PROVE FALSE
      BY <2>1
    <3>2. C * Len(chain) = 0
      BY <3>1
    <3>3. QED
      BY <1>2, <1>9, <2>1, <3>2
  <2>3. ClusterToAddr(chain[1]) \in Int /\ ClusterToAddr(chain[1]) + o \in Int
    BY <2>1, <2>2, AimIn DEF Sound
  <2>4. rw' = [call EXCEPT !.pc = "first", !.at = ClusterToAddr(chain[1]) + o, !.fair = Fair(o, m)]
    BY <1>1, <1>9 DEF Read, call
  <2>5. /\ rw'.pc = "first" /\ rw'.op = "read" /\ rw'.from = o /\ rw'.n = m
        /\ rw'.at = ClusterToAddr(chain[1]) + o /\ rw'.link = 1 /\ rw'.rem = m
        /\ rw'.total = 0 /\ rw'.buf = <<>> /\ rw'.fair = Fair(o, m)
    BY <1>5, <2>4 DEF CallType
  <2>6. Fair(o, m) \in BOOLEAN
    BY DEF Fair
  <2>7. rw' \in CallType
    BY <1>5, <2>3, <2>4, <2>6 DEF CallType
  <2>8. o \div C = 0 /\ o % C = o
    BY <1>9
  <2>9. Counted(rw')
    BY <1>2, <1>9, <2>5 DEF Counted
  <2>10. Due(rw') = o
    BY <2>5 DEF Due
  <2>11. Aimed(rw', chain)
    BY <2>2, <2>5, <2>8, <2>10 DEF Aimed
  <2>12. Reading'
    BY <1>2, <1>3, <1>6, <1>9, <2>5 DEF Reading, Got
  <2>13. OnCourse'
    BY <1>3, <2>5, <2>9, <2>11, <2>12 DEF OnCourse, Counted, Aimed, Due
  <2>14. Delivered'
    BY <2>5 DEF Delivered, FioReady
  <2>15. QED
    BY <1>4, <1>7, <2>7, <2>13, <2>14 DEF Sound
<1>10. CASE m # 0 /\ ~(o < C)
  <2>1. rw' = [call EXCEPT !.total = 2]
    BY <1>1, <1>10 DEF Read, call
  <2>2. rw'.pc = "done" /\ rw'.op = "read" /\ rw'.fair = FALSE
    BY <1>5, <2>1 DEF CallType
  <2>3. rw' \in CallType
    <3>1. 2 \in Int
      OBVIOUS
    <3>2. QED
      BY <1>5, <2>1, <3>1 DEF CallType
  <2>4. Delivered' /\ OnCourse'
    BY <2>2 DEF Delivered, OnCourse, Going
  <2>5. QED
    BY <1>4, <1>7, <2>3, <2>4 DEF Sound
<1>11. QED
  BY <1>8, <1>9, <1>10

\* The part of a read up to the end of the first cluster: there is a second one,
\* for the call reaches no further than the file.
LEMMA ReadFirstSound ==
  ASSUME Sound, ReadFirst
  PROVE  Sound'
<1>1. /\ rw.op = "read" /\ rw.pc = "first" /\ rw.rem > C
      /\ UNCHANGED <<data, chain, neighbour, fileSize, transfers, content>>
  BY DEF ReadFirst
<1>2. Counted(rw) /\ Aimed(rw, chain) /\ Reading /\ FioTyped /\ Linked(chain, neighbour)
  BY <1>1 DEF Sound, OnCourse, Going
<1>3. PICK f \in Nat, n \in Nat, a \in Int : f = rw.from /\ n = rw.n /\ a = rw.at
  BY <1>2 DEF FioTyped, CallType
<1>4. f < C /\ fileOffset = f /\ f + n <= fileSize
  BY <1>2, <1>3 DEF Reading
<1>5. f % C = f /\ f \div C = 0
  BY <1>4
<1>6. rw.total = 0 /\ n > C /\ rw.rem = n /\ (Due(rw) % C) + (C - f) <= C /\ Due(rw) + (C - f) <= MaxSize
  BY <1>1, <1>2, <1>3, <1>5, FirstFits
<1>7. Len(chain) \in Nat /\ Len(chain) > 1
  <2>1. PICK l \in Nat, z \in Nat : l = Len(chain) /\ z = fileSize /\ z <= C * l
    <3>1. Len(chain) \in Nat /\ fileSize <= C * Len(chain) /\ fileSize \in Nat
      BY DEF Sound, Linked, FioTyped
    <3>2. QED
      BY <3>1
  <2>2. f + n <= z
    BY <1>4, <2>1
  <2>3. l \in 0 .. 1 => C * l <= C
    OBVIOUS
  <2>4. ~(l \in 0 .. 1)
    BY <1>6, <2>1, <2>2, <2>3
  <2>5. QED
    BY <2>1, <2>4
<1> DEFINE k == C - f
<1>8. k \in 0 .. C
  BY <1>4
<1>9. /\ Taken(k) \in Seq(Int) /\ Len(Taken(k)) = k
      /\ \A i \in 1 .. k : content[f + i - 1] \in {Unknown, Taken(k)[i]}
  <2>1. Got(rw, content)
    BY <1>2 DEF Reading
  <2> HIDE DEF k
  <2>2. (Due(rw) % C) + k <= C /\ Due(rw) + k <= MaxSize
    BY <1>6 DEF k
  <2>3. /\ Taken(k) \in Seq(Int) /\ Len(Taken(k)) = rw.total + k
        /\ \A i \in 1 .. rw.total + k : content[rw.from + i - 1] \in {Unknown, Taken(k)[i]}
    <3>1. InPlace(content, data, chain) /\ rw.total \in Nat
      BY <1>6 DEF Sound
    <3>2. QED
      BY <1>2, <1>8, <2>1, <2>2, <3>1, TakenRight
  <2>4. QED
    BY <1>3, <1>6, <1>8, <2>3
<1>10. rw' = [rw EXCEPT !.pc = "more", !.rem = n - C, !.total = k, !.link = 2,
                        !.at = ClusterToAddr(chain[2]), !.buf = Taken(k)]
  <2>1. rw.rem - C = n - C /\ rw.total + k = k
    BY <1>6
  <2>2. QED
    BY <1>3, <1>7, <2>1 DEF ReadFirst
<1>11. fileOffset' = f
  BY <1>4, <1>7 DEF ReadFirst
<1> HIDE DEF k
<1>12. /\ rw'.pc = "more" /\ rw'.op = "read" /\ rw'.from = f /\ rw'.n = n /\ rw'.fair = rw.fair
       /\ rw'.rem = n - C /\ rw'.total = k /\ rw'.link = 2 /\ rw'.at = ClusterToAddr(chain[2])
       /\ rw'.buf = Taken(k)
  BY <1>1, <1>2, <1>3, <1>10 DEF FioTyped, CallType
<1>13. ClusterToAddr(chain[2]) \in Int
  BY <1>2, <1>7, AimIn
<1>14. FioTyped'
  <2>1. rw' \in CallType
    <3>1. n - C \in Int /\ k \in Int
      BY <1>8
    <3>2. QED
      BY <1>2, <1>9, <1>10, <1>13, <3>1 DEF FioTyped, CallType
  <2>2. QED
    BY <1>1, <1>2, <1>11, <2>1 DEF FioTyped
<1>15. (Linked(chain, neighbour) /\ fileSize <= C * Len(chain) /\ InPlace(content, data, chain) /\ NeighbourKept)'
  BY <1>1 DEF Sound, Linked, InPlace, NeighbourKept
<1>16. Delivered'
  BY <1>12 DEF Delivered, FioReady
<1>17. Counted(rw')
  <2>1. n > 0 /\ f + n <= MaxSize /\ rw.fair = Fair(f, n)
    BY <1>2, <1>3 DEF Counted
  <2>2. k = C - (f % C)
    BY <1>5 DEF k
  <2>3. QED
    BY <1>6, <1>12, <2>1, <2>2 DEF Counted
<1>18. Aimed(rw', chain)
  <2>1. Due(rw') = C
    BY <1>8, <1>12 DEF Due, k
  <2>2. C \div C = 1 /\ C % C = 0
    OBVIOUS
  <2>3. QED
    BY <1>7, <1>12, <1>13, <2>1, <2>2 DEF Aimed
<1>19. Reading'
  <2>1. Got(rw', content)
    BY <1>9, <1>12 DEF Got
  <2>2. QED
    BY <1>1, <1>4, <1>11, <1>12, <2>1 DEF Reading, Got
<1>20. OnCourse'
  BY <1>1, <1>12, <1>17, <1>18, <1>19 DEF OnCourse, Counted, Aimed, Due
<1>21. QED
  BY <1>14, <1>15, <1>16, <1>20 DEF Sound

\* The part that ends a read.
LEMMA ReadLastSound ==
  ASSUME Sound, ReadLast
  PROVE  Sound'
<1>1. /\ rw.op = "read" /\ Going(rw) /\ rw.rem <= C
      /\ UNCHANGED <<data, chain, neighbour, fileSize, transfers, content>>
  BY DEF ReadLast, Going
<1>2. Counted(rw) /\ Aimed(rw, chain) /\ Reading /\ FioTyped /\ Linked(chain, neighbour) /\ Got(rw, content)
  BY <1>1 DEF Sound, OnCourse, Reading
<1>3. PICK f \in Nat, n \in Nat : f = rw.from /\ n = rw.n /\ fileOffset = f
  BY <1>2 DEF FioTyped, CallType, Reading
<1>4. PICK t \in Nat, m \in 0 .. C : t = rw.total /\ m = rw.rem
  <2>1. rw.rem \in Int /\ rw.total \in Int /\ f % C \in 0 .. C - 1
    BY <1>2, Split DEF FioTyped, CallType
  <2>2. rw.total \in Nat /\ rw.rem >= 0
    BY <1>1, <1>2, <1>3, <2>1 DEF Counted, Going
  <2>3. QED
    BY <1>1, <2>1, <2>2
<1>5. rw' = [rw EXCEPT !.pc = "done", !.total = t + m, !.buf = Taken(m)]
  BY <1>4 DEF ReadLast
<1>6. /\ rw'.pc = "done" /\ rw'.op = "read" /\ rw'.from = f /\ rw'.n = n /\ rw'.fair = rw.fair
      /\ rw'.total = t + m /\ rw'.buf = Taken(m)
  BY <1>1, <1>2, <1>3, <1>5 DEF FioTyped, CallType
<1>7. fileOffset' = f + (t + m)
  BY <1>3, <1>6 DEF ReadLast
<1>8. FioTyped'
  <2>1. Taken(m) \in Seq(Int)
    BY <1>2, <1>4, TakenTyped
  <2>2. rw' \in CallType
    <3>1. t + m \in Int
      BY <1>4
    <3>2. QED
      BY <1>2, <1>5, <2>1, <3>1 DEF FioTyped, CallType
  <2>3. QED
    BY <1>1, <1>2, <1>7, <2>2 DEF FioTyped
<1>9. (Linked(chain, neighbour) /\ fileSize <= C * Len(chain) /\ InPlace(content, data, chain) /\ NeighbourKept)'
  BY <1>1 DEF Sound, Linked, InPlace, NeighbourKept
<1>10. OnCourse'
  BY <1>6 DEF OnCourse, Going
<1>11. Delivered'
  <2> SUFFICES ASSUME rw.fair
               PROVE  /\ t + m = IF (f % C) + n <= C THEN n ELSE n - (f % C)
                      /\ Len(Taken(m)) = t + m
                      /\ \A i \in 1 .. t + m : content[f + i - 1] \in {Unknown, Taken(m)[i]}
    BY <1>1, <1>6, <1>7 DEF Delivered
  <2>1. /\ (Due(rw) % C) + m <= C /\ Due(rw) + m <= MaxSize
        /\ t + m = IF (f % C) + n <= C THEN n ELSE n - (f % C)
    BY <1>1, <1>2, <1>3, <1>4, LastFits
  <2>2. /\ Len(Taken(m)) = rw.total + m
        /\ \A i \in 1 .. rw.total + m : content[rw.from + i - 1] \in {Unknown, Taken(m)[i]}
    BY <1>2, <1>4, <2>1, TakenRight DEF Sound
  <2>3. QED
    BY <1>3, <1>4, <2>1, <2>2
<1>12. QED
  BY <1>8, <1>9, <1>10, <1>11 DEF Sound


\* What follows of a chain that Extended has made longer.
LEMMA LongerSound ==
  ASSUME Sound, NEW length \in 0 .. NumClusters - 1, NEW con, NEW d, InPlace(con, d, chain)
  PROVE  /\ Linked(Extended(length), neighbour) /\ fileSize <= C * Len(Extended(length))
         /\ InPlace(con, d, Extended(length))
         /\ Len(Extended(length)) \in Nat /\ Len(Extended(length)) >= length
<1>1. Linked(chain, neighbour) /\ fileSize \in Nat /\ fileSize <= C * Len(chain)
  BY DEF Sound, FioTyped
<1> DEFINE c == Extended(length)
<1>2. /\ Linked(c, neighbour) /\ Len(c) >= length /\ Len(c) >= Len(chain)
      /\ \A i \in 1 .. Len(chain) : c[i] = chain[i]
  BY <1>1, ExtendedGrows
<1> HIDE DEF c
<1>3. PICK a \in Nat, b \in Nat : a = Len(chain) /\ b = Len(c) /\ a <= b
  BY <1>1, <1>2 DEF Linked
<1>4. C * a <= C * b
  <2>1. C * (b - a) \in Nat
    BY <1>3
  <2>2. QED
    BY <2>1
<1>5. fileSize <= C * Len(c)
  BY <1>1, <1>3, <1>4
<1>6. InPlace(con, d, c)
  BY <1>2, <1>3, LongerInPlace
<1>7. QED
  BY <1>2, <1>3, <1>5, <1>6 DEF c

\* A write finds its cluster, or makes it.
LEMMA WriteSound ==
  ASSUME Sound, NEW n \in Lengths, NEW append \in BOOLEAN, Write(n, append), plain'
  PROVE  Sound'
<1> DEFINE o == IF append THEN fileSize ELSE fileOffset
           link == Links(o) + 1
           call == [Returned EXCEPT !.from = o, !.n = n, !.rem = n, !.link = link, !.fair = Fair(o, n)]
<1>1. /\ o + n <= MaxSize /\ transfers' = transfers + 1 /\ fileOffset' = o /\ Fair(o, n)
      /\ UNCHANGED <<data, neighbour, fileSize, content>>
  BY DEF Write, CanCall
<1>2. IF Room(link)
      THEN /\ chain' = Extended(link)
           /\ rw' = [call EXCEPT !.pc = "first", !.at = ClusterToAddr(chain'[link]) + RelOffs(o)]
      ELSE chain' = Extended(NumClusters - 1) /\ rw' = [call EXCEPT !.pc = "wild"]
  BY DEF Write
<1>3. o \in Nat /\ n \in Nat \ {0}
  BY DEF Sound, FioTyped
<1> HIDE DEF o
<1>4. PICK m \in Nat, r \in 0 .. C - 1 : m = o \div C /\ r = o % C
  BY <1>3, Split
<1>5. RelOffs(o) = r /\ link = m + 1
  BY <1>1, <1>4 DEF Fair
<1> HIDE DEF link
<1>6. /\ call \in CallType /\ call.op = "write" /\ call.from = o /\ call.n = n /\ call.link = m + 1
      /\ call.rem = n /\ call.total = 0 /\ call.fair = TRUE
  <2>1. n \in Int /\ m + 1 \in Nat /\ Fair(o, n) = TRUE
    BY <1>1, <1>3 DEF Fair
  <2>2. call = [Returned EXCEPT !.from = o, !.n = n, !.rem = n, !.link = m + 1, !.fair = TRUE]
    BY <1>5, <2>1
  <2> HIDE DEF call
  <2>3. call \in CallType
    BY <1>3, <2>1, <2>2, ReturnedTyped DEF CallType
  <2>4. QED
    BY <2>2, <2>3, ReturnedTyped DEF CallType
<1> HIDE DEF call
<1>7. NeighbourKept'
  BY <1>1 DEF Sound, NeighbourKept
<1>8. rw' \in CallType => FioTyped'
  BY <1>1, <1>3 DEF Sound, FioTyped
<1>9. CASE Room(link)
  <2>1. chain' = Extended(m + 1) /\ m + 1 \in 0 .. NumClusters - 1
    BY <1>2, <1>5, <1>9 DEF Room
  <2>2. /\ Linked(chain', neighbour) /\ fileSize <= C * Len(chain') /\ InPlace(content, data, chain')
        /\ Len(chain') \in Nat /\ Len(chain') >= m + 1
    BY <2>1, LongerSound DEF Sound
  <2>3. PICK a \in Nat : a = ClusterToAddr(chain'[m + 1])
    <3>1. chain'[m + 1] \in ClusterNumbers
      BY <2>2 DEF Linked
    <3>2. QED
      BY <3>1, Apart
  <2>4. rw' = [call EXCEPT !.pc = "first", !.at = a + r]
    BY <1>2, <1>5, <1>9, <2>3
  <2>5. a + r \in Int
    OBVIOUS
  <2>6. rw' \in CallType
    BY <1>6, <2>4, <2>5 DEF CallType
  <2>7. /\ rw'.pc = "first" /\ rw'.op = "write" /\ rw'.from = o /\ rw'.n = n /\ rw'.link = m + 1
        /\ rw'.rem = n /\ rw'.total = 0 /\ rw'.fair = TRUE /\ rw'.at = a + r
    BY <1>6, <2>4, <2>6 DEF CallType
  <2>8. Counted(rw')
    <3>1. Fair(o, n) = TRUE
      BY <1>1 DEF Fair
    <3>2. rw'.fair = Fair(rw'.from, rw'.n)
      BY <2>7, <3>1, Zenon
    <3>3. QED
      BY <1>1, <1>3, <2>7, <3>2 DEF Counted
  <2>9. Aimed(rw', chain')
    <3>1. Due(rw') = o
      BY <1>3, <2>7 DEF Due
    <3>2. QED
      BY <1>4, <2>2, <2>3, <2>7, <3>1 DEF Aimed
  <2>10. OnCourse'
    BY <2>7, <2>8, <2>9 DEF OnCourse, Counted, Aimed, Due
  <2>11. Delivered'
    BY <2>7 DEF Delivered
  <2>12. (Linked(chain, neighbour) /\ fileSize <= C * Len(chain) /\ InPlace(content, data, chain))'
    BY <1>1, <2>2 DEF Linked, InPlace
  <2>13. QED
    BY <1>7, <1>8, <2>6, <2>10, <2>11, <2>12 DEF Sound
<1>10. CASE ~Room(link)
  <2>1. chain' = Extended(NumClusters - 1) /\ rw' = [call EXCEPT !.pc = "wild"]
    BY <1>2, <1>10
  <2>2. Linked(chain', neighbour) /\ fileSize <= C * Len(chain') /\ InPlace(content, data, chain')
    <3>1. NumClusters - 1 \in 0 .. NumClusters - 1 /\ InPlace(content, data, chain)
      BY DEF Sound
    <3>2. QED
      BY <2>1, <3>1, LongerSound
  <2>3. rw' \in CallType /\ rw'.pc = "wild" /\ rw'.op = "write"
    BY <1>6, <2>1 DEF CallType
  <2>4. OnCourse' /\ Delivered'
    BY <2>3 DEF OnCourse, Going, Delivered
  <2>5. (Linked(chain, neighbour) /\ fileSize <= C * Len(chain) /\ InPlace(content, data, chain))'
    BY <1>1, <2>2 DEF Linked, InPlace
  <2>6. QED
    BY <1>7, <1>8, <2>3, <2>4, <2>5 DEF Sound
<1>11. QED
  BY <1>9, <1>10

\* The part of a write up to the end of the first cluster.
LEMMA WriteFirstSound ==
  ASSUME Sound, WriteFirst
  PROVE  Sound'
<1>1. /\ rw.op = "write" /\ rw.pc = "first" /\ rw.rem > C
      /\ UNCHANGED <<neighbour, fileSize, fileOffset, transfers, plain>>
  BY DEF WriteFirst, FirstPart
<1>2. Counted(rw) /\ Aimed(rw, chain) /\ rw.fair /\ FioTyped /\ Linked(chain, neighbour)
  BY <1>1 DEF Sound, OnCourse, Going
<1>3. PICK f \in Nat, n \in Nat, l \in Nat : f = rw.from /\ n = rw.n /\ l = rw.link
  BY <1>2 DEF FioTyped, CallType
<1>4. PICK k \in 1 .. C : k = C - (f % C)
  BY <1>1, <1>2, <1>3, FirstFits
<1>5. /\ rw.total = 0 /\ n > C /\ rw.rem = n /\ (Due(rw) % C) + k <= C
      /\ (f + k) \div C = l /\ (f + k) % C = 0
  BY <1>1, <1>2, <1>3, <1>4, FirstFits
<1>6. RelOffs(f) = f % C /\ C - RelOffs(rw.from) = k
  BY <1>2, <1>3, <1>4 DEF Counted, Fair
<1>7. data' = Stored(k) /\ content' = ContentWith(k) /\ NextCluster(k)
  BY <1>6 DEF WriteFirst
<1>8. Untouched(data)
  BY DEF Sound, NeighbourKept, Untouched
<1>9. /\ data' \in [Volume -> Int] /\ Untouched(data') /\ content' \in [Positions -> Int]
      /\ InPlace(content', data', chain)
  <2>1. rw.total \in Nat /\ k \in Nat /\ InPlace(content, data, chain)
    BY <1>5 DEF Sound
  <2>2. QED
    BY <1>2, <1>5, <1>7, <1>8, <2>1, StoredInPlace
<1>10. NeighbourKept'
  BY <1>1, <1>9 DEF Untouched, NeighbourKept
<1>11. rw' \in CallType => FioTyped'
  BY <1>1, <1>2, <1>9 DEF FioTyped
<1>12. CASE Room(l + 1)
  <2>1. chain' = Extended(l + 1) /\ l + 1 \in 0 .. NumClusters - 1
    BY <1>3, <1>7, <1>12 DEF NextCluster, Room
  <2>2. /\ Linked(chain', neighbour) /\ fileSize <= C * Len(chain') /\ InPlace(content', data', chain')
        /\ Len(chain') \in Nat /\ Len(chain') >= l + 1
    BY <1>9, <2>1, LongerSound
  <2>3. PICK a \in Nat : a = ClusterToAddr(chain'[l + 1])
    <3>1. chain'[l + 1] \in ClusterNumbers
      BY <2>2 DEF Linked
    <3>2. QED
      BY <3>1, Apart
  <2>4. rw' = [rw EXCEPT !.pc = "more", !.rem = n - C, !.total = k, !.link = l + 1, !.at = a]
    <3>1. rw.rem - C = n - C /\ rw.total + k = k
      BY <1>5
    <3>2. QED
      BY <1>3, <1>7, <1>12, <2>3, <3>1 DEF NextCluster
  <2>5. n - C \in Int /\ k \in Int /\ a \in Int /\ l + 1 \in Nat
    OBVIOUS
  <2>6. rw' \in CallType
    BY <1>2, <2>4, <2>5 DEF FioTyped, CallType
  <2>7. /\ rw'.pc = "more" /\ rw'.op = "write" /\ rw'.from = f /\ rw'.n = n /\ rw'.link = l + 1
        /\ rw'.rem = n - C /\ rw'.total = k /\ rw'.fair = rw.fair /\ rw'.at = a
    BY <1>1, <1>2, <1>3, <2>4, <2>6 DEF FioTyped, CallType
  <2>8. Counted(rw')
    <3>1. n > 0 /\ f + n <= MaxSize /\ rw.fair = Fair(f, n)
      BY <1>2, <1>3 DEF Counted
    <3>2. QED
      BY <1>4, <1>5, <2>7, <3>1 DEF Counted
  <2>9. Aimed(rw', chain')
    <3>1. Due(rw') = f + k
      BY <2>7 DEF Due
    <3>2. a = ClusterToAddr(chain'[l + 1]) + 0
      BY <2>3
    <3>3. QED
      BY <1>5, <2>2, <2>7, <3>1, <3>2 DEF Aimed
  <2>10. OnCourse'
    BY <1>2, <2>7, <2>8, <2>9 DEF OnCourse, Counted, Aimed, Due
  <2>11. Delivered'
    BY <2>7 DEF Delivered
  <2>12. (Linked(chain, neighbour) /\ fileSize <= C * Len(chain) /\ InPlace(content, data, chain))'
    BY <1>1, <2>2 DEF Linked, InPlace
  <2>13. QED
    BY <1>10, <1>11, <2>6, <2>10, <2>11, <2>12 DEF Sound
<1>13. CASE ~Room(l + 1)
  <2>1. chain' = chain /\ rw' = [rw EXCEPT !.pc = "wild"]
    BY <1>3, <1>7, <1>13 DEF NextCluster
  <2>2. rw' \in CallType /\ rw'.pc = "wild"
    BY <1>2, <2>1 DEF FioTyped, CallType
  <2>3. OnCourse' /\ Delivered'
    BY <2>2 DEF OnCourse, Going, Delivered, FioReady
  <2>4. (Linked(chain, neighbour) /\ fileSize <= C * Len(chain) /\ InPlace(content, data, chain))'
    BY <1>1, <1>2, <1>9, <2>1 DEF Sound, Linked, InPlace
  <2>5. QED
    BY <1>10, <1>11, <2>2, <2>3, <2>4 DEF Sound
<1>14. QED
  BY <1>12, <1>13


\* A part that is written on a fair course ends inside the chain.
LEMMA EndInChain ==
  ASSUME FioTyped, Linked(chain, neighbour), Aimed(rw, chain), NEW k \in Nat, (Due(rw) % C) + k <= C,
         rw.total \in Nat
  PROVE  Due(rw) + k \in Nat /\ Due(rw) + k <= C * Len(chain)
<1>1. PICK q \in Nat : q = Due(rw)
  BY DEF FioTyped, CallType, Due
<1>2. PICK m \in Nat, r \in 0 .. C - 1 : m = q \div C /\ r = q % C /\ q = C * m + r
  BY Split
<1>3. PICK z \in Nat : z = Len(chain) /\ m + 1 <= z
  <2>1. Len(chain) \in Nat
    BY DEF Linked
  <2>2. QED
    BY <1>1, <1>2, <2>1 DEF Aimed
<1>4. C * m + C <= C * z
  <2>1. C * (z - (m + 1)) \in Nat
    BY <1>3
  <2>2. QED
    BY <2>1
<1>5. r + k <= C
  BY <1>1, <1>2
<1>6. q + k <= C * z
  <2>1. PICK u \in Nat, v \in Nat : u = C * m /\ v = C * z
    <3>1. C * m \in Nat /\ C * z \in Nat
      OBVIOUS
    <3>2. QED
      BY <3>1
  <2>2. q = u + r /\ u + C <= v
    BY <1>2, <1>4, <2>1
  <2>3. QED
    BY <1>5, <2>1, <2>2
<1>7. QED
  BY <1>1, <1>3, <1>6

\* The part that ends a write, and what else is true when it begins.
LEMMA LastBegins ==
  ASSUME Sound, LastPart
  PROVE  /\ FioTyped /\ Linked(chain, neighbour) /\ Aimed(rw, chain) /\ rw.op = "write"
         /\ rw.total \in Nat /\ rw.rem \in Nat /\ (Due(rw) % C) + rw.rem <= C
         /\ InPlace(content, data, chain) /\ Untouched(data)
<1>1. rw.op = "write" /\ Going(rw) /\ rw.rem <= C
  BY DEF LastPart, Going
<1>2. Counted(rw) /\ Aimed(rw, chain) /\ rw.fair /\ FioTyped /\ Linked(chain, neighbour)
  BY <1>1 DEF Sound, OnCourse
<1>3. rw.total \in Nat /\ rw.rem \in Nat /\ (Due(rw) % C) + rw.rem <= C
  BY <1>1, <1>2, LastFits
<1>4. QED
  BY <1>1, <1>2, <1>3 DEF Sound, NeighbourKept, Untouched

\* It ends well.
LEMMA WriteLastSound ==
  ASSUME Sound, WriteLast
  PROVE  Sound'
<1>1. LastPart /\ UNCHANGED <<chain, neighbour, transfers, plain>>
  BY DEF WriteLast
<1>2. /\ FioTyped /\ Linked(chain, neighbour) /\ Aimed(rw, chain) /\ rw.op = "write"
      /\ InPlace(content, data, chain) /\ Untouched(data)
  BY <1>1, LastBegins
<1>3. PICK f \in Nat, t \in Nat, m \in Nat : f = rw.from /\ t = rw.total /\ m = rw.rem
  <2>1. rw.from \in Nat
    BY <1>2 DEF FioTyped, CallType
  <2>2. QED
    BY <1>1, <2>1, LastBegins
<1>4. (Due(rw) % C) + m <= C
  BY <1>1, <1>3, LastBegins
<1>5. /\ data' = Stored(m) /\ content' = ContentWith(m)
      /\ fileOffset' = f + (t + m)
      /\ fileSize' = IF f + (t + m) >= fileSize THEN f + (t + m) ELSE fileSize
      /\ rw' = [rw EXCEPT !.pc = IF f + (t + m) >= fileSize THEN "size" ELSE "done", !.total = t + m]
  BY <1>3 DEF WriteLast
<1>6. /\ data' \in [Volume -> Int] /\ Untouched(data') /\ content' \in [Positions -> Int]
      /\ InPlace(content', data', chain)
  BY <1>2, <1>3, <1>4, <1>5, StoredInPlace
<1>7. rw' \in CallType /\ rw'.op = "write" /\ rw'.pc \in {"size", "done"}
  <2>1. t + m \in Int
    OBVIOUS
  <2>2. QED
    BY <1>2, <1>5, <2>1 DEF FioTyped, CallType
<1>8. fileSize' \in Nat /\ fileSize' <= C * Len(chain)
  <2>1. f + (t + m) \in Nat /\ f + (t + m) <= C * Len(chain)
    <3>1. Due(rw) + m <= C * Len(chain) /\ Due(rw) = f + t
      BY <1>2, <1>3, <1>4, EndInChain DEF Due
    <3>2. QED
      BY <3>1
  <2>2. fileSize \in Nat /\ fileSize <= C * Len(chain)
    BY <1>2 DEF FioTyped, Sound
  <2>3. QED
    BY <1>5, <2>1, <2>2
<1>9. FioTyped'
  BY <1>1, <1>2, <1>5, <1>6, <1>7, <1>8 DEF FioTyped
<1>10. (Linked(chain, neighbour) /\ fileSize <= C * Len(chain) /\ InPlace(content, data, chain) /\ NeighbourKept)'
  BY <1>1, <1>2, <1>6, <1>8 DEF Linked, InPlace, NeighbourKept, Untouched
<1>11. Delivered' /\ OnCourse'
  BY <1>7 DEF Delivered, OnCourse, Going
<1>12. QED
  BY <1>9, <1>10, <1>11 DEF Sound

\* Or it does not: of what it was to write nothing is known.
LEMMA WriteLastFailsSound ==
  ASSUME Sound, NEW k \in 0 .. C, WriteLastFails(k)
  PROVE  Sound'
<1>1. /\ LastPart /\ k <= rw.rem /\ data' = Stored(k) /\ rw' = [rw EXCEPT !.pc = "done"]
      /\ content' = [p \in DOMAIN content |-> IF InTransfer(p, rw.rem) THEN Unknown ELSE content[p]]
      /\ UNCHANGED <<chain, neighbour, fileSize, fileOffset, transfers, plain>>
  BY DEF WriteLastFails
<1>2. /\ FioTyped /\ Linked(chain, neighbour) /\ Aimed(rw, chain) /\ rw.op = "write"
      /\ InPlace(content, data, chain) /\ Untouched(data)
  BY <1>1, LastBegins
<1>3. PICK f \in Nat, t \in Nat, m \in Nat : f = rw.from /\ t = rw.total /\ m = rw.rem
  <2>1. rw.from \in Nat
    BY <1>2 DEF FioTyped, CallType
  <2>2. QED
    BY <1>1, <2>1, LastBegins
<1>4. (Due(rw) % C) + k <= C
  <2>1. PICK q \in Nat : q = Due(rw)
    BY <1>3 DEF Due
  <2>2. PICK r \in Nat : r = q % C
    BY Split
  <2>3. r + m <= C /\ k <= m
    BY <1>1, <1>3, <2>1, <2>2, LastBegins
  <2>4. QED
    BY <2>1, <2>2, <2>3
<1>5. content' \in [Positions -> Int]
  BY <1>1, <1>2 DEF FioTyped, Unknown
<1>6. \A p \in Positions : content'[p] # Unknown => content'[p] = content[p] /\ ~InTransfer(p, k)
  <2> SUFFICES ASSUME NEW p \in Positions, content'[p] # Unknown
               PROVE  content'[p] = content[p] /\ ~InTransfer(p, k)
    OBVIOUS
  <2>1. content'[p] = IF InTransfer(p, rw.rem) THEN Unknown ELSE content[p]
    BY <1>1, <1>2 DEF FioTyped
  <2>2. content'[p] = content[p] /\ ~InTransfer(p, m)
    BY <1>3, <2>1
  <2>3. ~InTransfer(p, k)
    <3>1. p \in Nat /\ k <= m
      BY <1>1, <1>3 DEF Positions
    <3>2. ~(p >= f + t /\ p < f + t + m)
      BY <1>3, <2>2 DEF InTransfer
    <3>3. ~(p >= f + t /\ p < f + t + k)
      BY <3>1, <3>2
    <3>4. QED
      BY <1>3, <3>3 DEF InTransfer
  <2>4. QED
    BY <2>2, <2>3
<1>7. /\ data' \in [Volume -> Int] /\ Untouched(data') /\ InPlace(content', data', chain)
  BY <1>1, <1>2, <1>3, <1>4, <1>5, <1>6, StoredInPlace
<1>8. rw' \in CallType /\ rw'.op = "write" /\ rw'.pc = "done"
  BY <1>1, <1>2 DEF FioTyped, CallType
<1>9. FioTyped'
  BY <1>1, <1>2, <1>5, <1>7, <1>8 DEF FioTyped
<1>10. (Linked(chain, neighbour) /\ fileSize <= C * Len(chain) /\ InPlace(content, data, chain) /\ NeighbourKept)'
  BY <1>1, <1>2, <1>7 DEF Sound, Linked, InPlace, NeighbourKept, Untouched
<1>11. Delivered' /\ OnCourse'
  BY <1>8 DEF Delivered, OnCourse, Going
<1>12. QED
  BY <1>9, <1>10, <1>11 DEF Sound

\* Where a call goes wild, or its size is written, nothing else changes.
LEMMA OthersSound ==
  ASSUME Sound, CountLost \/ \E ok \in BOOLEAN : WriteSize(ok)
  PROVE  Sound'
<1>1. UNCHANGED <<data, chain, neighbour, fileSize, fileOffset, transfers, content, plain>>
  BY DEF CountLost, WriteSize
<1>2. rw' \in CallType /\ (rw'.pc = "wild" \/ (rw'.pc = "done" /\ rw'.op = "write"))
  <2>1. rw \in CallType
    BY DEF Sound, FioTyped
  <2>2. CASE CountLost
    BY <2>1, <2>2 DEF CountLost, CallType
  <2>3. CASE \E ok \in BOOLEAN : WriteSize(ok)
    <3>1. PICK ok \in BOOLEAN : WriteSize(ok)
      BY <2>3
    <3>2. rw.op = "write"
      BY <3>1 DEF WriteSize, Sound, OnCourse
    <3>3. QED
      BY <2>1, <3>1, <3>2 DEF WriteSize, CallType
  <2>4. QED
    BY <2>2, <2>3
<1>3. FioTyped'
  BY <1>1, <1>2 DEF Sound, FioTyped
<1>4. (Linked(chain, neighbour) /\ fileSize <= C * Len(chain) /\ InPlace(content, data, chain) /\ NeighbourKept)'
  BY <1>1 DEF Sound, Linked, InPlace, NeighbourKept
<1>5. Delivered' /\ OnCourse'
  BY <1>2 DEF Delivered, OnCourse, Going, FioReady
<1>6. QED
  BY <1>3, <1>4, <1>5 DEF Sound

\* Nor when nothing happens.
LEMMA StutterSound ==
  ASSUME Sound, UNCHANGED fioVars
  PROVE  Sound'
<1>1. /\ FioTyped' /\ Delivered' /\ OnCourse'
      /\ (Linked(chain, neighbour) /\ fileSize <= C * Len(chain) /\ InPlace(content, data, chain) /\ NeighbourKept)'
  BY DEF Sound, fioVars, FioTyped, Linked, InPlace, NeighbourKept, Delivered, FioReady, OnCourse,
         Counted, Aimed, Due, Reading, Got, Going
<1>2. QED
  BY <1>1 DEF Sound
----------------------------------------------------------------------------
\* The empty file.
LEMMA InitSound == FioInit => Sound
<1> SUFFICES ASSUME FioInit PROVE Sound
  OBVIOUS
<1>1. FioTyped
  <2>1. rw \in CallType
    BY ReturnedTyped DEF FioInit
  <2>2. data \in [Volume -> Int] /\ content \in [Positions -> Int] /\ neighbour \in ClusterNumbers
    BY DEF FioInit, Positions, ClusterNumbers, Unknown
  <2>3. QED
    BY <2>1, <2>2 DEF FioInit, FioTyped
<1>2. chain = <<>> /\ fileSize = 0 /\ rw = Returned
  BY DEF FioInit
<1>3. Linked(chain, neighbour) /\ fileSize <= C * Len(chain)
  <2>1. Len(chain) = 0 /\ chain \in Seq(ClusterNumbers)
    BY <1>2
  <2>2. C * 0 = 0
    OBVIOUS
  <2>3. QED
    BY <1>2, <2>1, <2>2 DEF Linked
<1>4. InPlace(content, data, chain)
  BY DEF FioInit, InPlace, Positions
<1>5. NeighbourKept
  <2> SUFFICES ASSUME NEW i \in 0 .. C - 1 PROVE data[ClusterToAddr(neighbour) + i] = Unknown
    BY DEF NeighbourKept
  <2>1. ClusterToAddr(neighbour) + i \in Volume
    BY <1>1, Apart DEF FioTyped
  <2>2. QED
    BY <2>1 DEF FioInit
<1>6. Delivered /\ OnCourse
  BY <1>2, ReturnedTyped DEF Delivered, OnCourse, Going
<1>7. QED
  BY <1>1, <1>3, <1>4, <1>5, <1>6 DEF Sound

\* Every step keeps Sound, or begins a write that is not one fat_write is right for.
LEMMA IInvHolds == FioSpec => []IInv
<1>1. FioInit => IInv
  BY InitSound DEF IInv
<1>2. IInv /\ [FioNext]_fioVars => IInv'
  <2> SUFFICES ASSUME IInv, [FioNext]_fioVars, plain' PROVE Sound'
    BY DEF IInv
  <2>1. ASSUME NEW p \in Offsets, Seek(p) PROVE Sound'
    BY <2>1, SeekSound DEF Seek, IInv
  <2>2. ASSUME NEW n \in Lengths, Read(n) PROVE Sound'
    BY <2>2, ReadSound DEF Read, IInv
  <2>3. ASSUME ReadFirst PROVE Sound'
    BY <2>3, ReadFirstSound DEF ReadFirst, IInv
  <2>4. ASSUME ReadLast PROVE Sound'
    BY <2>4, ReadLastSound DEF ReadLast, IInv
  <2>5. ASSUME NEW n \in Lengths, NEW append \in BOOLEAN, Write(n, append) PROVE Sound'
    BY <2>5, WriteSound DEF Write, IInv
  <2>6. ASSUME WriteFirst PROVE Sound'
    BY <2>6, WriteFirstSound DEF WriteFirst, IInv
  <2>7. ASSUME NEW k \in 0 .. C, NEW count \in Leftovers, WriteFirstFails(k, count) PROVE Sound'
    BY <2>7 DEF WriteFirstFails
  <2>8. ASSUME CountLost PROVE Sound'
    BY <2>8, OthersSound DEF CountLost, IInv
  <2>9. ASSUME WriteLast PROVE Sound'
    BY <2>9, WriteLastSound DEF WriteLast, IInv
  <2>10. ASSUME NEW k \in 0 .. C, WriteLastFails(k) PROVE Sound'
    BY <2>10, WriteLastFailsSound DEF WriteLastFails, IInv
  <2>11. ASSUME NEW ok \in BOOLEAN, WriteSize(ok) PROVE Sound'
    BY <2>11, OthersSound DEF WriteSize, IInv
  <2>12. ASSUME UNCHANGED fioVars PROVE Sound'
    BY <2>12, StutterSound DEF fioVars, IInv
  <2>13. QED
    BY <2>1, <2>2, <2>3, <2>4, <2>5, <2>6, <2>7, <2>8, <2>9, <2>10, <2>11, <2>12 DEF FioNext
<1>3. QED
  BY <1>1, <1>2, PTL DEF FioSpec

\* FioAsFile, for every value of the constants: fat_read and fat_write make a
\* file of the clusters, between calls and after writes that failed, up to the
\* first write they are not right for.
THEOREM FioAsFileHolds == FioSpec => []FioAsFile
<1>1. IInv => FioAsFile
  <2> SUFFICES ASSUME Sound PROVE Placed /\ NeighbourKept /\ Delivered
    BY DEF IInv, FioAsFile
  <2>1. DOMAIN content = Positions
    BY DEF Sound, FioTyped
  <2>2. Placed
    BY <2>1 DEF Sound, Placed, InPlace, PlaceOf
  <2>3. QED
    BY <2>2 DEF Sound
<1>2. QED
  BY <1>1, IInvHolds, PTL
==============================================================================
