----------------------------- MODULE VfsProofs -----------------------------
(***************************************************************************)
(* Proofs about Vfs for tables and registers of every size: the type       *)
(* invariant, the exactness of the reference counts up to the first        *)
(* drifting call, what that call breaks, and that the tables implement     *)
(* OpenFiles until then.  Each table operator gets a lemma that says what  *)
(* it preserves; the theorems combine one lemma per action.                *)
(***************************************************************************)
EXTENDS Vfs, TLAPS, FiniteSetTheorems, WellFoundedInduction

USE SizesFit, ArgsTyped

\* Counts are exact and entries are in use exactly while they are held.
ConsistentAt(t, f) ==
  /\ t.refs[f] = Cardinality(Holders(t, f))
  /\ t.mode[f] # "free" <=> Holders(t, f) # {}

Consistent(t) == \A f \in Files : ConsistentAt(t, f)

IInv == TypeOK /\ (clean => Consistent(tab))
----------------------------------------------------------------------------
(* Lemmas on sets of descriptors and entries. *)

\* The lowest element of a set of naturals is in it, and below all others.
LEMMA LowestIn ==
  ASSUME NEW S \in SUBSET Nat, S # {}
  PROVE  Lowest(S) \in S /\ \A y \in S : Lowest(S) <= y
<1>1. PICK x \in S : \A y \in S : ~(<<y, x>> \in OpToRel(<, Nat))
  BY WFMin, NatLessThanWellFounded
<1>2. OpToRel(<, Nat) = {ss \in Nat \X Nat : ss[1] < ss[2]}
  BY Zenon DEF OpToRel
<1>3. \A y \in S : ~(y < x)
  <2>1. SUFFICES ASSUME NEW y \in S, y < x PROVE FALSE
    OBVIOUS
  <2>2. <<y, x>> \in {ss \in Nat \X Nat : ss[1] < ss[2]}
    BY <2>1
  <2>3. QED
    BY <2>2, <1>1, <1>2, Zenon
<1>4. \A y \in S : x <= y
  BY <1>3
<1>5. QED
  BY <1>4, Zenon DEF Lowest

\* An entry has finitely many holders, fewer than a byte has values.
LEMMA HoldersBounded ==
  ASSUME NEW t \in Table, NEW f \in Files
  PROVE  /\ IsFiniteSet(Holders(t, f))
         /\ Cardinality(Holders(t, f)) \in 0 .. 2 * NFd
         /\ Cardinality(Holders(t, f)) < Byte
         /\ Cardinality(Holders(t, f)) = 0 <=> Holders(t, f) = {}
<1>1. IsFiniteSet(Fds) /\ Cardinality(Fds) = 2 * NFd
  BY FS_Interval, 0 \in Int, 2 * NFd - 1 \in Int DEF Fds
<1>2. Holders(t, f) \in SUBSET Fds
  BY DEF Holders
<1>3. /\ IsFiniteSet(Holders(t, f))
      /\ Cardinality(Holders(t, f)) <= 2 * NFd
  BY <1>1, <1>2, FS_Subset
<1>4. Cardinality(Holders(t, f)) \in Nat
  BY <1>3, FS_CardinalityType
<1>5. Cardinality(Holders(t, f)) = 0 <=> Holders(t, f) = {}
  BY <1>3, FS_EmptySet
<1>6. QED
  BY <1>3, <1>4, <1>5

\* Both halves are parts of the descriptor table.
LEMMA HalvesAreFds == KernelFds \subseteq Fds /\ UserFds \subseteq Fds /\ Fds \subseteq Nat
BY DEF KernelFds, UserFds, Fds

\* What an open claims is a free slot of its half and a free entry.
LEMMA ClaimedPlaces ==
  ASSUME NEW t \in Table, NEW half \in {KernelFds, UserFds}, CanClaim(t, half)
  PROVE  /\ Lowest(FreeFds(t, half)) \in half
         /\ Lowest(FreeFds(t, half)) \in Fds
         /\ t.fd[Lowest(FreeFds(t, half))] = Free
         /\ Lowest(FreeFiles(t)) \in Files
         /\ t.mode[Lowest(FreeFiles(t))] = "free"
<1>1. FreeFds(t, half) \in SUBSET Nat /\ FreeFds(t, half) # {}
  BY HalvesAreFds DEF CanClaim, FreeFds
<1>2. FreeFiles(t) \in SUBSET Nat /\ FreeFiles(t) # {}
  BY DEF CanClaim, FreeFiles, Files
<1>3. Lowest(FreeFds(t, half)) \in FreeFds(t, half)
  BY <1>1, LowestIn
<1>4. Lowest(FreeFiles(t)) \in FreeFiles(t)
  BY <1>2, LowestIn
<1>5. QED
  BY <1>3, <1>4, HalvesAreFds DEF FreeFds, FreeFiles
----------------------------------------------------------------------------
(* The table operators keep the types. *)

\* Whatever a slot holds, getFileAddr points at an entry of the table.
LEMMA EntryOfType == ASSUME NEW slot PROVE EntryOf(slot) \in Files
BY DEF EntryOf, Files

\* Open leaves tables of the right types.
LEMMA ClaimType ==
  ASSUME NEW t \in Table, NEW half \in {KernelFds, UserFds}, CanClaim(t, half),
         NEW kind \in Kinds
  PROVE  Claim(t, half, kind) \in Table
<1>1. 1 \in 0 .. Byte - 1
  OBVIOUS
<1>2. QED
  BY <1>1, ClaimedPlaces DEF Claim, Table

\* So does close, its count wrapped into a byte.
LEMMA CloseType ==
  ASSUME NEW t \in Table, NEW d
  PROVE  CloseFd(t, d) \in Table
<1>1. CASE ~Valid(t, d)
  BY <1>1 DEF CloseFd
<1>2. CASE Valid(t, d)
  <2>1. t.fd[d] \in Files /\ d \in Fds
    BY <1>2 DEF Valid, Table
  <2>2. (t.refs[t.fd[d]] - 1) % Byte \in 0 .. Byte - 1
    BY <2>1 DEF Table
  <2>3. QED
    BY <1>2, <2>1, <2>2 DEF CloseFd, Table
<1>3. QED
  BY <1>1, <1>2

\* So does the copy of dup and udup.
LEMMA CopyType ==
  ASSUME NEW t \in Table, NEW new \in Fds, NEW old \in Fds
  PROVE  CopyFd(t, new, old) \in Table
<1>1. EntryOf(t.fd[old]) \in Files
  BY EntryOfType
<1>2. (t.refs[EntryOf(t.fd[old])] + 1) % Byte \in 0 .. Byte - 1
  BY <1>1 DEF Table
<1>3. t.fd[old] \in Files \cup {Free}
  BY DEF Table
<1>4. QED
  BY <1>1, <1>2, <1>3 DEF CopyFd, Table

\* The standard streams have a slot in each half.
LEMMA StdStreamsAreFds ==
  ASSUME NEW i \in StdStreams
  PROVE  i \in Fds /\ NFd + i \in Fds /\ i \in KernelFds /\ NFd + i \in UserFds
BY DEF StdStreams, Fds, KernelFds, UserFds

\* udup leaves tables of the right types.
LEMMA UdupType ==
  ASSUME NEW t \in Table, NEW i \in StdStreams
  PROVE  Udup(t, i) \in Table
BY CopyType, StdStreamsAreFds DEF Udup

\* So does copying all three streams.
LEMMA UdupStdType ==
  ASSUME NEW t \in Table
  PROVE  UdupStd(t) \in Table
<1>1. 0 \in StdStreams /\ 1 \in StdStreams /\ 2 \in StdStreams
  BY DEF StdStreams
<1>2. QED
  BY <1>1, UdupType DEF UdupStd

\* Cold start leaves tables of the right types.
LEMMA BootType ==
  ASSUME NEW mounted \in BOOLEAN
  PROVE  /\ BootTable(mounted) \in Table
         /\ Booted(mounted).tab = BootTable(mounted)
         /\ Booted(mounted).mounts \subseteq 0 .. Byte - 1
<1>1. 0 \in Files /\ 1 \in Files /\ 2 \in Files /\ Free \in Files \cup {Free}
  BY DEF Files
<1>2. /\ 0 \in 0 .. Byte - 1 /\ 1 \in 0 .. Byte - 1
      /\ 2 \in 0 .. Byte - 1 /\ 3 \in 0 .. Byte - 1
  OBVIOUS
<1>3. QED
  BY <1>1, <1>2 DEF BootTable, Booted, Table, Kinds
----------------------------------------------------------------------------
(* The table operators keep the counts exact. *)

\* An entry whose slots and fields stay as they are stays consistent.
LEMMA UntouchedEntry ==
  ASSUME NEW t, NEW u, NEW f,
         Holders(u, f) = Holders(t, f), u.refs[f] = t.refs[f], u.mode[f] = t.mode[f],
         ConsistentAt(t, f)
  PROVE  ConsistentAt(u, f)
BY DEF ConsistentAt

\* Open: the claimed entry may hold a stale count, all others must be exact.
LEMMA ClaimConsistent ==
  ASSUME NEW t \in Table, NEW half \in {KernelFds, UserFds}, CanClaim(t, half),
         NEW kind \in Kinds,
         Holders(t, Lowest(FreeFiles(t))) = {},
         \A g \in Files \ {Lowest(FreeFiles(t))} : ConsistentAt(t, g)
  PROVE  Consistent(Claim(t, half, kind))
<1> DEFINE d == Lowest(FreeFds(t, half))
           f == Lowest(FreeFiles(t))
           u == Claim(t, half, kind)
<1>1. d \in Fds /\ t.fd[d] = Free /\ f \in Files
  BY ClaimedPlaces
<1>2. /\ u.fd = [t.fd EXCEPT ![d] = f]
      /\ u.mode = [t.mode EXCEPT ![f] = kind]
      /\ u.refs = [t.refs EXCEPT ![f] = 1]
  BY DEF Claim
<1> HIDE DEF d, f, u
<1>3. Free \notin Files
  BY DEF Free, Files
<1>4. Holders(u, f) = {d}
  BY <1>1, <1>2 DEF Holders, Table, f
<1>5. ConsistentAt(u, f)
  <2>1. Cardinality({d}) = 1
    BY FS_Singleton
  <2>2. u.refs[f] = 1 /\ u.mode[f] # "free"
    BY <1>1, <1>2 DEF Table, Kinds
  <2>3. QED
    BY <1>4, <2>1, <2>2 DEF ConsistentAt
<1>6. ASSUME NEW g \in Files, g # f
      PROVE  ConsistentAt(u, g)
  <2>1. Holders(u, g) = Holders(t, g)
    BY <1>1, <1>2, <1>3, <1>6 DEF Holders, Table
  <2>2. u.refs[g] = t.refs[g] /\ u.mode[g] = t.mode[g]
    BY <1>2, <1>6 DEF Table
  <2>3. ConsistentAt(t, g)
    BY <1>6 DEF f
  <2>4. QED
    BY <2>1, <2>2, <2>3, UntouchedEntry
<1>7. QED
  BY <1>5, <1>6 DEF Consistent, u

\* Close: one holder less and one count less, and a free entry at zero.
LEMMA CloseConsistent ==
  ASSUME NEW t \in Table, NEW d, Consistent(t)
  PROVE  Consistent(CloseFd(t, d))
<1>1. CASE ~Valid(t, d)
  BY <1>1 DEF CloseFd
<1>2. CASE Valid(t, d)
  <2> DEFINE f == t.fd[d]
             n == (t.refs[f] - 1) % Byte
             u == CloseFd(t, d)
  <2>1. d \in Fds /\ f \in Files /\ f # Free
    BY <1>2 DEF Valid, Table
  <2>2. /\ u.fd = [t.fd EXCEPT ![d] = Free]
        /\ u.mode = IF n = 0 THEN [t.mode EXCEPT ![f] = "free"] ELSE t.mode
        /\ u.refs = [t.refs EXCEPT ![f] = n]
    BY <1>2 DEF CloseFd
  <2> HIDE DEF u
  <2>3. Free \notin Files
    BY DEF Free, Files
  <2>4. Holders(u, f) = Holders(t, f) \ {d} /\ d \in Holders(t, f)
    BY <2>1, <2>2, <2>3 DEF Holders, Table
  <2>5. Cardinality(Holders(u, f)) = Cardinality(Holders(t, f)) - 1
    <3>1. IsFiniteSet(Holders(t, f))
      BY <2>1, HoldersBounded
    <3>2. Cardinality(Holders(t, f) \ {d}) = Cardinality(Holders(t, f)) - 1
      BY <3>1, <2>4, FS_RemoveElement
    <3>3. QED
      BY <3>2, <2>4
  <2>6. n = Cardinality(Holders(u, f)) /\ (n = 0 <=> Holders(u, f) = {})
    <3>1. t.refs[f] = Cardinality(Holders(t, f)) /\ Holders(t, f) # {}
      BY <2>1, <2>4 DEF Consistent, ConsistentAt
    <3>2. t.refs[f] - 1 \in 0 .. Byte - 1
      BY <3>1, <2>1, HoldersBounded
    <3>3. n = t.refs[f] - 1
      BY <3>2
    <3>4. Cardinality(Holders(u, f)) = 0 <=> Holders(u, f) = {}
      <4>1. IsFiniteSet(Holders(u, f))
        BY <2>1, <2>4, HoldersBounded, FS_RemoveElement
      <4>2. QED
        BY <4>1, FS_EmptySet
    <3>5. QED
      BY <2>5, <3>1, <3>3, <3>4
  <2> HIDE DEF n
  <2>7. ConsistentAt(u, f)
    <3>1. t.mode[f] # "free"
      BY <2>1, <2>4 DEF Consistent, ConsistentAt
    <3>2. u.refs[f] = n /\ u.mode[f] = IF n = 0 THEN "free" ELSE t.mode[f]
      BY <2>1, <2>2 DEF Table
    <3>3. QED
      BY <3>1, <3>2, <2>6 DEF ConsistentAt
  <2>8. ASSUME NEW g \in Files, g # f
        PROVE  ConsistentAt(u, g)
    <3>1. Holders(u, g) = Holders(t, g)
      BY <2>1, <2>2, <2>3, <2>8 DEF Holders, Table
    <3>2. u.refs[g] = t.refs[g] /\ u.mode[g] = t.mode[g]
      BY <2>1, <2>2, <2>8 DEF Table
    <3>3. ConsistentAt(t, g)
      BY DEF Consistent
    <3>4. QED
      BY <3>1, <3>2, <3>3, UntouchedEntry
  <2>9. QED
    BY <2>7, <2>8 DEF Consistent, u
<1>3. QED
  BY <1>1, <1>2

\* Copying an open descriptor to a free slot: one holder and one count more.
LEMMA CopyConsistent ==
  ASSUME NEW t \in Table, NEW new \in Fds, NEW old \in Fds, NEW g \in Files,
         t.fd[new] = Free, t.fd[old] # Free, ConsistentAt(t, g)
  PROVE  ConsistentAt(CopyFd(t, new, old), g)
<1> DEFINE f == t.fd[old]
           u == CopyFd(t, new, old)
<1>1. f \in Files /\ EntryOf(f) = f
  BY DEF Table, EntryOf
<1>2. /\ u.fd = [t.fd EXCEPT ![new] = f]
      /\ u.mode = t.mode
      /\ u.refs = [t.refs EXCEPT ![f] = (@ + 1) % Byte]
  BY <1>1 DEF CopyFd, Table
<1> HIDE DEF u
<1>3. Free \notin Files
  BY DEF Free, Files
<1>4. CASE g = f
  <2>1. /\ Holders(u, f) = Holders(t, f) \cup {new}
        /\ new \notin Holders(t, f)
        /\ old \in Holders(t, f)
    BY <1>1, <1>2, <1>3 DEF Holders, Table
  <2>2. /\ Cardinality(Holders(u, f)) = Cardinality(Holders(t, f)) + 1
        /\ Cardinality(Holders(t, f)) \in Nat
    <3>1. IsFiniteSet(Holders(t, f)) /\ Cardinality(Holders(t, f)) \in Nat
      BY <1>1, HoldersBounded
    <3>2. Cardinality(Holders(t, f) \cup {new}) = Cardinality(Holders(t, f)) + 1
      BY <3>1, <2>1, FS_AddElement
    <3>3. QED
      BY <3>1, <3>2, <2>1
  <2>3. Cardinality(Holders(u, f)) < Byte
    <3>1. u \in Table
      BY CopyType DEF u
    <3>2. QED
      BY <3>1, <1>1, HoldersBounded
  <2>4. t.refs[f] = Cardinality(Holders(t, f)) /\ t.mode[f] # "free"
    BY <1>4, <2>1 DEF ConsistentAt
  <2>5. (t.refs[f] + 1) % Byte = Cardinality(Holders(u, f))
    BY <2>2, <2>3, <2>4
  <2>6. u.refs[f] = (t.refs[f] + 1) % Byte
    BY <1>1, <1>2 DEF Table
  <2>7. QED
    BY <1>2, <1>4, <2>1, <2>4, <2>5, <2>6 DEF ConsistentAt, u
<1>5. CASE g # f
  <2>1. Holders(u, g) = Holders(t, g)
    BY <1>1, <1>2, <1>3, <1>5 DEF Holders, Table
  <2>2. u.refs[g] = t.refs[g] /\ u.mode[g] = t.mode[g]
    BY <1>1, <1>2, <1>5 DEF Table
  <2>3. QED
    BY <2>1, <2>2, UntouchedEntry DEF u
<1>6. QED
  BY <1>4, <1>5

\* Copying a closed descriptor disturbs the count of entry 0 and nothing else.
LEMMA CopyClosed ==
  ASSUME NEW t \in Table, NEW new \in Fds, NEW old \in Fds, NEW g \in Files \ {0},
         t.fd[new] = Free, t.fd[old] = Free, ConsistentAt(t, g)
  PROVE  ConsistentAt(CopyFd(t, new, old), g)
<1> DEFINE u == CopyFd(t, new, old)
<1>1. EntryOf(Free) = 0
  BY DEF EntryOf, Free, Files
<1>2. /\ u.fd = [t.fd EXCEPT ![new] = Free]
      /\ u.mode = t.mode
      /\ u.refs = [t.refs EXCEPT ![0] = (@ + 1) % Byte]
  BY <1>1 DEF CopyFd, Table
<1> HIDE DEF u
<1>3. u.fd = t.fd
  BY <1>2 DEF Table
<1>4. Holders(u, g) = Holders(t, g) /\ u.refs[g] = t.refs[g] /\ u.mode[g] = t.mode[g]
  BY <1>2, <1>3 DEF Holders, Table
<1>5. QED
  BY <1>4, UntouchedEntry DEF u
----------------------------------------------------------------------------
(* The calls that are compositions of the operators. *)

\* Opening and closing again gives the tables back, with the count of the
\* entry that was borrowed at 0.
LEMMA OpenAndCloseEffect ==
  ASSUME NEW t \in Table, CanClaim(t, KernelFds), NEW kind \in Kinds
  PROVE  /\ OpenAndClose(t, kind) \in Table
         /\ OpenAndClose(t, kind).fd = t.fd
         /\ OpenAndClose(t, kind).mode = t.mode
         /\ OpenAndClose(t, kind).refs = [t.refs EXCEPT ![Lowest(FreeFiles(t))] = 0]
<1> DEFINE d == Lowest(FreeFds(t, KernelFds))
           f == Lowest(FreeFiles(t))
           u == Claim(t, KernelFds, kind)
<1>1. /\ d \in Fds /\ t.fd[d] = Free
      /\ f \in Files /\ t.mode[f] = "free"
  BY ClaimedPlaces
<1>2. u \in Table
  BY ClaimType
<1>3. /\ u.fd = [t.fd EXCEPT ![d] = f]
      /\ u.mode = [t.mode EXCEPT ![f] = kind]
      /\ u.refs = [t.refs EXCEPT ![f] = 1]
  BY DEF Claim
<1>4. OpenAndClose(t, kind) = CloseFd(u, d)
  BY DEF OpenAndClose
<1> HIDE DEF d, f, u
<1>5. u.fd[d] = f /\ Valid(u, d)
  BY <1>1, <1>3 DEF Valid, Table, Free, Files
<1>6. (u.refs[f] - 1) % Byte = 0
  <2>1. u.refs[f] = 1
    BY <1>1, <1>3 DEF Table
  <2>2. QED
    BY <2>1
<1>7. CloseFd(u, d) = [fd   |-> [u.fd EXCEPT ![d] = Free],
                       mode |-> [u.mode EXCEPT ![f] = "free"],
                       refs |-> [u.refs EXCEPT ![f] = 0]]
  BY <1>5, <1>6 DEF CloseFd
<1>8. [u.fd EXCEPT ![d] = Free] = t.fd
  BY <1>1, <1>3 DEF Table
<1>9. [u.mode EXCEPT ![f] = "free"] = t.mode
  BY <1>1, <1>3 DEF Table
<1>10. [u.refs EXCEPT ![f] = 0] = [t.refs EXCEPT ![f] = 0]
  BY <1>1, <1>3 DEF Table
<1>11. CloseFd(u, d) \in Table
  BY <1>2, CloseType
<1>12. QED
  BY <1>4, <1>7, <1>8, <1>9, <1>10, <1>11 DEF f

\* Opening and closing again keeps all entries consistent, given that the others are.
LEMMA OpenAndCloseConsistent ==
  ASSUME NEW t \in Table, CanClaim(t, KernelFds), NEW kind \in Kinds,
         Holders(t, Lowest(FreeFiles(t))) = {},
         \A g \in Files \ {Lowest(FreeFiles(t))} : ConsistentAt(t, g)
  PROVE  Consistent(OpenAndClose(t, kind))
<1> DEFINE f == Lowest(FreeFiles(t))
           u == OpenAndClose(t, kind)
<1>1. f \in Files /\ t.mode[f] = "free"
  BY ClaimedPlaces
<1>2. u.fd = t.fd /\ u.mode = t.mode /\ u.refs = [t.refs EXCEPT ![f] = 0]
  BY OpenAndCloseEffect
<1> HIDE DEF u
<1>3. \A g : Holders(u, g) = Holders(t, g)
  BY <1>2 DEF Holders
<1>4. ConsistentAt(u, f)
  <2>1. u.refs[f] = 0 /\ u.mode[f] = "free"
    BY <1>1, <1>2 DEF Table
  <2>2. QED
    BY <1>3, <2>1, FS_EmptySet DEF ConsistentAt
<1>5. ASSUME NEW g \in Files, g # f
      PROVE  ConsistentAt(u, g)
  <2>1. u.refs[g] = t.refs[g] /\ u.mode[g] = t.mode[g]
    BY <1>1, <1>2, <1>5 DEF Table
  <2>2. ConsistentAt(t, g)
    BY <1>5
  <2>3. QED
    BY <1>3, <2>1, <2>2, UntouchedEntry
<1>6. QED
  BY <1>4, <1>5 DEF Consistent, u

\* In consistent tables the entry an open will claim is held by nobody.
LEMMA FreeEntryUnheld ==
  ASSUME NEW t \in Table, NEW half \in {KernelFds, UserFds}, CanClaim(t, half), Consistent(t)
  PROVE  /\ Holders(t, Lowest(FreeFiles(t))) = {}
         /\ \A g \in Files \ {Lowest(FreeFiles(t))} : ConsistentAt(t, g)
BY ClaimedPlaces DEF Consistent, ConsistentAt

\* Cold start leaves consistent tables.
LEMMA BootConsistent ==
  ASSUME NEW mounted \in BOOLEAN
  PROVE  Consistent(BootTable(mounted))
<1> DEFINE t == BootTable(mounted)
<1>1. Holders(t, 0) = {0}
  BY DEF Holders, BootTable, Fds, Free
<1>2. Holders(t, 1) = {1, 2}
  BY DEF Holders, BootTable, Fds, Free
<1>3. Holders(t, 2) = IF mounted THEN {3} ELSE {}
  BY DEF Holders, BootTable, Fds, Free
<1>4. \A f \in Files \ {0, 1, 2} : Holders(t, f) = {}
  BY DEF Holders, BootTable, Fds, Free, Files
<1>5. /\ \A f \in Files : t.refs[f] = IF f = 0 THEN 1 ELSE IF f = 1 THEN 2
                                    ELSE IF f = 2 /\ mounted THEN 1 ELSE 0
      /\ \A f \in Files : t.mode[f] = IF f < 2 \/ (f = 2 /\ mounted) THEN "CHAR" ELSE "free"
  BY DEF BootTable
<1> HIDE DEF t
<1>6. /\ Cardinality({0}) = 1 /\ Cardinality({3}) = 1
      /\ Cardinality({1, 2}) = 2 /\ Cardinality({}) = 0
  <2>1. Cardinality({1} \cup {2}) = 2
    <3>1. IsFiniteSet({1}) /\ Cardinality({1}) = 1
      BY FS_Singleton
    <3>2. 2 \notin {1}
      OBVIOUS
    <3>3. Cardinality({1} \cup {2}) = Cardinality({1}) + 1
      BY <3>1, <3>2, FS_AddElement
    <3>4. QED
      BY <3>1, <3>3
  <2>2. {1} \cup {2} = {1, 2}
    OBVIOUS
  <2>3. QED
    BY <2>1, <2>2, FS_Singleton, FS_EmptySet
<1>7. SUFFICES ASSUME NEW f \in Files PROVE ConsistentAt(t, f)
  BY DEF Consistent, t
<1>8. CASE f = 0
  <2>1. t.refs[f] = 1 /\ t.mode[f] = "CHAR"
    BY <1>5, <1>8
  <2>2. Holders(t, f) = {0} /\ Holders(t, f) # {}
    BY <1>1, <1>8
  <2>3. QED
    BY <1>6, <2>1, <2>2 DEF ConsistentAt
<1>9. CASE f = 1
  <2>1. t.refs[f] = 2 /\ t.mode[f] = "CHAR"
    BY <1>5, <1>9
  <2>2. Holders(t, f) = {1, 2} /\ Holders(t, f) # {}
    BY <1>2, <1>9
  <2>3. QED
    BY <1>6, <2>1, <2>2 DEF ConsistentAt
<1>10. CASE f = 2
  <2>1. CASE mounted
    <3>1. t.refs[f] = 1 /\ t.mode[f] = "CHAR"
      BY <1>5, <1>10, <2>1
    <3>2. Holders(t, f) = {3} /\ Holders(t, f) # {}
      BY <1>3, <1>10, <2>1
    <3>3. QED
      BY <1>6, <3>1, <3>2 DEF ConsistentAt
  <2>2. CASE ~mounted
    <3>1. t.refs[f] = 0 /\ t.mode[f] = "free"
      BY <1>5, <1>10, <2>2
    <3>2. Holders(t, f) = {}
      BY <1>3, <1>10, <2>2
    <3>3. QED
      BY <1>6, <3>1, <3>2 DEF ConsistentAt
  <2>3. QED
    BY <2>1, <2>2
<1>11. CASE f \notin {0, 1, 2}
  <2>1. ~(f < 2) /\ f # 0 /\ f # 1 /\ f # 2
    BY <1>11 DEF Files
  <2>2. t.refs[f] = 0 /\ t.mode[f] = "free"
    BY <1>5, <2>1
  <2>3. Holders(t, f) = {}
    BY <1>4, <1>11
  <2>4. QED
    BY <1>6, <2>2, <2>3 DEF ConsistentAt
<1>12. QED
  BY <1>8, <1>9, <1>10, <1>11
----------------------------------------------------------------------------
(* The stream copies of execv. *)

\* udup changes one slot, and no mode.
LEMMA UdupFrame ==
  ASSUME NEW t \in Table, NEW i \in StdStreams
  PROVE  /\ Udup(t, i).mode = t.mode
         /\ \A d \in Fds \ {NFd + i} : Udup(t, i).fd[d] = t.fd[d]
BY StdStreamsAreFds DEF Udup, CopyFd, Table

\* udup of an open stream, or to a slot in use, keeps the tables consistent.
LEMMA UdupConsistent ==
  ASSUME NEW t \in Table, NEW i \in StdStreams, Consistent(t),
         t.fd[NFd + i] = Free => t.fd[i] # Free
  PROVE  Consistent(Udup(t, i))
BY CopyConsistent, StdStreamsAreFds DEF Udup, Consistent

\* So does copying three streams that are each open or not needed.
LEMMA UdupStdConsistent ==
  ASSUME NEW t \in Table, Consistent(t), ~UdupDrifts(t)
  PROVE  Consistent(UdupStd(t))
<1> DEFINE t0 == Udup(t, 0)
           t1 == Udup(t0, 1)
<1>1. /\ 0 \in StdStreams /\ 1 \in StdStreams /\ 2 \in StdStreams
      /\ \A i \in StdStreams, j \in StdStreams :
           /\ j # NFd + i
           /\ i # j => NFd + j # NFd + i
  BY DEF StdStreams
<1>2. \A i \in StdStreams : t.fd[NFd + i] = Free => t.fd[i] # Free
  BY DEF UdupDrifts
<1>3. t0 \in Table /\ Consistent(t0)
  BY <1>1, <1>2, UdupType, UdupConsistent
<1>4. \A i \in {1, 2} : t0.fd[NFd + i] = t.fd[NFd + i] /\ t0.fd[i] = t.fd[i]
  BY <1>1, UdupFrame, StdStreamsAreFds
<1> HIDE DEF t0
<1>5. t1 \in Table /\ Consistent(t1)
  BY <1>1, <1>2, <1>3, <1>4, UdupType, UdupConsistent
<1>6. t1.fd[NFd + 2] = t.fd[NFd + 2] /\ t1.fd[2] = t.fd[2]
  BY <1>1, <1>3, <1>4, UdupFrame, StdStreamsAreFds
<1> HIDE DEF t1
<1>7. Consistent(Udup(t1, 2))
  BY <1>1, <1>2, <1>5, <1>6, UdupConsistent
<1>8. QED
  BY <1>7 DEF UdupStd, t0, t1

\* Entry 0 is free; only its count may be wrong.
SpareEntry0(t) ==
  /\ t.mode[0] = "free"
  /\ Holders(t, 0) = {}
  /\ \A g \in Files \ {0} : ConsistentAt(t, g)

\* While entry 0 is free, udup disturbs no other entry.
LEMMA UdupSpare ==
  ASSUME NEW t \in Table, NEW i \in StdStreams, SpareEntry0(t)
  PROVE  SpareEntry0(Udup(t, i))
<1>1. i \in Fds /\ NFd + i \in Fds
  BY StdStreamsAreFds
<1>2. CASE t.fd[NFd + i] # Free
  BY <1>2 DEF Udup
<1>3. CASE t.fd[NFd + i] = Free
  <2> DEFINE u == CopyFd(t, NFd + i, i)
  <2>1. \A g \in Files \ {0} : ConsistentAt(u, g)
    BY <1>1, <1>3, CopyConsistent, CopyClosed DEF SpareEntry0
  <2>2. t.fd[i] # 0 /\ \A d \in Fds : t.fd[d] # 0
    BY <1>1 DEF SpareEntry0, Holders
  <2>3. Holders(u, 0) = {} /\ u.mode = t.mode
    BY <1>1, <2>2 DEF Holders, CopyFd, Table
  <2>4. QED
    BY <1>3, <2>1, <2>3 DEF SpareEntry0, Udup
<1>4. QED
  BY <1>2, <1>3

\* Copies of closed streams leave a wrong count on entry 0; if it is free, the load
\* that follows claims it and clears it, and the tables are consistent again.
LEMMA LoadAfterUdup ==
  ASSUME NEW t \in Table, NEW kind \in Kinds, Consistent(t),
         CanClaim(UdupStd(t), KernelFds),
         UdupDrifts(t) => t.mode[0] = "free"
  PROVE  Consistent(OpenAndClose(UdupStd(t), kind))
<1> DEFINE u == UdupStd(t)
<1>1. u \in Table
  BY UdupStdType
<1>2. CASE ~UdupDrifts(t)
  <2>1. Consistent(u)
    BY <1>2, UdupStdConsistent
  <2> HIDE DEF u
  <2>2. Consistent(OpenAndClose(u, kind))
    BY <1>1, <2>1, FreeEntryUnheld, OpenAndCloseConsistent DEF u
  <2>3. QED
    BY <2>2 DEF u
<1>3. CASE UdupDrifts(t)
  <2>1. SpareEntry0(t)
    BY <1>3 DEF SpareEntry0, Consistent, ConsistentAt, Files
  <2>2. SpareEntry0(u)
    <3>1. 0 \in StdStreams /\ 1 \in StdStreams /\ 2 \in StdStreams
      BY DEF StdStreams
    <3>2. Udup(t, 0) \in Table /\ SpareEntry0(Udup(t, 0))
      BY <2>1, <3>1, UdupType, UdupSpare
    <3>3. Udup(Udup(t, 0), 1) \in Table /\ SpareEntry0(Udup(Udup(t, 0), 1))
      BY <3>1, <3>2, UdupType, UdupSpare
    <3>4. QED
      BY <3>1, <3>3, UdupSpare DEF UdupStd
  <2>3. CanClaim(u, KernelFds)
    OBVIOUS
  <2> HIDE DEF u
  <2>4. Lowest(FreeFiles(u)) = 0
    <3>1. 0 \in FreeFiles(u) /\ FreeFiles(u) \in SUBSET Nat
      BY <2>2 DEF FreeFiles, SpareEntry0, Files
    <3>2. Lowest(FreeFiles(u)) \in Nat /\ Lowest(FreeFiles(u)) <= 0
      BY <3>1, LowestIn
    <3>3. QED
      BY <3>2
  <2>5. Consistent(OpenAndClose(u, kind))
    BY <1>1, <2>2, <2>3, <2>4, OpenAndCloseConsistent DEF SpareEntry0
  <2>6. QED
    BY <2>5 DEF u
<1>4. QED
  BY <1>2, <1>3
----------------------------------------------------------------------------
(* One lemma per action: IInv is kept. *)

\* The invariant holds after the first cold start,
LEMMA InitIInv == Init => IInv
<1> SUFFICES ASSUME Init PROVE IInv
  OBVIOUS
<1>1. PICK mounted \in BOOLEAN :
        /\ tab = BootTable(mounted)
        /\ mounts = Booted(mounted).mounts
        /\ proc = "shell" /\ clean = TRUE
  BY BootType DEF Init
<1>2. QED
  BY <1>1, BootType, BootConsistent DEF IInv, TypeOK

\* and after every other one.
LEMMA ColdStartIInv == ColdStart => IInv'
<1> SUFFICES ASSUME ColdStart PROVE IInv'
  OBVIOUS
<1>1. PICK mounted \in BOOLEAN :
        /\ tab' = BootTable(mounted)
        /\ mounts' = Booted(mounted).mounts
        /\ proc' = "shell" /\ clean' = TRUE
  BY BootType DEF ColdStart
<1>2. Consistent(tab')
  BY <1>1, BootConsistent
<1>3. QED
  BY <1>1, <1>2, BootType DEF IInv, TypeOK

\* The common shape of the calls that claim, and of those that copy.
LEMMA ClaimIInv ==
  ASSUME IInv, NEW half \in {KernelFds, UserFds}, CanClaim(tab, half), NEW kind \in Kinds,
         tab' = Claim(tab, half, kind), mounts' \subseteq 0 .. Byte - 1,
         proc' = proc, clean' = clean
  PROVE  IInv'
<1>1. tab \in Table
  BY DEF IInv, TypeOK
<1>2. Claim(tab, half, kind) \in Table
  BY <1>1, ClaimType
<1>3. ASSUME clean PROVE Consistent(Claim(tab, half, kind))
  <2>1. Consistent(tab)
    BY <1>3 DEF IInv
  <2>2. QED
    BY <1>1, <2>1, FreeEntryUnheld, ClaimConsistent
<1>4. QED
  BY <1>2, <1>3 DEF IInv, TypeOK

\* Calls that open, use and close a kernel descriptor keep the invariant.
LEMMA BorrowIInv ==
  ASSUME IInv, CanClaim(tab, KernelFds), NEW kind \in Kinds,
         tab' = OpenAndClose(tab, kind), UNCHANGED <<mounts, proc, clean>>
  PROVE  IInv'
<1>1. tab \in Table
  BY DEF IInv, TypeOK
<1>2. OpenAndClose(tab, kind) \in Table
  BY <1>1, OpenAndCloseEffect
<1>3. ASSUME clean PROVE Consistent(OpenAndClose(tab, kind))
  <2>1. Consistent(tab)
    BY <1>3 DEF IInv
  <2>2. QED
    BY <1>1, <2>1, FreeEntryUnheld, OpenAndCloseConsistent
<1>4. QED
  BY <1>2, <1>3 DEF IInv, TypeOK

\* close keeps the invariant.
LEMMA UCloseIInv ==
  ASSUME IInv, NEW a \in UserArgs, UClose(a)
  PROVE  IInv'
<1>1. tab \in Table /\ tab' = CloseFd(tab, UserFd(a)) /\ UNCHANGED <<mounts, proc, clean>>
  BY DEF UClose, IInv, TypeOK
<1>2. tab' \in Table
  BY <1>1, CloseType
<1>3. clean => Consistent(tab')
  BY <1>1, CloseConsistent DEF IInv
<1>4. QED
  BY <1>1, <1>2, <1>3 DEF IInv, TypeOK

\* dup to the first free descriptor keeps it, or drifts.
LEMMA UDupFirstIInv ==
  ASSUME IInv, NEW old \in UserArgs, UDupFirst(old)
  PROVE  IInv'
<1> DEFINE new == Lowest(FreeFds(tab, UserFds))
<1>1. tab \in Table
  BY DEF IInv, TypeOK
<1>2. new \in Fds /\ tab.fd[new] = Free /\ old \in Fds
  <2>1. FreeFds(tab, UserFds) \in SUBSET Nat /\ FreeFds(tab, UserFds) # {}
    BY HalvesAreFds DEF FreeFds, UDupFirst
  <2>2. new \in FreeFds(tab, UserFds)
    BY <2>1, LowestIn
  <2>3. QED
    BY <2>2, HalvesAreFds DEF FreeFds, UDupFirst
<1>3. /\ tab' = CopyFd(tab, new, old)
      /\ clean' = (clean /\ ~DupDrifts(tab, new, old))
      /\ UNCHANGED <<mounts, proc>>
  BY DEF UDupFirst
<1> HIDE DEF new
<1>4. tab' \in Table
  BY <1>1, <1>2, <1>3, CopyType
<1>5. ASSUME clean' PROVE Consistent(tab')
  <2>1. Consistent(tab) /\ tab.fd[old] # Free
    BY <1>3, <1>5 DEF IInv, DupDrifts
  <2>2. \A g \in Files : ConsistentAt(CopyFd(tab, new, old), g)
    BY <1>1, <1>2, <2>1, CopyConsistent DEF Consistent
  <2>3. QED
    BY <1>3, <2>2 DEF Consistent
<1>6. clean' \in BOOLEAN
  BY <1>3 DEF IInv, TypeOK
<1>7. QED
  BY <1>3, <1>4, <1>5, <1>6 DEF IInv, TypeOK

\* dup to a given descriptor keeps it, or drifts.
LEMMA UDupToIInv ==
  ASSUME IInv, NEW new \in NewArgs \ {Free}, NEW old \in UserArgs, UDupTo(new, old)
  PROVE  IInv'
<1> DEFINE t == BeforeCopy(tab, new)
<1>1. tab \in Table /\ new \in Fds
  BY DEF IInv, TypeOK, UDupTo
<1>2. t \in Table
  BY <1>1, CloseType DEF BeforeCopy
<1>3. Consistent(tab) => Consistent(t)
  BY <1>1, CloseConsistent DEF BeforeCopy
<1>4. /\ IF old \in Fds
         THEN /\ tab' = CopyFd(t, new, old)
              /\ clean' = (clean /\ ~DupDrifts(t, new, old))
         ELSE tab' = t /\ UNCHANGED clean
      /\ UNCHANGED <<mounts, proc>>
  BY DEF UDupTo
<1> HIDE DEF t
<1>5. CASE old \in Fds
  <2>1. tab' = CopyFd(t, new, old) /\ clean' = (clean /\ ~DupDrifts(t, new, old))
    BY <1>4, <1>5
  <2>2. tab' \in Table
    BY <1>1, <1>2, <1>5, <2>1, CopyType
  <2>3. ASSUME clean' PROVE Consistent(tab')
    <3>1. Consistent(t) /\ t.fd[new] = Free /\ t.fd[old] # Free
      BY <1>3, <2>1, <2>3 DEF IInv, DupDrifts
    <3>2. \A g \in Files : ConsistentAt(CopyFd(t, new, old), g)
      BY <1>1, <1>2, <1>5, <3>1, CopyConsistent DEF Consistent
    <3>3. QED
      BY <2>1, <3>2 DEF Consistent
  <2>4. clean' \in BOOLEAN
    BY <2>1 DEF IInv, TypeOK
  <2>5. QED
    BY <1>4, <2>2, <2>3, <2>4 DEF IInv, TypeOK
<1>6. CASE old \notin Fds
  BY <1>2, <1>3, <1>4, <1>6 DEF IInv, TypeOK
<1>7. QED
  BY <1>5, <1>6

\* A successful unlink drifts, but leaves tables of the right types.
LEMMA UnlinkRemovesIInv ==
  ASSUME IInv, UnlinkRemoves
  PROVE  IInv'
<1> DEFINE f == Lowest(FreeFiles(tab))
           u == Claim(tab, KernelFds, "REG")
<1>1. tab \in Table /\ CanClaim(tab, KernelFds)
  BY DEF IInv, TypeOK, UnlinkRemoves
<1>2. f \in Files /\ u \in Table
  BY <1>1, ClaimedPlaces, ClaimType DEF Kinds
<1>3. tab' = [u EXCEPT !.mode[f] = "free", !.refs[f] = 0]
  BY DEF UnlinkRemoves
<1> HIDE DEF f, u
<1>4. 0 \in 0 .. Byte - 1
  OBVIOUS
<1>5. tab' \in Table
  BY <1>2, <1>3, <1>4 DEF Table
<1>6. QED
  BY <1>5 DEF UnlinkRemoves, IInv, TypeOK

\* execv keeps the invariant or drifts, whether or not it loads the program.
LEMMA ExecvIInv ==
  ASSUME IInv, NEW kind \in Kinds, NEW loads \in BOOLEAN, Execv(kind, loads)
  PROVE  IInv'
<1> DEFINE t == UdupStd(tab)
<1>1. tab \in Table /\ t \in Table
  BY UdupStdType DEF IInv, TypeOK
<1>2. /\ IF loads
         THEN /\ CanClaim(t, KernelFds)
              /\ tab' = OpenAndClose(t, kind)
              /\ proc' = IF proc = "shell" THEN "program" ELSE "nested"
         ELSE tab' = t /\ UNCHANGED proc
      /\ clean' = (clean /\ (UdupDrifts(tab) => loads /\ tab.mode[0] = "free"))
      /\ mounts' = mounts
  BY DEF Execv
<1>3. tab' \in Table
  BY <1>1, <1>2, OpenAndCloseEffect
<1>4. ASSUME clean' PROVE Consistent(tab')
  <2>1. Consistent(tab) /\ (UdupDrifts(tab) => loads /\ tab.mode[0] = "free")
    BY <1>2, <1>4 DEF IInv
  <2>2. CASE loads
    BY <1>1, <1>2, <2>1, <2>2, LoadAfterUdup
  <2>3. CASE ~loads
    BY <1>1, <1>2, <2>1, <2>3, UdupStdConsistent
  <2>4. QED
    BY <2>2, <2>3
<1>5. proc' \in {"shell", "program", "nested", "wild"} /\ clean' \in BOOLEAN
  BY <1>2 DEF IInv, TypeOK
<1>6. QED
  BY <1>2, <1>3, <1>4, <1>5 DEF IInv, TypeOK

\* The invariant is inductive.
LEMMA NextIInv == IInv /\ [Next]_vars => IInv'
<1> SUFFICES ASSUME IInv, [Next]_vars PROVE IInv'
  OBVIOUS
<1>1. CASE ColdStart
  BY <1>1, ColdStartIInv
<1>2. ASSUME NEW kind \in FileKinds, UOpen(kind) PROVE IInv'
  BY <1>2, ClaimIInv DEF UOpen, IInv, TypeOK
<1>3. ASSUME NEW a \in UserArgs, UClose(a) PROVE IInv'
  BY <1>3, UCloseIInv
<1>4. ASSUME NEW old \in UserArgs, UDupFirst(old) PROVE IInv'
  BY <1>4, UDupFirstIInv
<1>5. ASSUME NEW new \in NewArgs \ {Free}, NEW old \in UserArgs, UDupTo(new, old) PROVE IInv'
  BY <1>5, UDupToIInv
<1>6. ASSUME NEW kind \in FileKinds, UnlinkFails(kind) PROVE IInv'
  BY <1>6, ClaimIInv DEF UnlinkFails, IInv, TypeOK
<1>7. CASE UnlinkRemoves
  BY <1>7, UnlinkRemovesIInv
<1>8. CASE UnlinkDevice
  BY <1>8, ColdStartIInv DEF UnlinkDevice
<1>9. ASSUME NEW kind \in FileKinds, Stat(kind) PROVE IInv'
  BY <1>9, BorrowIInv DEF Stat
<1>10. CASE Chdir
  BY <1>10, BorrowIInv, "DIR" \in Kinds DEF Chdir, Kinds
<1>11. ASSUME NEW kind \in FileKinds, NEW accepted \in BOOLEAN, UMount(kind, accepted) PROVE IInv'
  <2>1. mounts' \subseteq 0 .. Byte - 1
    <3>1. CanClaim(tab, KernelFds) /\ tab \in Table /\ mounts \subseteq 0 .. Byte - 1
      BY <1>11 DEF UMount, IInv, TypeOK
    <3>2. Lowest(FreeFds(tab, KernelFds)) \in Fds
      BY <3>1, ClaimedPlaces
    <3>3. Fds \subseteq 0 .. Byte - 1
      BY DEF Fds
    <3>4. QED
      BY <1>11, <3>1, <3>2, <3>3 DEF UMount
  <2>2. QED
    BY <1>11, <2>1, ClaimIInv DEF UMount
<1>12. ASSUME NEW kind \in FileKinds, ShellMount(kind) PROVE IInv'
  <2>1. mounts' \subseteq 0 .. Byte - 1
    BY <1>12 DEF ShellMount, IInv, TypeOK
  <2>2. QED
    BY <1>12, <2>1, ClaimIInv DEF ShellMount
<1>13. ASSUME NEW kind \in FileKinds, NEW loads \in BOOLEAN, Execv(kind, loads) PROVE IInv'
  BY <1>13, ExecvIInv
<1>14. CASE Exit
  BY <1>14 DEF Exit, IInv, TypeOK
<1>15. CASE UNCHANGED vars
  BY <1>15 DEF vars, IInv, TypeOK
<1>16. QED
  BY <1>1, <1>2, <1>3, <1>4, <1>5, <1>6, <1>7, <1>8, <1>9, <1>10, <1>11, <1>12,
     <1>13, <1>14, <1>15 DEF Next
----------------------------------------------------------------------------
(* The kernel half under programs that name descriptors of their own half. *)

OwnArgs == UserArgs \subseteq 0 .. NFd - 1 /\ NewArgs = {Free}

\* The open kernel descriptors of t name in u what they named in t.
KernelKept(t, u) == \A d \in KernelFds : Valid(t, d) => u.fd[d] = t.fd[d]

\* Open only takes free slots, so that it keeps the kernel half.
LEMMA ClaimKeeps ==
  ASSUME NEW t \in Table, NEW half \in {KernelFds, UserFds}, CanClaim(t, half), NEW kind \in Kinds
  PROVE  KernelKept(t, Claim(t, half, kind))
BY ClaimedPlaces, HalvesAreFds DEF KernelKept, Claim, Valid, Table

\* Closing or overwriting a user slot keeps the kernel half.
LEMMA UserSlotKeeps ==
  ASSUME NEW t \in Table, NEW d \in UserFds, NEW old \in Fds
  PROVE  /\ KernelKept(t, CloseFd(t, d))
         /\ KernelKept(t, CopyFd(t, d, old))
<1>1. d \notin KernelFds /\ KernelFds \subseteq Fds
  BY HalvesAreFds DEF UserFds, KernelFds
<1>2. KernelKept(t, CloseFd(t, d))
  BY <1>1 DEF KernelKept, CloseFd, Valid, Table
<1>3. KernelKept(t, CopyFd(t, d, old))
  BY <1>1 DEF KernelKept, CopyFd, Valid, Table
<1>4. QED
  BY <1>2, <1>3

\* So does copying the streams to the user half.
LEMMA UdupStdKeeps ==
  ASSUME NEW t \in Table
  PROVE  \A d \in KernelFds : UdupStd(t).fd[d] = t.fd[d]
<1>1. /\ 0 \in StdStreams /\ 1 \in StdStreams /\ 2 \in StdStreams
      /\ \A i \in StdStreams : KernelFds \subseteq Fds \ {NFd + i}
  BY DEF StdStreams, KernelFds, Fds
<1>2. Udup(t, 0) \in Table /\ Udup(Udup(t, 0), 1) \in Table
  BY <1>1, UdupType
<1>3. QED
  BY <1>1, <1>2, UdupFrame DEF UdupStd

\* Every call of programs with own arguments keeps the kernel half.
LEMMA StepKeeps ==
  ASSUME OwnArgs, TypeOK, [Next]_vars, ~ColdStart
  PROVE  KernelKept(tab, tab')
<1>1. tab \in Table
  BY DEF TypeOK
<1>2. \A kind \in FileKinds : kind \in Kinds
  OBVIOUS
<1>3. ~ColdStart
  OBVIOUS
<1>4. ASSUME NEW kind \in FileKinds, UOpen(kind) PROVE KernelKept(tab, tab')
  BY <1>1, <1>2, <1>4, ClaimKeeps DEF UOpen
<1>5. ASSUME NEW a \in UserArgs, UClose(a) PROVE KernelKept(tab, tab')
  <2>1. UserFd(a) \in UserFds
    BY DEF OwnArgs, UserFd, UserFds
  <2>2. 0 \in Fds
    BY DEF Fds
  <2>3. QED
    BY <1>1, <1>5, <2>1, <2>2, UserSlotKeeps DEF UClose
<1>6. ASSUME NEW old \in UserArgs, UDupFirst(old) PROVE KernelKept(tab, tab')
  <2>1. FreeFds(tab, UserFds) \in SUBSET Nat /\ FreeFds(tab, UserFds) # {}
    BY <1>6, HalvesAreFds DEF FreeFds, UDupFirst
  <2>2. Lowest(FreeFds(tab, UserFds)) \in UserFds
    BY <2>1, LowestIn DEF FreeFds
  <2>3. QED
    BY <1>1, <1>6, <2>2, UserSlotKeeps DEF UDupFirst
<1>7. NewArgs \ {Free} = {}
  BY DEF OwnArgs
<1>8. ASSUME NEW kind \in FileKinds, UnlinkFails(kind) PROVE KernelKept(tab, tab')
  BY <1>1, <1>2, <1>8, ClaimKeeps DEF UnlinkFails
<1>9. CASE UnlinkRemoves
  <2>1. CanClaim(tab, KernelFds) /\ "REG" \in Kinds
    BY <1>9 DEF UnlinkRemoves, Kinds
  <2>2. KernelKept(tab, Claim(tab, KernelFds, "REG"))
    BY <1>1, <2>1, ClaimKeeps
  <2>3. tab'.fd = Claim(tab, KernelFds, "REG").fd
    BY <1>1, <1>9, <2>1, ClaimType DEF UnlinkRemoves, Table
  <2>4. QED
    BY <2>2, <2>3 DEF KernelKept
<1>10. ~UnlinkDevice
  BY <1>3 DEF UnlinkDevice
<1>11. ASSUME NEW kind \in Kinds, CanClaim(tab, KernelFds), tab' = OpenAndClose(tab, kind)
       PROVE KernelKept(tab, tab')
  BY <1>1, <1>11, OpenAndCloseEffect DEF KernelKept
<1>12. ASSUME NEW kind \in FileKinds, Stat(kind) PROVE KernelKept(tab, tab')
  BY <1>2, <1>11, <1>12 DEF Stat
<1>13. CASE Chdir
  BY <1>11, <1>13, "DIR" \in Kinds DEF Chdir, Kinds
<1>14. ASSUME NEW kind \in FileKinds, NEW accepted \in BOOLEAN, UMount(kind, accepted)
       PROVE KernelKept(tab, tab')
  BY <1>1, <1>2, <1>14, ClaimKeeps DEF UMount
<1>15. ASSUME NEW kind \in FileKinds, ShellMount(kind) PROVE KernelKept(tab, tab')
  BY <1>1, <1>2, <1>15, ClaimKeeps DEF ShellMount
<1>16. ASSUME NEW kind \in FileKinds, NEW loads \in BOOLEAN, Execv(kind, loads)
       PROVE KernelKept(tab, tab')
  <2>1. UdupStd(tab) \in Table /\ \A d \in KernelFds : UdupStd(tab).fd[d] = tab.fd[d]
    BY <1>1, UdupStdType, UdupStdKeeps
  <2>2. tab'.fd = UdupStd(tab).fd
    BY <1>2, <1>16, <2>1, OpenAndCloseEffect DEF Execv
  <2>3. QED
    BY <2>1, <2>2 DEF KernelKept
<1>17. CASE UNCHANGED tab
  BY <1>17 DEF KernelKept
<1>18. QED
  BY <1>3, <1>4, <1>5, <1>6, <1>7, <1>8, <1>9, <1>10, <1>12, <1>13, <1>14, <1>15,
     <1>16, <1>17 DEF Next, Exit, vars

\* Every drive's descriptor is a kernel descriptor that is open.
DrivesOpen == mounts \subseteq KernelFds /\ \A d \in mounts : Valid(tab, d)

\* After a cold start the drives' descriptors are open kernel descriptors.
LEMMA BootDrivesOpen ==
  ASSUME NEW mounted \in BOOLEAN
  PROVE  /\ Booted(mounted).mounts \subseteq KernelFds
         /\ \A d \in Booted(mounted).mounts : Valid(BootTable(mounted), d)
BY BootType DEF Booted, BootTable, KernelFds, Fds, Valid, Free

\* They stay so through every call.
LEMMA StepDrivesOpen ==
  ASSUME OwnArgs, ~DriverIsFs, TypeOK, DrivesOpen, [Next]_vars
  PROVE  DrivesOpen'
<1>1. CASE ColdStart
  <2>1. PICK mounted \in BOOLEAN :
          tab' = BootTable(mounted) /\ mounts' = Booted(mounted).mounts
    BY <1>1, BootType DEF ColdStart
  <2>2. QED
    BY <2>1, BootDrivesOpen DEF DrivesOpen
<1>2. CASE ~ColdStart
  <2>1. KernelKept(tab, tab') /\ tab \in Table
    BY <1>2, StepKeeps DEF TypeOK
  <2>2. \A d \in mounts : Valid(tab', d)
    BY <2>1, HalvesAreFds DEF DrivesOpen, KernelKept, Valid
  <2>3. ASSUME NEW kind \in FileKinds, NEW accepted \in BOOLEAN, UMount(kind, accepted)
        PROVE  DrivesOpen'
    <3> DEFINE d == Lowest(FreeFds(tab, KernelFds))
    <3>1. CanClaim(tab, KernelFds) /\ tab' = Claim(tab, KernelFds, kind)
      BY <2>3 DEF UMount
    <3>2. d \in KernelFds /\ d \in Fds /\ Lowest(FreeFiles(tab)) \in Files
      BY <2>1, <3>1, ClaimedPlaces
    <3>3. tab'.fd[d] = Lowest(FreeFiles(tab))
      BY <2>1, <3>1, <3>2 DEF Claim, Table
    <3>4. Valid(tab', d)
      BY <3>2, <3>3 DEF Valid, Files, Free
    <3>5. mounts' \subseteq mounts \cup {d}
      BY <2>3 DEF UMount
    <3>6. QED
      BY <2>2, <3>2, <3>4, <3>5 DEF DrivesOpen
  <2>4. CASE UNCHANGED mounts
    BY <2>2, <2>4 DEF DrivesOpen
  <2>5. ASSUME NEW kind \in FileKinds, ShellMount(kind) PROVE UNCHANGED mounts
    BY <2>5 DEF ShellMount
  <2>6. QED
    BY <1>2, <2>3, <2>4, <2>5 DEF Next, vars, UOpen, UClose, UDupFirst, UDupTo, UnlinkFails,
       UnlinkRemoves, UnlinkDevice, Stat, Chdir, Execv, Exit
<1>3. QED
  BY <1>1, <1>2
----------------------------------------------------------------------------
(* The theorems. *)

\* The invariant holds in every reachable state.
LEMMA Invariance == Spec => []IInv
<1>1. Init => IInv
  BY InitIInv
<1>2. IInv /\ [Next]_vars => IInv'
  BY NextIInv
<1>3. QED
  BY <1>1, <1>2, PTL DEF Spec

\* Whatever the programs call and with whatever numbers, no slot of the
\* descriptor tables ever holds an index outside the file table, and no field
\* of either table leaves its range (open, close, dup, udup and unlink of
\* vfs.org, with their 8-bit arithmetic).
THEOREM TypeCorrect == Spec => []TypeOK
<1>1. IInv => TypeOK
  BY DEF IInv
<1>2. QED
  BY <1>1, Invariance, PTL

\* ft_refCount is the number of descriptors of the file in every state the
\* system reaches before its first drifting call, for tables of any size.
THEOREM CountsExact == Spec => []RefCountExact
<1>1. IInv => RefCountExact
  BY DEF IInv, RefCountExact, Consistent, ConsistentAt
<1>2. QED
  BY <1>1, Invariance, PTL

\* Up to then entries are in use exactly while a descriptor holds them, so
\* open never hands out an entry that is held (vfs.org open, close).
THEOREM NoDanglingNoLeak == Spec => []LiveIffHeld
<1>1. IInv => LiveIffHeld
  BY DEF IInv, LiveIffHeld, Consistent, ConsistentAt
<1>2. QED
  BY <1>1, Invariance, PTL

\* A program that passes descriptors of its own half, and lets dup choose the
\* new one, never closes or redirects a kernel descriptor: for tables and bytes
\* of every size, drifted or not, and in every nesting of programs.
THEOREM KernelHalfSafe == ASSUME OwnArgs PROVE Spec => KernelHalfStays
<1>1. ColdStart => IsBooted(tab')
  BY BootType DEF ColdStart, IsBooted
<1>2. TypeOK /\ [Next]_vars =>
        [~IsBooted(tab') => \A d \in KernelFds : Valid(tab, d) => tab'.fd[d] = tab.fd[d]]_vars
  BY <1>1, OwnArgs, StepKeeps DEF KernelKept
<1>3. QED
  BY <1>2, TypeCorrect, PTL DEF Spec, KernelHalfStays

\* Under the same programs, and mounts that only mount(2) makes, the descriptor
\* a drive keeps of its device stays open until the drives are set up anew.
THEOREM MountedDevicesOpen ==
  ASSUME OwnArgs, ~DriverIsFs
  PROVE  Spec => []DevfdsOpen
<1>1. Init => DrivesOpen
  BY BootType, BootDrivesOpen DEF Init, DrivesOpen
<1>2. TypeOK /\ DrivesOpen /\ [Next]_vars => DrivesOpen'
  BY OwnArgs, ~DriverIsFs, StepDrivesOpen
<1>3. IInv /\ DrivesOpen => DevfdsOpen
  <2>1. SUFFICES ASSUME IInv, DrivesOpen, clean, NEW d \in mounts
                 PROVE  Valid(tab, d) /\ tab.mode[tab.fd[d]] # "free"
    BY DEF DevfdsOpen
  <2>2. Valid(tab, d) /\ Consistent(tab) /\ tab \in Table
    BY <2>1 DEF DrivesOpen, IInv, TypeOK
  <2>3. d \in Fds /\ tab.fd[d] \in Files /\ d \in Holders(tab, tab.fd[d])
    BY <2>2 DEF Valid, Table, Holders
  <2>4. QED
    BY <2>2, <2>3 DEF Consistent, ConsistentAt
<1>4. QED
  BY <1>1, <1>2, <1>3, Invariance, TypeCorrect, PTL DEF Spec
----------------------------------------------------------------------------
(* Open files: no call gives an entry in use another kind. *)

\* An entry in use in t is the same open file in u, or has been closed.
ModesKept(t, u) == \A f \in Files : t.mode[f] # "free" => u.mode[f] \in {t.mode[f], "free"}

\* Open takes a free entry.
LEMMA ClaimKeepsModes ==
  ASSUME NEW t \in Table, NEW half \in {KernelFds, UserFds}, CanClaim(t, half), NEW kind \in Kinds
  PROVE  ModesKept(t, Claim(t, half, kind))
BY ClaimedPlaces DEF ModesKept, Claim, Table

\* Close clears the mode or leaves it.
LEMMA CloseKeepsModes ==
  ASSUME NEW t \in Table, NEW d
  PROVE  ModesKept(t, CloseFd(t, d))
<1>1. CASE ~Valid(t, d)
  BY <1>1 DEF CloseFd, ModesKept
<1>2. CASE Valid(t, d)
  <2>1. t.fd[d] \in Files
    BY <1>2 DEF Valid, Table
  <2>2. CloseFd(t, d).mode = t.mode \/ CloseFd(t, d).mode = [t.mode EXCEPT ![t.fd[d]] = "free"]
    BY <1>2 DEF CloseFd
  <2>3. QED
    BY <2>1, <2>2 DEF ModesKept, Table
<1>3. QED
  BY <1>1, <1>2

\* The copies of dup and udup change no mode.
LEMMA CopyModes ==
  ASSUME NEW t \in Table, NEW new \in Fds, NEW old \in Fds
  PROVE  CopyFd(t, new, old).mode = t.mode
BY DEF CopyFd, Table

LEMMA UdupStdModes ==
  ASSUME NEW t \in Table
  PROVE  UdupStd(t).mode = t.mode
<1>1. 0 \in StdStreams /\ 1 \in StdStreams /\ 2 \in StdStreams
  BY DEF StdStreams
<1>2. Udup(t, 0) \in Table /\ Udup(Udup(t, 0), 1) \in Table
  BY <1>1, UdupType
<1>3. QED
  BY <1>1, <1>2, UdupFrame DEF UdupStd

\* Every call but a cold start.
LEMMA StepKeepsModes ==
  ASSUME TypeOK, [Next]_vars, ~ColdStart
  PROVE  ModesKept(tab, tab')
<1>1. tab \in Table /\ \A kind \in FileKinds : kind \in Kinds
  BY DEF TypeOK
<1>2. CASE tab'.mode = tab.mode
  BY <1>2 DEF ModesKept
<1>3. ASSUME NEW half \in {KernelFds, UserFds}, NEW kind \in Kinds, CanClaim(tab, half),
             tab' = Claim(tab, half, kind)
      PROVE  ModesKept(tab, tab')
  BY <1>1, <1>3, ClaimKeepsModes
<1>4. ASSUME NEW kind \in FileKinds,
             UOpen(kind) \/ UnlinkFails(kind) \/ ShellMount(kind) \/ (\E accepted \in BOOLEAN : UMount(kind, accepted))
      PROVE  ModesKept(tab, tab')
  BY <1>1, <1>3, <1>4 DEF UOpen, UnlinkFails, ShellMount, UMount
<1>5. ASSUME NEW a \in UserArgs, UClose(a) PROVE ModesKept(tab, tab')
  BY <1>1, <1>5, CloseKeepsModes DEF UClose
<1>6. ASSUME NEW old \in UserArgs, UDupFirst(old) PROVE ModesKept(tab, tab')
  <2> DEFINE new == Lowest(FreeFds(tab, UserFds))
  <2>1. FreeFds(tab, UserFds) \in SUBSET Nat /\ FreeFds(tab, UserFds) # {}
    BY <1>6, HalvesAreFds DEF FreeFds, UDupFirst
  <2>2. new \in Fds
    BY <2>1, LowestIn, HalvesAreFds DEF FreeFds
  <2>3. old \in Fds /\ tab' = CopyFd(tab, new, old)
    BY <1>6 DEF UDupFirst
  <2> HIDE DEF new
  <2>4. QED
    BY <1>1, <1>2, <2>2, <2>3, CopyModes
<1>7. ASSUME NEW new \in NewArgs \ {Free}, NEW old \in UserArgs, UDupTo(new, old) PROVE ModesKept(tab, tab')
  <2> DEFINE t == BeforeCopy(tab, new)
  <2>1. t \in Table /\ ModesKept(tab, t)
    BY <1>1, CloseType, CloseKeepsModes DEF BeforeCopy, ModesKept
  <2>2. new \in Fds /\ (tab' = t \/ (old \in Fds /\ tab' = CopyFd(t, new, old)))
    BY <1>7 DEF UDupTo
  <2> HIDE DEF t
  <2>3. tab'.mode = t.mode
    BY <2>1, <2>2, CopyModes
  <2>4. QED
    BY <2>1, <2>3 DEF ModesKept
<1>8. CASE UnlinkRemoves
  <2> DEFINE u == Claim(tab, KernelFds, "REG")
             f == Lowest(FreeFiles(tab))
  <2>1. CanClaim(tab, KernelFds) /\ tab' = [u EXCEPT !.mode[f] = "free", !.refs[f] = 0] /\ "REG" \in Kinds
    BY <1>8 DEF UnlinkRemoves, Kinds
  <2>2. u \in Table /\ ModesKept(tab, u) /\ f \in Files
    BY <1>1, <2>1, ClaimType, ClaimKeepsModes, ClaimedPlaces
  <2> HIDE DEF u, f
  <2>3. \A g \in Files : tab'.mode[g] \in {u.mode[g], "free"}
    BY <2>1, <2>2 DEF Table
  <2>4. QED
    BY <2>2, <2>3 DEF ModesKept
<1>9. ASSUME NEW kind \in Kinds, CanClaim(tab, KernelFds), tab' = OpenAndClose(tab, kind)
      PROVE  ModesKept(tab, tab')
  BY <1>1, <1>2, <1>9, OpenAndCloseEffect
<1>10. (\E kind \in FileKinds : Stat(kind)) \/ Chdir => ModesKept(tab, tab')
  BY <1>1, <1>9 DEF Stat, Chdir, Kinds
<1>11. ASSUME NEW kind \in FileKinds, NEW loads \in BOOLEAN, Execv(kind, loads)
       PROVE  ModesKept(tab, tab')
  <2>1. UdupStd(tab) \in Table /\ UdupStd(tab).mode = tab.mode
    BY <1>1, UdupStdType, UdupStdModes
  <2>2. tab'.mode = UdupStd(tab).mode
    BY <1>1, <1>11, <2>1, OpenAndCloseEffect DEF Execv
  <2>3. QED
    BY <1>2, <2>1, <2>2
<1>12. ~UnlinkDevice
  BY DEF UnlinkDevice
<1>13. QED
  BY <1>2, <1>4, <1>5, <1>6, <1>7, <1>8, <1>10, <1>11, <1>12 DEF Next, Exit, vars

\* A descriptor that a call leaves in place goes on naming the same open file
\* (open, close, dup, udup and unlink of vfs.org), up to the first drifting call
\* and for tables of every size: its entry stays in use, and what is in use is
\* given no other kind.
THEOREM OpenFilesStay == Spec => OpenFileStable
<1>1. ASSUME IInv, IInv', [Next]_vars, clean, clean', ~IsBooted(tab'),
             NEW d \in Fds, Valid(tab, d), tab'.fd[d] = tab.fd[d]
      PROVE  tab'.mode[tab.fd[d]] = tab.mode[tab.fd[d]]
  <2> DEFINE f == tab.fd[d]
  <2>1. tab \in Table /\ tab' \in Table /\ Consistent(tab) /\ Consistent(tab')
    BY <1>1 DEF IInv, TypeOK
  <2>2. f \in Files /\ d \in Holders(tab, f) /\ d \in Holders(tab', f)
    BY <1>1, <2>1 DEF Valid, Table, Holders
  <2>3. tab.mode[f] # "free" /\ tab'.mode[f] # "free"
    BY <2>1, <2>2 DEF Consistent, ConsistentAt
  <2>4. ~ColdStart
    BY <1>1, BootType DEF ColdStart, IsBooted
  <2>5. QED
    BY <1>1, <2>2, <2>3, <2>4, StepKeepsModes DEF ModesKept, IInv
<1>2. IInv /\ [Next]_vars =>
        [clean /\ clean' /\ ~IsBooted(tab') =>
           \A d \in Fds : Valid(tab, d) /\ tab'.fd[d] = tab.fd[d]
                           => tab'.mode[tab.fd[d]] = tab.mode[tab.fd[d]]]_vars
  BY <1>1, NextIInv
<1>3. QED
  BY <1>2, Invariance, PTL DEF Spec, OpenFileStable
----------------------------------------------------------------------------
(* The drifting branches. *)

\* Some count or mode of t does not agree with the descriptors.
Broken(t) == \E f \in Files :
  \/ t.refs[f] # Cardinality(Holders(t, f))
  \/ (t.mode[f] = "free") # (Holders(t, f) = {})

\* A byte that counts up never comes back to the number of descriptors in the
\* next few steps, nor to one less.
LEMMA CountsMove ==
  ASSUME NEW n \in 0 .. 2 * NFd, NEW k \in 1 .. 3
  PROVE  (n + k) % Byte # n /\ ((n + 1) % Byte) # n - 1
<1>1. CASE n + k < Byte
  <2>1. (n + k) % Byte = n + k /\ (n + 1) % Byte = n + 1
    BY <1>1
  <2>2. QED
    BY <2>1
<1>2. CASE n + k >= Byte
  <2>1. (n + k) % Byte = n + k - Byte /\ n + k - Byte < n
    BY <1>2
  <2>2. (n + 1) % Byte = IF n + 1 < Byte THEN n + 1 ELSE n + 1 - Byte
    BY <1>2
  <2>3. QED
    BY <2>1, <2>2
<1>3. QED
  BY <1>1, <1>2

\* dup over an open descriptor, or of a closed one: a count goes up and no
\* descriptor is added, or a descriptor goes and no count comes down.
LEMMA DupBreaks ==
  ASSUME NEW t \in Table, Consistent(t), NEW new \in Fds, NEW old \in Fds, DupDrifts(t, new, old)
  PROVE  Broken(CopyFd(t, new, old))
<1> DEFINE u == CopyFd(t, new, old)
           f == EntryOf(t.fd[old])
           g == t.fd[new]
<1>1. f \in Files /\ (t.fd[old] \in Files => f = t.fd[old]) /\ t.fd[old] \in Files \cup {Free}
  BY EntryOfType DEF EntryOf, Table
<1>2. u.fd = [t.fd EXCEPT ![new] = t.fd[old]] /\ u.refs = [t.refs EXCEPT ![f] = (@ + 1) % Byte]
  BY DEF CopyFd
<1>3. \A h \in Files : t.refs[h] = Cardinality(Holders(t, h)) /\ Cardinality(Holders(t, h)) \in 0 .. 2 * NFd
  BY HoldersBounded DEF Consistent, ConsistentAt
<1>4. u.refs[f] = (t.refs[f] + 1) % Byte /\ \A h \in Files \ {f} : u.refs[h] = t.refs[h]
  BY <1>1, <1>2 DEF Table
<1> HIDE DEF u, f
<1>5. CASE g = t.fd[old]
  <2>1. u.fd = t.fd
    BY <1>2, <1>5 DEF Table
  <2>2. Holders(u, f) = Holders(t, f)
    BY <2>1 DEF Holders
  <2>3. u.refs[f] # Cardinality(Holders(u, f))
    BY <1>1, <1>3, <1>4, <2>2, CountsMove
  <2>4. QED
    BY <1>1, <2>3 DEF Broken, u
<1>6. CASE g # t.fd[old]
  <2>1. g \in Files /\ new \in Holders(t, g)
    BY <1>6 DEF DupDrifts, Table, Holders
  <2>2. Holders(u, g) = Holders(t, g) \ {new}
    BY <1>2, <1>6 DEF Holders, Table
  <2>3. Cardinality(Holders(u, g)) = Cardinality(Holders(t, g)) - 1
    <3>1. IsFiniteSet(Holders(t, g))
      BY <2>1, HoldersBounded
    <3>2. Cardinality(Holders(t, g) \ {new}) = Cardinality(Holders(t, g)) - 1
      BY <2>1, <3>1, FS_RemoveElement
    <3>3. QED
      BY <2>2, <3>2
  <2>4. u.refs[g] = t.refs[g] \/ u.refs[g] = (t.refs[g] + 1) % Byte
    BY <1>4, <2>1
  <2>5. t.refs[g] = Cardinality(Holders(t, g)) /\ Cardinality(Holders(t, g)) \in 0 .. 2 * NFd
    BY <1>3, <2>1
  <2>6. (t.refs[g] + 1) % Byte # t.refs[g] - 1
    BY <2>5, CountsMove
  <2>7. u.refs[g] # Cardinality(Holders(u, g))
    BY <2>3, <2>4, <2>5, <2>6
  <2>8. QED
    BY <2>1, <2>7 DEF Broken, u
<1>7. QED
  BY <1>5, <1>6

\* The removed file's entry is free while the descriptor goes on naming it.
LEMMA UnlinkBreaks ==
  ASSUME tab \in Table, UnlinkRemoves
  PROVE  Broken(tab')
<1> DEFINE d == Lowest(FreeFds(tab, KernelFds))
           f == Lowest(FreeFiles(tab))
           u == Claim(tab, KernelFds, "REG")
<1>1. CanClaim(tab, KernelFds) /\ tab' = [u EXCEPT !.mode[f] = "free", !.refs[f] = 0]
  BY DEF UnlinkRemoves
<1>2. d \in Fds /\ f \in Files /\ u \in Table
  BY <1>1, ClaimedPlaces, ClaimType DEF Kinds
<1>3. u.fd[d] = f
  BY <1>2 DEF Claim, Table
<1> HIDE DEF u, d, f
<1>4. tab'.fd[d] = f /\ tab'.mode[f] = "free"
  BY <1>1, <1>2, <1>3 DEF Table
<1>5. d \in Holders(tab', f)
  BY <1>2, <1>4 DEF Holders
<1>6. QED
  BY <1>2, <1>4, <1>5 DEF Broken

\* udup of a closed stream counts entry 0 up, any other leaves it or keeps count
\* and descriptors of it together.
Ahead(t, k) == t.refs[0] = (Cardinality(Holders(t, 0)) + k) % Byte

LEMMA UdupAhead ==
  ASSUME NEW t \in Table, NEW i \in StdStreams, NEW k \in 0 .. 2, Ahead(t, k)
  PROVE  IF t.fd[NFd + i] = Free /\ t.fd[i] = Free THEN Ahead(Udup(t, i), k + 1) ELSE Ahead(Udup(t, i), k)
<1> DEFINE new == NFd + i
           u == CopyFd(t, new, i)
           n == Cardinality(Holders(t, 0))
<1>1. i \in Fds /\ new \in Fds /\ 0 \in Files /\ Free \notin Files
  BY StdStreamsAreFds DEF Files, Free
<1>2. IsFiniteSet(Holders(t, 0)) /\ n \in Nat /\ n + k \in Nat
  BY <1>1, HoldersBounded
<1>3. u.fd = [t.fd EXCEPT ![new] = t.fd[i]] /\ u.refs = [t.refs EXCEPT ![EntryOf(t.fd[i])] = (@ + 1) % Byte]
  BY DEF CopyFd
<1>4. ((((n + k) % Byte) + 1) % Byte) = ((n + k + 1) % Byte)
  <2> DEFINE m == n + k
  <2>1. m \in Nat /\ m = Byte * (m \div Byte) + (m % Byte)
    BY <1>2
  <2>2. QED
    BY <1>2
<1> HIDE DEF u, new, n
<1>5. CASE t.fd[new] # Free
  BY <1>5 DEF Udup, new
<1>6. CASE t.fd[new] = Free
  <2>1. Udup(t, i) = u
    BY <1>6 DEF Udup, new, u
  <2>2. CASE t.fd[i] = Free
    <3>1. EntryOf(t.fd[i]) = 0
      BY <1>1, <2>2 DEF EntryOf
    <3>2. u.fd = t.fd /\ u.refs[0] = (t.refs[0] + 1) % Byte
      BY <1>1, <1>3, <1>6, <2>2, <3>1 DEF Table
    <3>3. Holders(u, 0) = Holders(t, 0)
      BY <3>2 DEF Holders
    <3>4. Ahead(u, k + 1)
      BY <1>2, <1>4, <3>2, <3>3 DEF Ahead, n
    <3>5. QED
      BY <1>6, <2>1, <2>2, <3>4 DEF new
  <2>3. CASE t.fd[i] = 0
    <3>1. EntryOf(t.fd[i]) = 0
      BY <1>1, <2>3 DEF EntryOf
    <3>2. u.refs[0] = (t.refs[0] + 1) % Byte
      BY <1>1, <1>3, <3>1 DEF Table
    <3>3. Holders(u, 0) = Holders(t, 0) \cup {new} /\ new \notin Holders(t, 0)
      BY <1>1, <1>3, <1>6, <2>3 DEF Holders, Table
    <3>4. Cardinality(Holders(u, 0)) = n + 1
      BY <1>2, <3>3, FS_AddElement DEF n
    <3>5. Ahead(u, k)
      BY <1>2, <1>4, <3>2, <3>4 DEF Ahead, n
    <3>6. QED
      BY <1>1, <2>1, <2>3, <3>5
  <2>4. CASE t.fd[i] # Free /\ t.fd[i] # 0
    <3>1. EntryOf(t.fd[i]) # 0
      BY <1>1, <2>4 DEF EntryOf, Table
    <3>2. u.refs[0] = t.refs[0]
      BY <1>1, <1>3, <3>1 DEF Table
    <3>3. Holders(u, 0) = Holders(t, 0)
      BY <1>1, <1>3, <1>6, <2>4 DEF Holders, Table
    <3>4. QED
      BY <2>1, <2>4, <3>2, <3>3 DEF Ahead
  <2>5. QED
    BY <2>2, <2>3, <2>4
<1>7. QED
  BY <1>5, <1>6

\* execv with closed streams leaves entry 0 counted one to three times too
\* often, unless its load borrows that entry.
LEMMA UdupStdBreaks ==
  ASSUME NEW t \in Table, Consistent(t), UdupDrifts(t)
  PROVE  \E k \in 1 .. 3 : Ahead(UdupStd(t), k)
<1> DEFINE t0 == Udup(t, 0)
           t1 == Udup(t0, 1)
<1>1. /\ 0 \in StdStreams /\ 1 \in StdStreams /\ 2 \in StdStreams
      /\ \A i \in StdStreams, j \in StdStreams :
           /\ j # NFd + i
           /\ i # j => NFd + j # NFd + i
      /\ \A i \in StdStreams : i \in {0, 1, 2}
  BY DEF StdStreams
<1>2. Ahead(t, 0)
  <2>1. 0 \in Files
    BY DEF Files
  <2>2. t.refs[0] = Cardinality(Holders(t, 0)) /\ t.refs[0] \in 0 .. Byte - 1
    BY <2>1 DEF Consistent, ConsistentAt, Table
  <2>3. QED
    BY <2>2 DEF Ahead
<1>3. t0 \in Table /\ \A i \in {1, 2} : t0.fd[NFd + i] = t.fd[NFd + i] /\ t0.fd[i] = t.fd[i]
  BY <1>1, UdupType, UdupFrame, StdStreamsAreFds
<1>4. PICK k0 \in 0 .. 1 : Ahead(t0, k0) /\ (t.fd[NFd + 0] = Free /\ t.fd[0] = Free => k0 = 1)
  BY <1>1, <1>2, UdupAhead
<1> HIDE DEF t0
<1>5. t1 \in Table /\ t1.fd[NFd + 2] = t.fd[NFd + 2] /\ t1.fd[2] = t.fd[2]
  BY <1>1, <1>3, UdupType, UdupFrame, StdStreamsAreFds
<1>6. PICK k1 \in 0 .. 2 : Ahead(t1, k1) /\ k0 <= k1 /\ (t.fd[NFd + 1] = Free /\ t.fd[1] = Free => k1 >= 1)
  BY <1>1, <1>3, <1>4, UdupAhead
<1> HIDE DEF t1
<1>7. PICK k2 \in 0 .. 3 : Ahead(Udup(t1, 2), k2) /\ k1 <= k2 /\ (t.fd[NFd + 2] = Free /\ t.fd[2] = Free => k2 >= 1)
  BY <1>1, <1>5, <1>6, UdupAhead
<1>8. k2 >= 1
  BY <1>1, <1>4, <1>6, <1>7 DEF UdupDrifts
<1>9. QED
  BY <1>7, <1>8 DEF UdupStd, t0, t1

\* A count of entry 0 that is ahead does not agree with its descriptors.
LEMMA AheadBreaks ==
  ASSUME NEW t \in Table, NEW k \in 1 .. 3, Ahead(t, k)
  PROVE  Broken(t)
<1>1. 0 \in Files
  BY DEF Files
<1>2. Cardinality(Holders(t, 0)) \in 0 .. 2 * NFd
  BY <1>1, HoldersBounded
<1>3. t.refs[0] # Cardinality(Holders(t, 0))
  BY <1>2, CountsMove DEF Ahead
<1>4. QED
  BY <1>1, <1>3 DEF Broken

LEMMA ExecvBreaks ==
  ASSUME tab \in Table, Consistent(tab), clean, ~clean',
         NEW kind \in Kinds, NEW loads \in BOOLEAN, Execv(kind, loads)
  PROVE  Broken(tab')
<1> DEFINE t == UdupStd(tab)
<1>1. UdupDrifts(tab) /\ ~(loads /\ tab.mode[0] = "free")
  BY DEF Execv
<1>2. t \in Table /\ t.mode = tab.mode
  BY UdupStdType, UdupStdModes
<1>3. PICK k \in 1 .. 3 : Ahead(t, k)
  BY <1>1, UdupStdBreaks
<1> HIDE DEF t
<1>4. CASE ~loads
  BY <1>2, <1>3, <1>4, AheadBreaks DEF Execv, t
<1>5. CASE loads
  <2>1. CanClaim(t, KernelFds) /\ tab' = OpenAndClose(t, kind) /\ tab.mode[0] # "free"
    BY <1>1, <1>5 DEF Execv, t
  <2>2. /\ tab' \in Table /\ tab'.fd = t.fd
        /\ tab'.refs = [t.refs EXCEPT ![Lowest(FreeFiles(t))] = 0]
    BY <1>2, <2>1, OpenAndCloseEffect
  <2>3. Lowest(FreeFiles(t)) # 0
    BY <1>2, <2>1, ClaimedPlaces
  <2>4. tab'.refs[0] = t.refs[0] /\ Holders(tab', 0) = Holders(t, 0)
    BY <1>2, <2>2, <2>3 DEF Table, Files, Holders
  <2>5. QED
    BY <1>3, <2>2, <2>4, AheadBreaks DEF Ahead
<1>6. QED
  BY <1>4, <1>5

\* Every call that ends the history does leave tables in which a count or a mode
\* disagrees with the descriptors (dup, udup and unlink of vfs.org): the
\* invariants above are claimed exactly as long as they can be.
THEOREM DriftsBreak == Spec => DriftBreaks
<1>1. ASSUME IInv, [Next]_vars, clean, ~clean'
      PROVE  Broken(tab')
  <2>1. tab \in Table /\ Consistent(tab) /\ \A kind \in FileKinds : kind \in Kinds
    BY <1>1 DEF IInv, TypeOK
  <2>2. ASSUME NEW old \in UserArgs, UDupFirst(old) PROVE Broken(tab')
    <3> DEFINE new == Lowest(FreeFds(tab, UserFds))
    <3>1. FreeFds(tab, UserFds) \in SUBSET Nat /\ FreeFds(tab, UserFds) # {}
      BY <2>2, HalvesAreFds DEF FreeFds, UDupFirst
    <3>2. new \in Fds
      BY <3>1, LowestIn, HalvesAreFds DEF FreeFds
    <3>3. old \in Fds /\ tab' = CopyFd(tab, new, old) /\ DupDrifts(tab, new, old)
      BY <1>1, <2>2 DEF UDupFirst
    <3> HIDE DEF new
    <3>4. QED
      BY <2>1, <3>2, <3>3, DupBreaks
  <2>3. ASSUME NEW new \in NewArgs \ {Free}, NEW old \in UserArgs, UDupTo(new, old) PROVE Broken(tab')
    <3> DEFINE t == BeforeCopy(tab, new)
    <3>1. t \in Table /\ Consistent(t)
      BY <2>1, CloseType, CloseConsistent DEF BeforeCopy
    <3>2. new \in Fds /\ old \in Fds /\ tab' = CopyFd(t, new, old) /\ DupDrifts(t, new, old)
      BY <1>1, <2>3 DEF UDupTo
    <3> HIDE DEF t
    <3>3. QED
      BY <3>1, <3>2, DupBreaks
  <2>4. CASE UnlinkRemoves
    BY <2>1, <2>4, UnlinkBreaks
  <2>5. ASSUME NEW kind \in FileKinds, NEW loads \in BOOLEAN, Execv(kind, loads) PROVE Broken(tab')
    BY <1>1, <2>1, <2>5, ExecvBreaks
  <2>6. ~(ColdStart \/ UnlinkDevice \/ UNCHANGED clean)
    BY <1>1 DEF ColdStart, UnlinkDevice
  <2>7. QED
    BY <1>1, <2>2, <2>3, <2>4, <2>5, <2>6 DEF Next, vars, UOpen, UClose, UnlinkFails, Stat, Chdir, UMount,
       ShellMount, Exit
<1>2. IInv /\ [Next]_vars =>
        [clean /\ ~clean' => \E f \in Files :
           \/ tab'.refs[f] # Cardinality(Holders(tab', f))
           \/ (tab'.mode[f] = "free") # (Holders(tab', f) = {})]_vars
  BY <1>1 DEF Broken
<1>3. QED
  BY <1>2, Invariance, PTL DEF Spec, DriftBreaks
----------------------------------------------------------------------------
(* The abstract descriptor layer. *)

Live(t) == {f \in Files : t.mode[f] # "free"}

\* In consistent tables what lives is what is named.
LEMMA LiveIsNamed ==
  ASSUME NEW t \in Table, Consistent(t)
  PROVE  Live(t) = {t.fd[d] : d \in Fds} \ {Free}
<1>1. \A f \in Files : f # Free
  BY DEF Files, Free
<1>2. \A f \in Files : t.mode[f] # "free" <=> \E d \in Fds : t.fd[d] = f
  BY DEF Consistent, ConsistentAt, Holders
<1>3. \A d \in Fds : t.fd[d] \in Files \cup {Free}
  BY DEF Table
<1>4. QED
  BY <1>1, <1>2, <1>3 DEF Live

\* A cold start restarts the layer.
LEMMA ColdStartRestarts ==
  ASSUME ColdStart
  PROVE  Abs!Restart
<1>1. PICK mounted \in BOOLEAN : tab' = BootTable(mounted)
  BY BootType DEF ColdStart
<1>2. tab' \in Table /\ Consistent(tab')
  BY <1>1, BootType, BootConsistent
<1>3. Live(tab') = {tab'.fd[d] : d \in Fds} \ {Free}
  BY <1>2, LiveIsNamed
<1>4. QED
  BY <1>1, <1>3 DEF Abs!Restart, Abs!Named, Live

\* Every open acquires.
LEMMA ClaimAcquires ==
  ASSUME tab \in Table, NEW half \in {KernelFds, UserFds}, CanClaim(tab, half), NEW kind \in Kinds,
         tab' = Claim(tab, half, kind)
  PROVE  \E d \in Fds, f \in Files : Abs!Acquire(d, f)
<1>1. PICK d \in Fds, f \in Files :
        /\ tab.fd[d] = Free /\ tab.mode[f] = "free"
        /\ tab'.fd = [tab.fd EXCEPT ![d] = f] /\ tab'.mode = [tab.mode EXCEPT ![f] = kind]
  BY ClaimedPlaces DEF Claim
<1>2. kind # "free"
  BY DEF Kinds
<1>3. Live(tab') = Live(tab) \cup {f}
  BY <1>1, <1>2 DEF Live, Table
<1>4. Abs!Acquire(d, f)
  BY <1>1, <1>3 DEF Abs!Acquire, Live
<1> WITNESS d \in Fds, f \in Files
<1>5. QED
  BY <1>4

\* Every close releases, or closes nothing.
LEMMA CloseReleases ==
  ASSUME tab \in Table, Consistent(tab), NEW d, tab' = CloseFd(tab, d)
  PROVE  tab' = tab \/ (d \in Fds /\ Abs!Release(d))
<1>1. CASE ~Valid(tab, d)
  BY <1>1 DEF CloseFd
<1>2. CASE Valid(tab, d)
  <2>1. tab' \in Table /\ Consistent(tab')
    BY CloseType, CloseConsistent
  <2>2. Live(tab') = {tab'.fd[e] : e \in Fds} \ {Free}
    BY <2>1, LiveIsNamed
  <2>3. d \in Fds /\ tab.fd[d] # Free /\ tab'.fd = [tab.fd EXCEPT ![d] = Free]
    BY <1>2 DEF Valid, CloseFd
  <2>4. QED
    BY <2>2, <2>3 DEF Abs!Release, Abs!Named, Live
<1>3. QED
  BY <1>1, <1>2

\* Copies to slots that are free are shares.
LEMMA CopiesShare ==
  ASSUME tab \in Table, tab' \in Table, Consistent(tab), Consistent(tab'), tab'.mode = tab.mode,
         \A d \in Fds : tab'.fd[d] # tab.fd[d] => tab.fd[d] = Free
  PROVE  Abs!Share
<1>1. tab'.fd \in [Fds -> Files \cup {Free}]
  BY DEF Table
<1>2. ASSUME NEW d \in Fds, tab'.fd[d] # tab.fd[d]
      PROVE  tab.fd[d] = Free /\ tab'.fd[d] \in Live(tab)
  <2>1. tab'.fd[d] \in Files /\ d \in Holders(tab', tab'.fd[d])
    BY <1>1, <1>2 DEF Holders
  <2>2. tab'.mode[tab'.fd[d]] # "free"
    BY <2>1 DEF Consistent, ConsistentAt
  <2>3. QED
    BY <1>2, <2>1, <2>2 DEF Live
<1>3. QED
  BY <1>1, <1>2 DEF Abs!Share, Live

\* dup to a descriptor that is open goes well only if the descriptor that is
\* closed first, by the number of the entry, happens to be the same one.
LEMMA UDupToRedirects ==
  ASSUME tab \in Table, tab' \in Table, Consistent(tab), Consistent(tab'), clean',
         NEW new \in NewArgs \ {Free}, NEW old \in UserArgs, UDupTo(new, old)
  PROVE  Abs!Next \/ tab' = tab
<1> DEFINE t == BeforeCopy(tab, new)
           g == tab.fd[new]
<1>1. new \in Fds /\ t \in Table
  BY CloseType DEF UDupTo, BeforeCopy
<1>2. CASE old \notin Fds
  <2>1. tab' = t
    BY <1>2 DEF UDupTo
  <2>2. tab' = tab \/ tab' = CloseFd(tab, g)
    BY <2>1 DEF BeforeCopy
  <2>3. QED
    BY <2>2, CloseReleases DEF Abs!Next
<1>3. CASE old \in Fds
  <2>1. tab' = CopyFd(t, new, old) /\ t.fd[new] = Free /\ t.fd[old] # Free
    BY <1>3 DEF UDupTo, DupDrifts
  <2>2. tab'.fd = [t.fd EXCEPT ![new] = t.fd[old]]
    BY <2>1 DEF CopyFd
  <2>3. CASE g = Free
    <3>1. t = tab
      BY <2>3 DEF BeforeCopy
    <3>2. tab'.mode = tab.mode
      BY <1>1, <1>3, <2>1, <3>1, CopyModes
    <3>3. \A d \in Fds : tab'.fd[d] # tab.fd[d] => tab.fd[d] = Free
      BY <1>1, <2>2, <2>3, <3>1 DEF Table
    <3>4. QED
      BY <3>2, <3>3, CopiesShare DEF Abs!Next
  <2>4. CASE g # Free
    <3>1. t = CloseFd(tab, g)
      BY <2>4 DEF BeforeCopy
    <3> HIDE DEF t
    <3>2. Valid(tab, g)
      <4>1. ~Valid(tab, g) => t = tab
        BY <3>1 DEF CloseFd
      <4>2. QED
        BY <2>1, <2>4, <4>1
    <3>3. t.fd = [tab.fd EXCEPT ![g] = Free]
      BY <3>1, <3>2 DEF CloseFd
    <3>4. g = new
      BY <1>1, <2>1, <2>4, <3>3 DEF Table, Valid
    <3>5. old # new /\ t.fd[old] = tab.fd[old]
      BY <1>3, <2>1, <3>3, <3>4 DEF Table, Valid
    <3>6. tab'.fd = [tab.fd EXCEPT ![new] = tab.fd[old]]
      BY <1>1, <2>2, <3>3, <3>4, <3>5 DEF Table
    <3>7. Live(tab') = {tab'.fd[e] : e \in Fds} \ {Free}
      BY LiveIsNamed
    <3>8. Abs!Redirect(new, old)
      BY <2>1, <2>4, <3>5, <3>6, <3>7 DEF Abs!Redirect, Abs!Named, Live
    <3>9. QED
      BY <1>1, <1>3, <3>8 DEF Abs!Next
  <2>5. QED
    BY <2>3, <2>4
<1>4. QED
  BY <1>2, <1>3

\* udup names files only with slots that were free.
LEMMA UdupStdFree ==
  ASSUME NEW t \in Table
  PROVE  \A d \in Fds : UdupStd(t).fd[d] # t.fd[d] => t.fd[d] = Free
<1>1. ASSUME NEW u \in Table, NEW i \in StdStreams
      PROVE  \A d \in Fds : Udup(u, i).fd[d] # u.fd[d] => u.fd[d] = Free
  BY <1>1, StdStreamsAreFds, UdupFrame DEF Udup
<1>2. 0 \in StdStreams /\ 1 \in StdStreams /\ 2 \in StdStreams
  BY DEF StdStreams
<1>3. Udup(t, 0) \in Table /\ Udup(Udup(t, 0), 1) \in Table
  BY <1>2, UdupType
<1>4. /\ \A d \in Fds : Udup(t, 0).fd[d] # t.fd[d] => t.fd[d] = Free
      /\ \A d \in Fds : Udup(Udup(t, 0), 1).fd[d] # Udup(t, 0).fd[d] => Udup(t, 0).fd[d] = Free
      /\ \A d \in Fds : UdupStd(t).fd[d] # Udup(Udup(t, 0), 1).fd[d] => Udup(Udup(t, 0), 1).fd[d] = Free
  BY <1>1, <1>2, <1>3 DEF UdupStd
<1>5. QED
  BY <1>4

\* Every step up to the first drifting one.
LEMMA StepImplements ==
  ASSUME IInv, IInv', [Next]_vars, clean'
  PROVE  Abs!Next \/ UNCHANGED Abs!ovars
<1>1. CASE ColdStart
  BY <1>1, ColdStartRestarts DEF Abs!Next
<1>2. CASE ~ColdStart
  <2>1. clean
    BY <1>2 DEF Next, vars, UOpen, UClose, UDupFirst, UDupTo, UnlinkFails, UnlinkRemoves, UnlinkDevice,
       Stat, Chdir, UMount, ShellMount, Execv, Exit
  <2>2. /\ tab \in Table /\ tab' \in Table /\ Consistent(tab) /\ Consistent(tab')
        /\ \A kind \in FileKinds : kind \in Kinds
    BY <2>1 DEF IInv, TypeOK
  <2>3. tab'.fd = tab.fd /\ tab'.mode = tab.mode => UNCHANGED Abs!ovars
    BY DEF Abs!ovars
  <2>4. ASSUME NEW kind \in FileKinds,
               UOpen(kind) \/ UnlinkFails(kind) \/ ShellMount(kind) \/ (\E accepted \in BOOLEAN : UMount(kind, accepted))
        PROVE  Abs!Next
    <3>1. (CanClaim(tab, UserFds) /\ tab' = Claim(tab, UserFds, kind))
          \/ (CanClaim(tab, KernelFds) /\ tab' = Claim(tab, KernelFds, kind))
      BY <2>4 DEF UOpen, UnlinkFails, ShellMount, UMount
    <3>2. \E d \in Fds, f \in Files : Abs!Acquire(d, f)
      BY <2>2, <3>1, ClaimAcquires
    <3>3. QED
      BY <3>2 DEF Abs!Next
  <2>5. ASSUME NEW a \in UserArgs, UClose(a) PROVE Abs!Next \/ tab' = tab
    BY <2>2, <2>5, CloseReleases DEF UClose, Abs!Next
  <2>6. ASSUME NEW old \in UserArgs, UDupFirst(old) PROVE Abs!Next
    <3> DEFINE new == Lowest(FreeFds(tab, UserFds))
    <3>1. FreeFds(tab, UserFds) \in SUBSET Nat /\ FreeFds(tab, UserFds) # {}
      BY <2>6, HalvesAreFds DEF FreeFds, UDupFirst
    <3>2. new \in Fds /\ tab.fd[new] = Free
      BY <3>1, LowestIn, HalvesAreFds DEF FreeFds
    <3>3. old \in Fds /\ tab' = CopyFd(tab, new, old)
      BY <2>6 DEF UDupFirst
    <3> HIDE DEF new
    <3>4. tab'.mode = tab.mode
      BY <2>2, <3>2, <3>3, CopyModes
    <3>5. \A d \in Fds : tab'.fd[d] # tab.fd[d] => tab.fd[d] = Free
      BY <2>2, <3>2, <3>3 DEF CopyFd, Table
    <3>6. QED
      BY <2>2, <3>4, <3>5, CopiesShare DEF Abs!Next
  <2>7. ASSUME NEW new \in NewArgs \ {Free}, NEW old \in UserArgs, UDupTo(new, old)
        PROVE  Abs!Next \/ tab' = tab
    BY <2>2, <2>7, UDupToRedirects
  <2>8. ~UnlinkRemoves /\ ~UnlinkDevice
    BY <1>2 DEF UnlinkRemoves, UnlinkDevice
  <2>9. (\E kind \in FileKinds : Stat(kind)) \/ Chdir => UNCHANGED Abs!ovars
    <3>1. ASSUME NEW kind \in Kinds, CanClaim(tab, KernelFds), tab' = OpenAndClose(tab, kind)
          PROVE  UNCHANGED Abs!ovars
      BY <2>2, <2>3, <3>1, OpenAndCloseEffect
    <3>2. (\E kind \in FileKinds : Stat(kind)) => UNCHANGED Abs!ovars
      BY <2>2, <3>1 DEF Stat
    <3>3. Chdir => UNCHANGED Abs!ovars
      BY <3>1 DEF Chdir, Kinds
    <3>4. QED
      BY <3>2, <3>3
  <2>10. ASSUME NEW kind \in FileKinds, NEW loads \in BOOLEAN, Execv(kind, loads)
         PROVE  Abs!Next
    <3>1. UdupStd(tab) \in Table /\ UdupStd(tab).mode = tab.mode
      BY <2>2, UdupStdType, UdupStdModes
    <3>2. tab'.mode = tab.mode /\ tab'.fd = UdupStd(tab).fd
      BY <2>2, <2>10, <3>1, OpenAndCloseEffect DEF Execv
    <3>3. QED
      BY <2>2, <3>2, UdupStdFree, CopiesShare DEF Abs!Next
  <2>11. QED
    BY <1>2, <2>3, <2>4, <2>5, <2>6, <2>7, <2>8, <2>9, <2>10 DEF Next, Exit, vars
<1>3. QED
  BY <1>1, <1>2

\* Up to the first drifting call the two tables implement OpenFiles, for tables
\* of every size: opens acquire, closes release, dup and udup share or redirect,
\* a cold start restarts, and every other call changes nothing a caller sees.
THEOREM ImplementsOpenFilesHolds == Spec => ImplementsOpenFiles
<1>1. Init => Abs!Init
  <2> SUFFICES ASSUME Init PROVE Abs!Init
    OBVIOUS
  <2>1. PICK mounted \in BOOLEAN : tab = BootTable(mounted)
    BY BootType DEF Init
  <2>2. tab \in Table /\ Consistent(tab)
    BY <2>1, BootType, BootConsistent
  <2>3. Live(tab) = {tab.fd[d] : d \in Fds} \ {Free}
    BY <2>2, LiveIsNamed
  <2>4. QED
    BY <2>1, <2>3 DEF Abs!Init, Abs!Named, Live
<1>2. IInv /\ [Next]_vars => [clean' => Abs!Next]_(Abs!ovars)
  BY NextIInv, StepImplements
<1>3. QED
  BY <1>1, <1>2, Invariance, PTL DEF Spec, ImplementsOpenFiles
=============================================================================
