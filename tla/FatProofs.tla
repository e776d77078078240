----------------------------- MODULE FatProofs -----------------------------
(***************************************************************************)
(* Proofs about Fat, for volumes of every size and any number of files and *)
(* descriptors: as long as no removal is cut short no cluster belongs to   *)
(* two files and every chain comes to its end, and a file keeps its chain  *)
(* while no stale descriptor is written through.                           *)
(*                                                                         *)
(* What these say of whole chains follows from facts about single links:   *)
(* a cluster has at most one predecessor, and the first cluster of a file  *)
(* has none.  That allocation keeps them rests on two more: what a link or *)
(* a directory entry leads to is not free, and the cluster a call holds in *)
(* its hands is one nothing leads to.                                      *)
(***************************************************************************)
EXTENDS Fat, TLAPS, FiniteSetTheorems, WellFoundedInduction

Cluster0 == Clusters \cup {0}
FatType  == [{1, 2} -> [Entries -> Values]]
DirType  == [Slots -> [live : BOOLEAN, start : Cluster0]]
OpenType == [Fds -> [up : BOOLEAN, slot : Slots, start : Cluster0]]
Pcs      == {"idle", "walk", "astray"} \cup Adding \cup Clearing
CallType == [pc : Pcs, fd : Fds, slot : Slots, cur : Cluster0, new : Cluster0,
             after : Cluster0, left : Int]

\* The steps that use a register find a cluster in it.
CallFits(c) ==
  /\ c \in CallType
  /\ c.pc \in {"walk", "link1", "link2", "clear1", "clear2"} => c.cur \in Clusters
  /\ c.pc \in {"add2", "link1", "link2", "start"} => c.new \in Clusters

Typed == fat \in FatType /\ dir \in DirType /\ open \in OpenType /\ hint \in Clusters /\ CallFits(call)

\* No cluster is followed by c in the first FAT, and no file starts with it.
NoPred(c) == \A a \in Clusters : fat[1][a] # c
NoHead(c) == \A s \in Files : dir[s].start # c

\* Links do not meet: not in a cluster, and not where a file starts.
Apart ==
  /\ \A a, b \in Clusters : fat[1][a] \in Clusters /\ fat[1][a] = fat[1][b] => a = b
  /\ \A s \in Files : dir[s].start # 0 => NoPred(dir[s].start)
  /\ \A s, t \in Files : s # t /\ dir[s].start # 0 => dir[s].start # dir[t].start

\* What a link leads to is not free; neither is where a file starts, unless its
\* removal has freed that.
Freed(s) == Removing(s) /\ ~Untouched

InUse ==
  /\ \A a \in Clusters : fat[1][a] \in Clusters => fat[1][fat[1][a]] # 0
  /\ \A s \in Files : dir[s].start # 0 /\ ~Freed(s) => fat[1][dir[s].start] # 0

\* The cluster a call has taken, and the one it is to free next, are its own.
InHand ==
  /\ call.pc \in {"add2", "link1", "start"} =>
       NoPred(call.new) /\ NoHead(call.new) /\ fat[1][call.new] # 0
  /\ call.pc \in Clearing => call.slot \in Files
  /\ call.pc = "clear2" /\ call.after # 0 => NoPred(call.after) /\ NoHead(call.after)
  /\ call.pc = "clear1" /\ ~Untouched => NoPred(call.cur) /\ NoHead(call.cur)

Linked == Apart /\ InUse /\ InHand

IInv == Typed /\ (~torn => Linked)
----------------------------------------------------------------------------
(* Types. *)

\* The lowest of a set of numbers is in it.
LEMMA LowestIn ==
  ASSUME NEW S \in SUBSET Nat, S # {}
  PROVE  Lowest(S) \in S /\ \A y \in S : Lowest(S) <= y
<1>1. PICK x \in S : \A y \in S : ~(<<y, x>> \in OpToRel(<, Nat))
  BY WFMin, NatLessThanWellFounded
<1>2. OpToRel(<, Nat) = {ss \in Nat \X Nat : ss[1] < ss[2]}
  BY Zenon DEF OpToRel
<1>3. \A y \in S : ~(y < x)
  <2>1. SUFFICES ASSUME NEW y \in S, y < x PROVE FALSE
    OBVIOUS
  <2>2. <<y, x>> \in {ss \in Nat \X Nat : ss[1] < ss[2]}
    BY <2>1
  <2>3. QED
    BY <2>2, <1>1, <1>2, Zenon
<1>4. \A y \in S : x <= y
  BY <1>3
<1>5. QED
  BY <1>4, Zenon DEF Lowest

\* What the assumption on the constants is needed for.
LEMMA Numbers ==
  /\ Clusters \subseteq Entries /\ 2 \in Clusters /\ 0 \notin Clusters /\ 0 \in Entries
  /\ Eoc \notin Entries /\ Entries \subseteq Values /\ Eoc \in Values
  /\ Entries \in SUBSET Nat /\ \A v \in Values : v \in Clusters \/ IsLast(v)
  /\ 0 \in Slots /\ 0 \in Fds
<1>1. /\ Clusters \subseteq Entries /\ 2 \in Clusters /\ 0 \notin Clusters /\ 0 \in Entries
      /\ Eoc \notin Entries
  BY VolumeFits, SMT DEF Clusters, Entries, Eoc
<1>2. Entries \subseteq Values /\ Eoc \in Values
  BY SMT DEF Values
<1>3. Entries \in SUBSET Nat /\ \A v \in Entries : v \in Clusters \/ v < 2
  BY VolumeFits, SMT DEF Entries, Clusters
<1>4. \A v \in Values : v \in Clusters \/ IsLast(v)
  BY <1>3, SMT DEF Values, IsLast
<1>5. 0 \in Slots /\ 0 \in Fds
  BY VolumeFits, SMT DEF Slots, Fds
<1>6. QED
  BY <1>1, <1>2, <1>3, <1>4, <1>5

\* One entry of one FAT is set.
LEMMA FatSet ==
  ASSUME NEW f \in FatType, NEW i \in {1, 2}, NEW c \in Entries, NEW v \in Values
  PROVE  /\ [f EXCEPT ![i][c] = v] \in FatType
         /\ \A a \in Entries : [f EXCEPT ![i][c] = v][1][a] = IF i = 1 /\ a = c THEN v ELSE f[1][a]
BY DEF FatType

\* The cluster that is allocated was free.
LEMMA Allocated ==
  ASSUME Typed, Candidates # {}
  PROVE  Lowest(Candidates) \in Clusters /\ fat[1][Lowest(Candidates)] = 0
<1>1. Candidates \in SUBSET Nat
  BY Numbers DEF Candidates
<1>2. Lowest(Candidates) \in Candidates
  BY <1>1, LowestIn
<1>3. \A c \in Candidates : c \in Clusters /\ fat[1][c] = 0
  BY SMT DEF Candidates, Entries, Clusters, Typed
<1>4. QED
  BY <1>2, <1>3

LEMMA InitTyped == Init => Typed
<1> SUFFICES ASSUME Init PROVE Typed
  OBVIOUS
<1>1. fat \in FatType
  BY Numbers DEF Init, FatType
<1>2. dir \in DirType
  BY DEF Init, DirType, Cluster0
<1>3. open \in OpenType
  BY Numbers DEF Init, OpenType, Cluster0, Closed
<1>4. CallFits(call)
  BY Numbers DEF Init, CallFits, CallType, Cluster0, Idle, Begun, Pcs
<1>5. QED
  BY <1>1, <1>2, <1>3, <1>4, Numbers DEF Init, Typed

LEMMA CreateTyped ==
  ASSUME Typed, NEW d \in Fds, NEW s \in Slots, Create(d, s)
  PROVE  Typed'
<1>1. fat \in FatType /\ dir \in DirType /\ open \in OpenType /\ hint \in Clusters /\ CallFits(call)
  BY DEF Typed
<1>2. UNCHANGED <<fat, hint, call>>
  BY DEF Create
<1>3. dir' \in DirType
  BY <1>1 DEF Create, DirType, Cluster0
<1>4. open' \in OpenType
  BY <1>1, Numbers DEF Create, OpenType, Cluster0, Closed
<1>5. QED
  BY <1>1, <1>2, <1>3, <1>4 DEF Typed

LEMMA OpenTyped ==
  ASSUME Typed, NEW d \in Fds, NEW s \in Slots, Open(d, s)
  PROVE  Typed'
<1>1. fat \in FatType /\ dir \in DirType /\ open \in OpenType /\ hint \in Clusters /\ CallFits(call)
  BY DEF Typed
<1>2. UNCHANGED <<fat, dir, hint, call>>
  BY DEF Open
<1>3. open' \in OpenType
  BY <1>1, Numbers DEF Open, OpenType, Cluster0, Closed, DirType
<1>4. QED
  BY <1>1, <1>2, <1>3 DEF Typed

LEMMA CloseTyped ==
  ASSUME Typed, NEW d \in Fds, Close(d)
  PROVE  Typed'
<1>1. fat \in FatType /\ dir \in DirType /\ open \in OpenType /\ hint \in Clusters /\ CallFits(call)
  BY DEF Typed
<1>2. UNCHANGED <<fat, dir, hint, call>>
  BY DEF Close
<1>3. open' \in OpenType
  BY <1>1, Numbers DEF Close, OpenType, Cluster0, Closed
<1>4. QED
  BY <1>1, <1>2, <1>3 DEF Typed

LEMMA WriteTyped ==
  ASSUME Typed, NEW d \in Fds, NEW links \in 0 .. MaxWalk, Write(d, links)
  PROVE  Typed'
<1>1. fat \in FatType /\ dir \in DirType /\ open \in OpenType /\ hint \in Clusters /\ CallFits(call)
  BY DEF Typed
<1>2. UNCHANGED <<fat, dir, open, hint>>
  BY DEF Write
<1>3. open[d].slot \in Slots /\ open[d].start \in Cluster0 /\ links \in Int
  BY <1>1 DEF OpenType
<1>4. call' = Begun(IF open[d].start = 0 THEN "add1" ELSE "walk", d, open[d].slot, open[d].start, links)
  BY DEF Write
<1>5. CallFits(call')
  BY <1>3, <1>4, Numbers DEF CallFits, CallType, Pcs, Adding, Clearing, Cluster0, Idle, Begun
<1>6. QED
  BY <1>1, <1>2, <1>5 DEF Typed

LEMMA WalkTyped ==
  ASSUME Typed, Walk
  PROVE  Typed'
<1>1. fat \in FatType /\ dir \in DirType /\ open \in OpenType /\ hint \in Clusters /\ CallFits(call)
  BY DEF Typed
<1>2. UNCHANGED <<fat, dir, open, hint>>
  BY DEF Walk
<1>3. call.pc = "walk" /\ call.cur \in Clusters /\ call.left - 1 \in Int
  BY <1>1 DEF Walk, CallFits, CallType
<1>4. fat[1][call.cur] \in Values
  BY <1>1, <1>3, Numbers DEF FatType
<1>5. CallFits(call')
  <2>1. CASE call' = Idle
    BY <2>1, Numbers DEF CallFits, CallType, Pcs, Adding, Clearing, Cluster0, Idle, Begun
  <2>2. CASE call' = [call EXCEPT !.pc = "add1"]
    BY <1>1, <2>2 DEF CallFits, CallType, Pcs, Adding
  <2>3. CASE ~IsLast(fat[1][call.cur]) /\ call' = [call EXCEPT !.cur = fat[1][call.cur], !.left = @ - 1]
    <3>1. fat[1][call.cur] \in Clusters
      BY <1>4, <2>3, Numbers
    <3>2. QED
      BY <1>1, <1>3, <2>3, <3>1 DEF CallFits, CallType, Cluster0
  <2>4. QED
    BY <2>1, <2>2, <2>3 DEF Walk
<1>6. QED
  BY <1>1, <1>2, <1>5 DEF Typed

LEMMA Add1Typed ==
  ASSUME Typed, Add1
  PROVE  Typed'
<1>1. fat \in FatType /\ dir \in DirType /\ open \in OpenType /\ hint \in Clusters /\ CallFits(call)
  BY DEF Typed
<1>2. UNCHANGED <<dir, open>>
  BY DEF Add1
<1>3. Lowest(Candidates) \in Clusters
  BY Allocated DEF Add1
<1>4. hint' \in Clusters
  BY <1>3 DEF Add1
<1>5. fat' \in FatType
  BY <1>1, <1>3, Numbers, FatSet DEF Add1, CallFits, CallType, Cluster0
<1>6. CallFits(call')
  BY <1>1, <1>3, Numbers DEF Add1, CallFits, CallType, Pcs, Adding, Clearing, Cluster0, Idle, Begun
<1>7. QED
  BY <1>1, <1>2, <1>4, <1>5, <1>6 DEF Typed

LEMMA AstrayTyped ==
  ASSUME Typed, Astray
  PROVE  Typed'
<1>1. fat \in FatType /\ dir \in DirType /\ open \in OpenType /\ hint \in Clusters /\ CallFits(call)
  BY DEF Typed
<1>2. UNCHANGED <<fat, dir, open, hint>>
  BY DEF Astray
<1>3. CallFits(call')
  BY <1>1, Numbers DEF Astray, CallFits, CallType, Pcs, Adding, Clearing, Cluster0, Idle, Begun
<1>4. QED
  BY <1>1, <1>2, <1>3 DEF Typed

LEMMA Add2Typed ==
  ASSUME Typed, Add2
  PROVE  Typed'
<1>1. fat \in FatType /\ dir \in DirType /\ open \in OpenType /\ hint \in Clusters /\ CallFits(call)
  BY DEF Typed
<1>2. UNCHANGED <<dir, open, hint>>
  BY DEF Add2
<1>3. fat' \in FatType
  BY <1>1, Numbers, FatSet DEF Add2, CallFits, CallType, Cluster0
<1>4. CallFits(call')
  BY <1>1, Numbers DEF Add2, CallFits, CallType, Pcs, Adding, Clearing, Cluster0, Idle, Begun
<1>5. QED
  BY <1>1, <1>2, <1>3, <1>4 DEF Typed

LEMMA Link1Typed ==
  ASSUME Typed, Link1
  PROVE  Typed'
<1>1. fat \in FatType /\ dir \in DirType /\ open \in OpenType /\ hint \in Clusters /\ CallFits(call)
  BY DEF Typed
<1>2. UNCHANGED <<dir, open, hint>>
  BY DEF Link1
<1>3. fat' \in FatType
  BY <1>1, Numbers, FatSet DEF Link1, CallFits, CallType, Cluster0
<1>4. CallFits(call')
  BY <1>1, Numbers DEF Link1, CallFits, CallType, Pcs, Adding, Clearing, Cluster0, Idle, Begun
<1>5. QED
  BY <1>1, <1>2, <1>3, <1>4 DEF Typed

LEMMA Link2Typed ==
  ASSUME Typed, Link2
  PROVE  Typed'
<1>1. fat \in FatType /\ dir \in DirType /\ open \in OpenType /\ hint \in Clusters /\ CallFits(call)
  BY DEF Typed
<1>2. UNCHANGED <<dir, open, hint>>
  BY DEF Link2
<1>3. fat' \in FatType
  BY <1>1, Numbers, FatSet DEF Link2, CallFits, CallType, Cluster0
<1>4. CallFits(call')
  <2>1. call.new \in Clusters /\ call.left - 1 \in Int
    BY <1>1 DEF Link2, CallFits, CallType
  <2>2. QED
    BY <1>1, <2>1, Numbers DEF Link2, CallFits, CallType, Pcs, Cluster0
<1>5. QED
  BY <1>1, <1>2, <1>3, <1>4 DEF Typed

LEMMA StartTyped ==
  ASSUME Typed, NEW written \in BOOLEAN, Start(written)
  PROVE  Typed'
<1>1. fat \in FatType /\ dir \in DirType /\ open \in OpenType /\ hint \in Clusters /\ CallFits(call)
  BY DEF Typed
<1>2. UNCHANGED <<fat, hint>>
  BY DEF Start
<1>3. dir' \in DirType
  BY <1>1 DEF Start, DirType, Cluster0, CallFits, CallType
<1>4. open' \in OpenType
  BY <1>1, Numbers DEF Start, OpenType, Cluster0, Closed, CallFits, CallType
<1>5. CallFits(call')
  BY <1>1, Numbers DEF Start, CallFits, CallType, Pcs, Adding, Clearing, Cluster0, Idle, Begun
<1>6. QED
  BY <1>1, <1>2, <1>3, <1>4, <1>5 DEF Typed

LEMMA UnlinkTyped ==
  ASSUME Typed, NEW s \in Slots, Unlink(s)
  PROVE  Typed'
<1>1. fat \in FatType /\ dir \in DirType /\ open \in OpenType /\ hint \in Clusters /\ CallFits(call)
  BY DEF Typed
<1>2. UNCHANGED <<fat, dir, open, hint>>
  BY DEF Unlink
<1>3. dir[s].start \in Cluster0
  BY <1>1 DEF DirType
<1>4. call' = Begun(IF dir[s].start = 0 THEN "mark" ELSE "clear1", 0, s, dir[s].start, 0)
  BY DEF Unlink
<1>5. CallFits(call')
  BY <1>3, <1>4, Numbers DEF CallFits, CallType, Pcs, Adding, Clearing, Cluster0, Idle, Begun
<1>6. QED
  BY <1>1, <1>2, <1>5 DEF Typed

LEMMA Clear1Typed ==
  ASSUME Typed, Clear1
  PROVE  Typed'
<1>1. fat \in FatType /\ dir \in DirType /\ open \in OpenType /\ hint \in Clusters /\ CallFits(call)
  BY DEF Typed
<1>2. UNCHANGED <<dir, open, hint>>
  BY DEF Clear1
<1>3. fat' \in FatType
  BY <1>1, Numbers, FatSet DEF Clear1, CallFits, CallType, Cluster0
<1>4. CallFits(call')
  BY <1>1, Numbers DEF Clear1, CallFits, CallType, Pcs, Adding, Clearing, Cluster0, Idle, Begun, FatType, IsLast
<1>5. QED
  BY <1>1, <1>2, <1>3, <1>4 DEF Typed

LEMMA Clear2Typed ==
  ASSUME Typed, Clear2
  PROVE  Typed'
<1>1. fat \in FatType /\ dir \in DirType /\ open \in OpenType /\ hint \in Clusters /\ CallFits(call)
  BY DEF Typed
<1>2. UNCHANGED <<dir, open, hint>>
  BY DEF Clear2
<1>3. fat' \in FatType
  BY <1>1, Numbers, FatSet DEF Clear2, CallFits, CallType, Cluster0
<1>4. CallFits(call')
  BY <1>1, Numbers DEF Clear2, CallFits, CallType, Pcs, Adding, Clearing, Cluster0, Idle, Begun
<1>5. QED
  BY <1>1, <1>2, <1>3, <1>4 DEF Typed

LEMMA MarkTyped ==
  ASSUME Typed, Mark
  PROVE  Typed'
<1>1. fat \in FatType /\ dir \in DirType /\ open \in OpenType /\ hint \in Clusters /\ CallFits(call)
  BY DEF Typed
<1>2. UNCHANGED <<fat, open, hint>>
  BY DEF Mark
<1>3. dir' \in DirType
  BY <1>1 DEF Mark, DirType, Cluster0, CallFits, CallType
<1>4. CallFits(call')
  BY <1>1, Numbers DEF Mark, CallFits, CallType, Pcs, Adding, Clearing, Cluster0, Idle, Begun
<1>5. QED
  BY <1>1, <1>2, <1>3, <1>4 DEF Typed

LEMMA WriteFailsTyped ==
  ASSUME Typed, WriteFails
  PROVE  Typed'
<1>1. fat \in FatType /\ dir \in DirType /\ open \in OpenType /\ hint \in Clusters /\ CallFits(call)
  BY DEF Typed
<1>2. UNCHANGED <<fat, dir, open>>
  BY DEF WriteFails
<1>3. hint' \in Clusters
  BY <1>1, Allocated DEF WriteFails
<1>4. CallFits(call')
  BY <1>1, Numbers DEF WriteFails, CallFits, CallType, Pcs, Adding, Clearing, Cluster0, Idle, Begun
<1>5. QED
  BY <1>1, <1>2, <1>3, <1>4 DEF Typed

LEMMA ResetTyped ==
  ASSUME Typed, Reset
  PROVE  Typed'
<1>1. fat \in FatType /\ dir \in DirType /\ open \in OpenType /\ hint \in Clusters /\ CallFits(call)
  BY DEF Typed
<1>2. UNCHANGED <<fat, dir>>
  BY DEF Reset
<1>3. hint' \in Clusters
  BY Numbers DEF Reset
<1>4. open' \in OpenType
  BY <1>1, Numbers DEF Reset, OpenType, Cluster0, Closed
<1>5. CallFits(call')
  BY <1>1, Numbers DEF Reset, CallFits, CallType, Pcs, Adding, Clearing, Cluster0, Idle, Begun
<1>6. QED
  BY <1>1, <1>2, <1>3, <1>4, <1>5 DEF Typed

LEMMA NextTyped ==
  ASSUME Typed, [Next]_vars
  PROVE  Typed'
<1>1. CASE UNCHANGED vars
  BY <1>1 DEF vars, Typed
<1>2. QED
  BY <1>1, CreateTyped, OpenTyped, CloseTyped, WriteTyped, WalkTyped, Add1Typed, AstrayTyped,
     Add2Typed, Link1Typed, Link2Typed, StartTyped, UnlinkTyped, Clear1Typed, Clear2Typed,
     MarkTyped, WriteFailsTyped, ResetTyped DEF Next
----------------------------------------------------------------------------
(* Links.  First the steps that change no link of the first FAT and no     *)
(* directory entry.                                                        *)

LEMMA SameForest ==
  ASSUME Linked, fat'[1] = fat[1], dir' = dir, InHand',
         \A s \in Files : dir[s].start # 0 /\ Freed(s) => Freed(s)'
  PROVE  Linked'
<1>1. Files' = Files
  BY DEF Files
<1>2. \A c : (NoPred(c) => NoPred(c)') /\ (NoHead(c) => NoHead(c)')
  BY <1>1 DEF NoPred, NoHead
<1>3. Apart'
  BY <1>1, <1>2 DEF Linked, Apart
<1>4. InUse'
  BY <1>1 DEF Linked, InUse
<1>5. QED
  BY <1>3, <1>4 DEF Linked

\* Nothing is in hand afterwards, and nothing was freed before.
LEMMA NothingInHand ==
  ASSUME Linked, fat'[1] = fat[1], dir' = dir,
         \A s \in Files : dir[s].start # 0 => ~Freed(s),
         call'.pc \notin Clearing \cup {"add2", "link1", "start"}
  PROVE  Linked'
<1>1. InHand'
  BY DEF InHand, Clearing
<1>2. QED
  BY <1>1, SameForest

LEMMA NoneFreed ==
  ASSUME call.pc \notin Clearing
  PROVE  \A s \in Files : dir[s].start # 0 => ~Freed(s)
BY DEF Freed, Removing

\* Opening, closing, following a chain, and giving up an allocation.
LEMMA QuietLinked ==
  ASSUME Linked, fat'[1] = fat[1], dir' = dir, call.pc \notin Clearing,
         call'.pc \notin Clearing \cup {"add2", "link1", "start"}
  PROVE  Linked'
BY NothingInHand, NoneFreed

LEMMA SameLinked ==
  ASSUME Linked, fat' = fat, dir' = dir, call' = call
  PROVE  Linked'
<1>1. Files' = Files /\ (Untouched' <=> Untouched) /\ \A s : Freed(s)' <=> Freed(s)
  BY DEF Files, Untouched, Freed, Removing
<1>2. \A c : (NoPred(c) => NoPred(c)') /\ (NoHead(c) => NoHead(c)')
  BY <1>1 DEF NoPred, NoHead
<1>3. InHand'
  BY <1>1, <1>2 DEF Linked, InHand
<1>4. QED
  BY <1>1, <1>3, SameForest

\* A removal that was cut short is remembered.
LEMMA CutLinked ==
  ASSUME Linked, fat' = fat, dir' = dir, call' = Idle, ~Torn
  PROVE  Linked'
<1>1. \A s \in Files : dir[s].start # 0 => ~Freed(s)
  BY DEF Torn, Freed, Removing
<1>2. call'.pc \notin Clearing \cup {"add2", "link1", "start"}
  BY DEF Idle, Begun, Clearing
<1>3. QED
  BY <1>1, <1>2, NothingInHand

LEMMA Add2Linked ==
  ASSUME Typed, Linked, Add2
  PROVE  Linked'
<1>1. /\ call.pc = "add2" /\ call.new \in Clusters /\ dir' = dir
      /\ call'.pc \in {"link1", "start"} /\ call'.new = call.new
  BY DEF Typed, CallFits, CallType, Add2
<1>2. fat'[1] = fat[1]
  BY <1>1, Numbers DEF Add2, Typed, FatType
<1>3. Files' = Files
  BY <1>1 DEF Files
<1>4. NoPred(call.new) /\ NoHead(call.new) /\ fat[1][call.new] # 0
  BY <1>1 DEF Linked, InHand
<1>5. NoPred(call.new)' /\ NoHead(call.new)' /\ fat'[1][call'.new] # 0
  BY <1>1, <1>2, <1>3, <1>4 DEF NoPred, NoHead
<1>6. InHand'
  BY <1>1, <1>5 DEF InHand, Clearing
<1>7. call.pc \notin Clearing
  BY <1>1 DEF Clearing
<1>8. QED
  BY <1>1, <1>2, <1>6, <1>7, NoneFreed, SameForest

\* The second copy is cleared; the cluster that follows was freed from its
\* predecessor just before.
LEMMA Clear2Linked ==
  ASSUME Typed, Linked, Clear2
  PROVE  Linked'
<1>1. /\ call.pc = "clear2" /\ call.cur \in Clusters /\ dir' = dir
      /\ call'.slot = call.slot /\ call.slot \in Files
      /\ \/ call.after = 0 /\ call'.pc = "mark"
         \/ call.after # 0 /\ call'.pc = "clear1" /\ call'.cur = call.after
  BY DEF Typed, CallFits, CallType, Clear2, Linked, InHand, Clearing
<1>2. fat'[1] = fat[1]
  BY <1>1, Numbers DEF Clear2, Typed, FatType
<1>3. Files' = Files
  BY <1>1 DEF Files
<1>4. call.after # 0 => NoPred(call.after) /\ NoHead(call.after)
  BY <1>1 DEF Linked, InHand
<1>5. ~Untouched'
  BY <1>1, <1>4 DEF Untouched, NoHead
<1>6. call.after # 0 => NoPred(call.cur)' /\ NoHead(call.cur)'
  BY <1>1, <1>2, <1>3, <1>4 DEF NoPred, NoHead
<1>7. InHand'
  BY <1>1, <1>3, <1>6 DEF InHand, Clearing
<1>8. \A s \in Files : Freed(s) => Freed(s)'
  BY <1>1, <1>5 DEF Freed, Removing, Clearing
<1>9. QED
  BY <1>1, <1>2, <1>7, <1>8, SameForest

LEMMA UnlinkLinked ==
  ASSUME Typed, Linked, NEW s \in Slots, Unlink(s)
  PROVE  Linked'
<1>1. /\ call.pc = "idle" /\ s \in Files /\ fat' = fat /\ dir' = dir
      /\ call'.slot = s /\ call'.pc \in {"mark", "clear1"} /\ call'.cur = dir[s].start
  BY DEF Unlink, Ready, Begun
<1>2. Files' = Files
  BY <1>1 DEF Files
<1>3. InHand'
  BY <1>1, <1>2 DEF InHand, Untouched
<1>4. call.pc \notin Clearing
  BY <1>1 DEF Clearing
<1>5. QED
  BY <1>1, <1>3, <1>4, NoneFreed, SameForest
----------------------------------------------------------------------------
(* The steps that change a link or a directory entry.                      *)

\* A new file has no cluster.
LEMMA CreateLinked ==
  ASSUME Typed, Linked, NEW d \in Fds, NEW s \in Slots, Create(d, s)
  PROVE  Linked'
<1>1. /\ call.pc = "idle" /\ fat' = fat /\ call' = call
      /\ dir' = [dir EXCEPT ![s] = [live |-> TRUE, start |-> 0]] /\ dir \in DirType
  BY DEF Create, Ready, Typed
<1>2. dir'[s].start = 0 /\ \A t \in Slots \ {s} : dir'[t] = dir[t]
  BY <1>1 DEF DirType
<1>3. \A t \in Files' : t = s \/ (t # s /\ t \in Files /\ dir'[t] = dir[t])
  BY <1>2 DEF Files
<1>4. 0 \notin Clusters
  BY Numbers
<1>5. Apart'
  <2>1. \A t \in Files' : dir'[t].start # 0 => t \in Files /\ dir'[t] = dir[t]
    BY <1>2, <1>3
  <2>2. \A t \in Files' : dir'[t].start # 0 => \A a \in Clusters : fat'[1][a] # dir'[t].start
    BY <1>1, <2>1 DEF Linked, Apart, NoPred
  <2>3. \A t, u \in Files' : t # u /\ dir'[t].start # 0 => dir'[t].start # dir'[u].start
    BY <1>2, <1>3, <2>1 DEF Linked, Apart
  <2>4. QED
    BY <1>1, <2>2, <2>3 DEF Linked, Apart, NoPred
<1>6. call.pc \notin Clearing /\ call'.pc \notin Clearing \cup {"add2", "link1", "start"}
  BY <1>1 DEF Clearing
<1>7. InUse'
  BY <1>1, <1>2, <1>3, <1>6, NoneFreed DEF Linked, InUse
<1>8. InHand'
  BY <1>6 DEF InHand, Clearing
<1>9. QED
  BY <1>5, <1>7, <1>8 DEF Linked

\* A free cluster becomes an end of chain: nothing leads to a free cluster.
LEMMA Add1Linked ==
  ASSUME Typed, Linked, Add1
  PROVE  Linked'
<1> DEFINE new == Lowest(Candidates)
<1>1. new \in Clusters /\ fat[1][new] = 0
  BY Allocated DEF Add1
<1>2. /\ call.pc = "add1" /\ fat' = [fat EXCEPT ![1][new] = Eoc] /\ dir' = dir
      /\ call'.pc = "add2" /\ call'.new = new
  BY DEF Add1, Typed, CallFits, CallType
<1> HIDE DEF new
<1>3. \A a \in Clusters : fat'[1][a] = IF a = new THEN Eoc ELSE fat[1][a]
  BY <1>1, <1>2, Numbers, FatSet DEF Typed
<1>4. Files' = Files
  BY <1>2 DEF Files
<1>5. Eoc # 0 /\ Eoc \notin Clusters /\ call.pc \notin Clearing
  BY <1>2, Numbers DEF Clearing
<1>6. NoPred(new)
  BY <1>1 DEF Linked, InUse, NoPred
<1>7. NoHead(new)
  BY <1>1, <1>5, NoneFreed, Numbers DEF Linked, InUse, NoHead
<1>8. \A c \in Clusters : NoPred(c) => NoPred(c)'
  BY <1>3, <1>5 DEF NoPred
<1>9. NoPred(call.new)' /\ NoHead(call.new)'
  BY <1>1, <1>2, <1>4, <1>6, <1>7, <1>8 DEF NoPred, NoHead
<1>10. \A s \in Files : dir[s].start \in Cluster0
  BY DEF Typed, DirType, Files
<1>11. Apart'
  <2>1. \A a, b \in Clusters : fat'[1][a] \in Clusters /\ fat'[1][a] = fat'[1][b] => a = b
    BY <1>3, <1>5 DEF Linked, Apart
  <2>2. \A s \in Files : dir[s].start # 0 => \A a \in Clusters : fat'[1][a] # dir[s].start
    BY <1>3, <1>5, <1>10 DEF Linked, Apart, NoPred, Cluster0
  <2>3. QED
    BY <1>2, <1>4, <2>1, <2>2 DEF Linked, Apart, NoPred
<1>12. InUse'
  <2>1. \A a \in Clusters : fat'[1][a] \in Clusters => fat'[1][fat'[1][a]] # 0
    BY <1>3, <1>5 DEF Linked, InUse
  <2>2. \A s \in Files : dir[s].start # 0 => fat'[1][dir[s].start] # 0
    BY <1>3, <1>5, <1>10, NoneFreed DEF Linked, InUse, Cluster0
  <2>3. QED
    BY <1>2, <1>4, <2>1, <2>2 DEF InUse
<1>13. InHand'
  BY <1>1, <1>2, <1>3, <1>5, <1>6, <1>8, <1>9 DEF InHand, Clearing
<1>14. QED
  BY <1>11, <1>12, <1>13 DEF Linked

\* The cluster in hand becomes the one that follows cur.
LEMMA Link1Linked ==
  ASSUME Typed, Linked, Link1
  PROVE  Linked'
<1>1. /\ call.pc = "link1" /\ fat' = [fat EXCEPT ![1][call.cur] = call.new] /\ dir' = dir
      /\ call.cur \in Clusters /\ call.new \in Clusters /\ call'.pc = "link2"
  BY DEF Link1, Typed, CallFits, CallType
<1>2. \A a \in Clusters : fat'[1][a] = IF a = call.cur THEN call.new ELSE fat[1][a]
  BY <1>1, Numbers, FatSet DEF Typed
<1>3. Files' = Files /\ call.pc \notin Clearing
  BY <1>1 DEF Files, Clearing
<1>4. NoPred(call.new) /\ NoHead(call.new) /\ fat[1][call.new] # 0
  BY <1>1 DEF Linked, InHand
<1>5. \A s \in Files : dir[s].start \in Cluster0
  BY DEF Typed, DirType, Files
<1>6. Apart'
  <2>1. \A a, b \in Clusters : fat'[1][a] \in Clusters /\ fat'[1][a] = fat'[1][b] => a = b
    BY <1>2, <1>4 DEF Linked, Apart, NoPred
  <2>2. \A s \in Files : dir[s].start # 0 => \A a \in Clusters : fat'[1][a] # dir[s].start
    BY <1>2, <1>4 DEF Linked, Apart, NoPred, NoHead
  <2>3. QED
    BY <1>1, <1>3, <2>1, <2>2 DEF Linked, Apart, NoPred
<1>7. InUse'
  <2>1. call.new # 0
    BY <1>1, Numbers
  <2>2. \A a \in Clusters : fat'[1][a] \in Clusters => fat'[1][fat'[1][a]] # 0
    BY <1>1, <1>2, <1>4, <2>1 DEF Linked, InUse
  <2>3. \A s \in Files : dir[s].start # 0 => fat'[1][dir[s].start] # 0
    BY <1>2, <1>3, <1>5, <2>1, NoneFreed DEF Linked, InUse, Cluster0
  <2>4. QED
    BY <1>1, <1>3, <2>2, <2>3 DEF InUse
<1>8. InHand'
  BY <1>1 DEF InHand, Clearing
<1>9. QED
  BY <1>6, <1>7, <1>8 DEF Linked

\* The cluster in hand becomes the first of a file.
LEMMA StartLinked ==
  ASSUME Typed, Linked, NEW written \in BOOLEAN, Start(written)
  PROVE  Linked'
<1>1. /\ call.pc = "start" /\ fat' = fat /\ call.new \in Clusters /\ call'.pc = "walk"
      /\ call.slot \in Slots /\ dir \in DirType
      /\ dir' = IF written THEN [dir EXCEPT ![call.slot].start = call.new] ELSE dir
  BY DEF Start, Typed, CallFits, CallType
<1>2. call.pc \notin Clearing /\ call'.pc \notin Clearing \cup {"add2", "link1", "start"}
  BY <1>1 DEF Clearing
<1>3. CASE ~written
  BY <1>1, <1>2, <1>3, QuietLinked
<1>4. CASE written
  <2>1. /\ dir'[call.slot].start = call.new
        /\ \A s \in Slots : dir'[s].live = dir[s].live
        /\ \A s \in Slots \ {call.slot} : dir'[s].start = dir[s].start
    BY <1>1, <1>4 DEF DirType
  <2>2. Files' = Files
    BY <2>1 DEF Files
  <2>3. NoPred(call.new) /\ NoHead(call.new) /\ fat[1][call.new] # 0
    BY <1>1 DEF Linked, InHand
  <2>4. \A c : NoPred(c) => NoPred(c)'
    BY <1>1 DEF NoPred
  <2>5. \A s \in Files : s \in Slots
    BY DEF Files
  <2>6. Apart'
    <3>1. \A s \in Files : dir'[s].start # 0 => NoPred(dir[s].start)'
      BY <2>1, <2>3, <2>4, <2>5 DEF Linked, Apart
    <3>2. \A s, t \in Files : s # t /\ dir'[s].start # 0 => dir'[s].start # dir'[t].start
      BY <2>1, <2>3, <2>5 DEF Linked, Apart, NoHead
    <3>3. QED
      BY <1>1, <2>2, <3>1, <3>2 DEF Linked, Apart
  <2>7. InUse'
    <3>1. \A s \in Files : dir'[s].start # 0 => fat[1][dir'[s].start] # 0
      BY <1>2, <2>1, <2>3, <2>5, NoneFreed DEF Linked, InUse
    <3>2. QED
      BY <1>1, <2>2, <3>1 DEF Linked, InUse
  <2>8. InHand'
    BY <1>2 DEF InHand, Clearing
  <2>9. QED
    BY <2>6, <2>7, <2>8 DEF Linked
<1>5. QED
  BY <1>3, <1>4

\* The first cluster of the file in removal, or the second, is freed: nothing
\* leads to it but the file that goes.
LEMMA Clear1Linked ==
  ASSUME Typed, Linked, Clear1
  PROVE  Linked'
<1> DEFINE first == call.cur = dir[call.slot].start
           v == fat[1][call.cur]
<1>1. /\ call.pc = "clear1" /\ fat' = [fat EXCEPT ![1][call.cur] = 0] /\ dir' = dir
      /\ call.cur \in Clusters /\ call'.pc = "clear2" /\ call'.slot = call.slot
      /\ call'.after = IF first /\ ~IsLast(v) THEN v ELSE 0
      /\ call.slot \in Files
  BY DEF Clear1, Typed, CallFits, CallType, Linked, InHand, Clearing
<1>2. v \in Values
  BY <1>1, Numbers DEF Typed, FatType
<1>3. call'.after # 0 => first /\ v \in Clusters /\ call'.after = v
  BY <1>1, <1>2, Numbers
<1>4. \A a \in Clusters : fat'[1][a] = IF a = call.cur THEN 0 ELSE fat[1][a]
  BY <1>1, Numbers, FatSet DEF Typed
<1>5. Files' = Files /\ 0 \notin Clusters
  BY <1>1, Numbers DEF Files
<1>6. NoPred(call.cur)
  <2>1. CASE first
    BY <1>1, <1>5, <2>1 DEF Linked, Apart
  <2>2. CASE ~first
    BY <1>1, <2>2 DEF Linked, InHand, Untouched
  <2>3. QED
    BY <2>1, <2>2
<1>7. \A s \in Files : s # call.slot => dir[s].start # call.cur
  <2>1. CASE first
    BY <1>1, <1>5, <2>1 DEF Linked, Apart
  <2>2. CASE ~first
    BY <1>1, <2>2 DEF Linked, InHand, Untouched, NoHead
  <2>3. QED
    BY <2>1, <2>2
<1>8. \A c : c # 0 /\ NoPred(c) => NoPred(c)'
  BY <1>4 DEF NoPred
<1>9. Apart'
  <2>1. \A a, b \in Clusters : fat'[1][a] \in Clusters /\ fat'[1][a] = fat'[1][b] => a = b
    BY <1>4, <1>5 DEF Linked, Apart
  <2>2. QED
    BY <1>1, <1>5, <1>8, <2>1 DEF Linked, Apart
<1>10. \A s \in Files : Freed(s)' <=> s = call.slot
  BY <1>1 DEF Freed, Removing, Untouched, Clearing
<1>11. InUse'
  <2>1. \A a \in Clusters : fat'[1][a] \in Clusters => fat'[1][fat'[1][a]] # 0
    BY <1>4, <1>5, <1>6 DEF Linked, InUse, NoPred
  <2>2. \A s \in Files : s # call.slot => ~Freed(s)
    BY DEF Freed, Removing
  <2>3. \A s \in Files : dir[s].start \in Cluster0
    BY DEF Typed, DirType, Files
  <2>4. \A s \in Files : s # call.slot /\ dir[s].start # 0 => fat'[1][dir[s].start] # 0
    BY <1>4, <1>7, <2>2, <2>3 DEF Linked, InUse, Cluster0
  <2>5. QED
    BY <1>1, <1>5, <1>10, <2>1, <2>4 DEF InUse
<1>12. InHand'
  <2>1. call'.after # 0 => NoPred(call.after)' /\ NoHead(call.after)'
    <3>1. SUFFICES ASSUME call'.after # 0 PROVE NoPred(call.after)' /\ NoHead(call.after)'
      OBVIOUS
    <3>2. first /\ v \in Clusters /\ call'.after = v
      BY <1>3, <3>1
    <3>3. NoPred(call.after)'
      <4>1. \A a \in Clusters : fat[1][a] = v => a = call.cur
        BY <1>1, <3>2 DEF Linked, Apart
      <4>2. \A a \in Clusters : fat'[1][a] # v
        BY <1>4, <1>5, <3>2, <4>1
      <4>3. QED
        BY <3>2, <4>2 DEF NoPred
    <3>4. NoHead(call.after)'
      <4>1. \A s \in Files : dir[s].start # v
        BY <1>1, <1>5, <3>2 DEF Linked, Apart, NoPred
      <4>2. QED
        BY <1>1, <1>5, <3>2, <4>1 DEF NoHead
    <3>5. QED
      BY <3>3, <3>4
  <2>2. QED
    BY <1>1, <1>3, <1>5, <2>1 DEF InHand, Clearing
<1>13. QED
  BY <1>9, <1>11, <1>12 DEF Linked

\* The file is gone, what is left of its chain is nobody's.
LEMMA MarkLinked ==
  ASSUME Typed, Linked, Mark
  PROVE  Linked'
<1>1. /\ call.pc = "mark" /\ fat' = fat /\ call.slot \in Slots /\ dir \in DirType
      /\ dir' = [dir EXCEPT ![call.slot].live = FALSE] /\ call' = Idle
  BY DEF Mark, Typed, CallFits, CallType
<1>2. /\ \A s \in Slots : dir'[s].start = dir[s].start
      /\ Files' = Files \ {call.slot}
  BY <1>1 DEF DirType, Files
<1>3. \A s \in Files' : s \in Files /\ ~Freed(s) /\ dir'[s].start = dir[s].start
  BY <1>2 DEF Freed, Removing, Files
<1>4. \A c : NoPred(c) => NoPred(c)'
  BY <1>1 DEF NoPred
<1>5. Apart'
  BY <1>1, <1>3, <1>4 DEF Linked, Apart
<1>6. InUse'
  BY <1>1, <1>3 DEF Linked, InUse
<1>7. InHand'
  BY <1>1 DEF InHand, Idle, Begun, Clearing
<1>8. QED
  BY <1>5, <1>6, <1>7 DEF Linked
----------------------------------------------------------------------------
(* Every step.                                                              *)

LEMMA InitLinked == Init => Linked
<1> SUFFICES ASSUME Init PROVE Linked
  OBVIOUS
<1>1. /\ call.pc = "idle" /\ \A s \in Slots : dir[s].live = FALSE
      /\ \A c \in Clusters : fat[1][c] = 0
  BY DEF Init, Idle, Begun, Clusters, Entries
<1>2. Files = {}
  BY <1>1 DEF Files
<1>3. 0 \notin Clusters
  BY Numbers
<1>4. QED
  BY <1>1, <1>2, <1>3 DEF Linked, Apart, InUse, InHand, Clearing

\* A call that is cut short with nothing half removed leaves what it found.
LEMMA StopsLinked ==
  ASSUME ~torn => Linked, fat' = fat, dir' = dir, call' = Idle, torn' = (torn \/ Torn)
  PROVE  ~torn' => Linked'
<1> SUFFICES ASSUME ~torn' PROVE Linked'
  OBVIOUS
<1>1. Linked /\ ~Torn
  OBVIOUS
<1>2. QED
  BY <1>1, CutLinked

LEMMA NextLinked ==
  ASSUME Typed, ~torn => Linked, [Next]_vars
  PROVE  ~torn' => Linked'
<1>1. CASE WriteFails
  BY <1>1, StopsLinked DEF WriteFails
<1>2. CASE Reset
  BY <1>2, StopsLinked DEF Reset
<1>3. ASSUME torn' = torn, Linked => Linked'
      PROVE  ~torn' => Linked'
  BY <1>3
<1>4. CASE UNCHANGED vars
  BY <1>3, <1>4, SameLinked DEF vars
<1>5. ASSUME NEW d \in Fds, NEW s \in Slots, Create(d, s)
      PROVE  ~torn' => Linked'
  <2>1. torn' = torn
    BY <1>5 DEF Create
  <2>2. QED
    BY <1>3, <1>5, <2>1, CreateLinked
<1>6. ASSUME NEW d \in Fds, NEW s \in Slots, Open(d, s)
      PROVE  ~torn' => Linked'
  BY <1>3, <1>6, SameLinked DEF Open
<1>7. ASSUME NEW d \in Fds, Close(d)
      PROVE  ~torn' => Linked'
  BY <1>3, <1>7, SameLinked DEF Close
<1>8. ASSUME NEW d \in Fds, NEW links \in 0 .. MaxWalk, Write(d, links)
      PROVE  ~torn' => Linked'
  <2>1. /\ torn' = torn /\ fat' = fat /\ dir' = dir /\ call.pc \notin Clearing
        /\ call'.pc \notin Clearing \cup {"add2", "link1", "start"}
    BY <1>8 DEF Write, Begun, Ready, Clearing
  <2>2. QED
    BY <1>3, <2>1, QuietLinked
<1>9. CASE Walk
  <2>1. /\ torn' = torn /\ fat' = fat /\ dir' = dir /\ call.pc \notin Clearing
        /\ call'.pc \notin Clearing \cup {"add2", "link1", "start"}
    BY <1>9 DEF Walk, Idle, Begun, Clearing, Typed, CallFits, CallType
  <2>2. QED
    BY <1>3, <2>1, QuietLinked
<1>10. CASE Add1
  <2>1. torn' = torn
    BY <1>10 DEF Add1
  <2>2. QED
    BY <1>3, <1>10, <2>1, Add1Linked
<1>11. CASE Astray
  <2>1. /\ torn' = torn /\ fat' = fat /\ dir' = dir /\ call.pc \notin Clearing
        /\ call'.pc \notin Clearing \cup {"add2", "link1", "start"}
    BY <1>11 DEF Astray, Clearing, Typed, CallFits, CallType
  <2>2. QED
    BY <1>3, <2>1, QuietLinked
<1>12. CASE Add2
  <2>1. torn' = torn
    BY <1>12 DEF Add2
  <2>2. QED
    BY <1>3, <1>12, <2>1, Add2Linked
<1>13. CASE Link1
  <2>1. torn' = torn
    BY <1>13 DEF Link1
  <2>2. QED
    BY <1>3, <1>13, <2>1, Link1Linked
<1>14. CASE Link2
  <2>1. /\ torn' = torn /\ fat'[1] = fat[1] /\ dir' = dir /\ call.pc \notin Clearing
        /\ call'.pc \notin Clearing \cup {"add2", "link1", "start"}
    BY <1>14 DEF Link2, Clearing, Typed, FatType, CallFits, CallType
  <2>2. QED
    BY <1>3, <2>1, QuietLinked
<1>15. ASSUME NEW written \in BOOLEAN, Start(written)
       PROVE  ~torn' => Linked'
  <2>1. torn' = torn
    BY <1>15 DEF Start
  <2>2. QED
    BY <1>3, <1>15, <2>1, StartLinked
<1>16. ASSUME NEW s \in Slots, Unlink(s)
       PROVE  ~torn' => Linked'
  <2>1. torn' = torn
    BY <1>16 DEF Unlink
  <2>2. QED
    BY <1>3, <1>16, <2>1, UnlinkLinked
<1>17. CASE Clear1
  <2>1. torn' = torn
    BY <1>17 DEF Clear1
  <2>2. QED
    BY <1>3, <1>17, <2>1, Clear1Linked
<1>18. CASE Clear2
  <2>1. torn' = torn
    BY <1>18 DEF Clear2
  <2>2. QED
    BY <1>3, <1>18, <2>1, Clear2Linked
<1>19. CASE Mark
  <2>1. torn' = torn
    BY <1>19 DEF Mark
  <2>2. QED
    BY <1>3, <1>19, <2>1, MarkLinked
<1>20. QED
  BY <1>1, <1>2, <1>4, <1>5, <1>6, <1>7, <1>8, <1>9, <1>10, <1>11, <1>12, <1>13,
     <1>14, <1>15, <1>16, <1>17, <1>18, <1>19 DEF Next

LEMMA IInvHolds == Spec => []IInv
<1>1. Init => IInv
  BY InitTyped, InitLinked DEF IInv
<1>2. IInv /\ [Next]_vars => IInv'
  BY NextTyped, NextLinked DEF IInv
<1>3. QED
  BY <1>1, <1>2, PTL DEF Spec
----------------------------------------------------------------------------
(* Chains.                                                                  *)

\* The cluster that follows v in a chain, v itself where the chain has ended.
Follow(v) == IF v \in Clusters THEN fat[1][v] ELSE v

LEMMA Earlier ==
  ASSUME NEW m \in 0 .. N, m # 0
  PROVE  m - 1 \in 0 .. N /\ m - 1 < m
BY VolumeFits

\* There is a function that satisfies the recursive equation of Path, on every
\* initial segment: the least segment without one would extend the one before.
LEMMA PathExists ==
  ASSUME NEW s \in Slots
  PROVE  \E p : p = [n \in 0 .. N |-> IF n = 0 THEN dir[s].start ELSE Follow(p[n - 1])]
<1> DEFINE Solves(p, k) ==
             p = [n \in 0 .. k |-> IF n = 0 THEN dir[s].start ELSE Follow(p[n - 1])]
           Bad == {k \in 0 .. N : ~\E p : Solves(p, k)}
<1>1. N \in 0 .. N
  BY VolumeFits
<1>2. SUFFICES ASSUME Bad # {} PROVE FALSE
  BY <1>1
<1>3. PICK k \in Bad : \A i \in Bad : k <= i
  <2>1. Bad \in SUBSET Nat
    BY VolumeFits
  <2>2. Lowest(Bad) \in Bad /\ \A i \in Bad : Lowest(Bad) <= i
    BY <1>2, <2>1, LowestIn
  <2>3. QED
    BY <2>2
<1>4. k # 0
  <2>1. ASSUME k = 0 PROVE FALSE
    <3> DEFINE p == [n \in 0 .. 0 |-> dir[s].start]
    <3>1. Solves(p, 0)
      <4>1. \A n \in 0 .. 0 : n = 0
        OBVIOUS
      <4>2. QED
        BY <4>1
    <3>2. QED
      BY <2>1, <3>1
  <2>2. QED
    BY <2>1
<1>5. k \in 0 .. N /\ k - 1 \in 0 .. N /\ k - 1 < k
  BY <1>4, Earlier
<1>6. k - 1 \notin Bad
  BY <1>3, <1>5
<1>7. PICK q : Solves(q, k - 1)
  BY <1>5, <1>6
<1> DEFINE p == [n \in 0 .. k |-> IF n = 0 THEN dir[s].start ELSE Follow(q[n - 1])]
<1>8. \A n \in 0 .. k : n # 0 => p[n - 1] = q[n - 1]
  <2> SUFFICES ASSUME NEW n \in 0 .. k, n # 0 PROVE p[n - 1] = q[n - 1]
    OBVIOUS
  <2>1. n - 1 \in 0 .. k - 1 /\ n - 1 \in 0 .. k
    BY <1>5
  <2> HIDE DEF Follow
  <2>2. q[n - 1] = IF n - 1 = 0 THEN dir[s].start ELSE Follow(q[n - 1 - 1])
    BY <1>7, <2>1
  <2>3. p[n - 1] = IF n - 1 = 0 THEN dir[s].start ELSE Follow(q[n - 1 - 1])
    BY <2>1
  <2>4. QED
    BY <2>2, <2>3
<1>9. Solves(p, k)
  BY <1>8
<1>10. QED
  BY <1>9

LEMMA PathSteps ==
  ASSUME NEW s \in Slots
  PROVE  /\ Path(s)[0] = dir[s].start
         /\ \A n \in 0 .. N : n # 0 => Path(s)[n] = Follow(Path(s)[n - 1])
<1> DEFINE Solves(p) ==
             p = [n \in 0 .. N |-> IF n = 0 THEN dir[s].start ELSE Follow(p[n - 1])]
<1>1. Path(s) = CHOOSE p : Solves(p)
  BY DEF Path, Follow
<1>2. \E p : Solves(p)
  BY PathExists
<1>3. Solves(Path(s))
  BY <1>1, <1>2
<1>4. 0 \in 0 .. N
  BY VolumeFits
<1>5. QED
  BY <1>3, <1>4

\* A cluster on a chain is where the file starts, or the link of another one.
LEMMA Reached ==
  ASSUME NEW s \in Slots, NEW n \in 0 .. N, Path(s)[n] \in Clusters
  PROVE  IF n = 0 THEN Path(s)[n] = dir[s].start
         ELSE Path(s)[n - 1] \in Clusters /\ fat[1][Path(s)[n - 1]] = Path(s)[n]
BY PathSteps DEF Follow

\* Followed back link by link, chains that meet would start in the same place.
LEMMA ApartNoMeet ==
  ASSUME Apart, NEW s \in Files, NEW t \in Files, s # t
  PROVE  ChainOf(s) \cap ChainOf(t) = {}
<1> DEFINE Meet == {m \in 0 .. N : \E n \in 0 .. N : Path(s)[m] \in Clusters /\ Path(s)[m] = Path(t)[n]}
<1>1. s \in Slots /\ t \in Slots
  BY DEF Files
<1>2. SUFFICES ASSUME Meet # {} PROVE FALSE
  BY DEF ChainOf
<1>3. PICK m \in Meet : \A i \in Meet : m <= i
  <2>1. Meet \in SUBSET Nat
    BY VolumeFits
  <2>2. Lowest(Meet) \in Meet /\ \A i \in Meet : Lowest(Meet) <= i
    BY <1>2, <2>1, LowestIn
  <2>3. QED
    BY <2>2
<1>4. PICK n \in 0 .. N : Path(s)[m] \in Clusters /\ Path(s)[m] = Path(t)[n]
  OBVIOUS
<1>5. m \in 0 .. N
  OBVIOUS
<1>6. Path(s)[m] # 0
  BY <1>4, Numbers
<1>7. CASE m = 0 /\ n = 0
  BY <1>1, <1>4, <1>5, <1>6, <1>7, Reached DEF Apart
<1>8. CASE m = 0 /\ n # 0
  BY <1>1, <1>4, <1>5, <1>6, <1>8, Reached DEF Apart, NoPred
<1>9. CASE m # 0 /\ n = 0
  BY <1>1, <1>4, <1>5, <1>6, <1>9, Reached DEF Apart, NoPred
<1>10. CASE m # 0 /\ n # 0
  <2>1. Path(s)[m - 1] \in Clusters /\ fat[1][Path(s)[m - 1]] = Path(s)[m]
    BY <1>1, <1>4, <1>5, <1>10, Reached
  <2>2. Path(t)[n - 1] \in Clusters /\ fat[1][Path(t)[n - 1]] = Path(s)[m]
    BY <1>1, <1>4, <1>10, Reached
  <2>3. Path(s)[m - 1] = Path(t)[n - 1]
    BY <1>4, <2>1, <2>2 DEF Apart
  <2>4. m - 1 \in 0 .. N /\ m - 1 < m /\ n - 1 \in 0 .. N
    BY <1>5, <1>10, Earlier
  <2>5. m - 1 \in Meet
    BY <2>1, <2>3, <2>4
  <2>6. QED
    BY <1>3, <1>5, <2>4, <2>5
<1>11. QED
  BY <1>7, <1>8, <1>9, <1>10

\* No cluster belongs to two files, whatever the order of creations, writes,
\* removals, failures of the device and resets, as long as no removal was cut
\* short: for every size of the volume and any number of files and descriptors.
THEOREM NoCrossLinksHolds == Spec => []NoCrossLinks
<1>1. IInv => NoCrossLinks
  BY ApartNoMeet DEF IInv, Linked, NoCrossLinks
<1>2. QED
  BY <1>1, IInvHolds, PTL
----------------------------------------------------------------------------
(* Ends of chains.                                                          *)

\* The first cluster of a file is being allocated.
First == call.pc = "start" \/ (call.pc \in {"add1", "add2"} /\ call.cur = 0)

\* Links lead to clusters or are ends; a cluster is added where a chain ends,
\* for the file of the call's descriptor.  A descriptor that is not stale and
\* knows of no first cluster is right, and so is the call made through it.
Held ==
  /\ \A c \in Clusters : fat[1][c] \in Cluster0 \cup {Eoc}
  /\ call.pc \in {"add1", "add2", "link1"} /\ call.cur # 0 => IsLast(fat[1][call.cur])
  /\ call.pc \in Adding \cup {"walk"} => call.slot = open[call.fd].slot
  /\ \A d \in Fds : open[d].up /\ d \notin stale /\ open[d].start = 0 => dir[open[d].slot].start = 0
  /\ ~misused /\ First => dir[call.slot].start = 0

LEMMA InitHeld == Init => Held
<1> SUFFICES ASSUME Init PROVE Held
  OBVIOUS
<1>1. call.pc = "idle" /\ \A c \in Clusters : fat[1][c] = 0
  BY DEF Init, Idle, Begun, Clusters, Entries
<1>2. \A d \in Fds : ~open[d].up
  BY DEF Init, Closed
<1>3. QED
  BY <1>1, <1>2 DEF Held, First, Adding, Cluster0

\* What the call is at does not matter while it adds no cluster; a descriptor
\* that is not stale is as it was, or as the directory says.
LEMMA StillHeld ==
  ASSUME Held, \A c \in Clusters : fat'[1][c] \in Cluster0 \cup {Eoc}, misused' = misused,
         \A s \in Slots : dir'[s].start = dir[s].start \/ dir'[s].start = 0,
         call'.pc \notin Adding \cup {"walk"} \/ (call' = call /\ call.pc = "idle"),
         \A d \in Fds : open'[d].up /\ d \notin stale' =>
           open'[d].slot \in Slots
           /\ ((open[d].up /\ d \notin stale /\ open'[d] = open[d]) \/ open'[d].start = dir'[open'[d].slot].start)
  PROVE  Held'
<1>1. call'.pc \notin Adding \cup {"walk"}
  BY DEF Adding
<1>2. (\A d \in Fds : open[d].up /\ d \notin stale /\ open[d].start = 0 => dir[open[d].slot].start = 0)'
  BY DEF Held
<1>3. ~(First') /\ call'.pc \notin {"add1", "add2", "link1"}
  BY <1>1 DEF First, Adding
<1>4. QED
  BY <1>1, <1>2, <1>3 DEF Held

\* Opening and closing.
LEMMA OpeningHeld ==
  ASSUME Typed, Held, NEW d \in Fds, NEW s \in Slots, Create(d, s) \/ Open(d, s) \/ Close(d)
  PROVE  Held'
<1>1. /\ open \in OpenType /\ dir \in DirType /\ call' = call /\ call.pc = "idle" /\ fat' = fat
      /\ misused' = misused
  BY DEF Typed, Create, Open, Close, Ready
<1>2. \A t \in Slots : dir'[t].start = dir[t].start \/ dir'[t].start = 0
  BY <1>1 DEF Create, Open, Close, DirType
<1>3. \A e \in Fds : open[e].slot \in Slots
  BY <1>1 DEF OpenType
<1>4. CASE Create(d, s)
  <2>1. \A e \in Fds : e # d => open'[e] = open[e] /\ (open'[e].up /\ e \notin stale' => open[e].up /\ e \notin stale)
    BY <1>1, <1>4 DEF OpenType, Create
  <2>2. open'[d].slot = s /\ open'[d].start = dir'[s].start
    BY <1>1, <1>4 DEF OpenType, DirType, Create
  <2>3. QED
    BY <1>1, <1>2, <1>3, <2>1, <2>2, StillHeld DEF Held
<1>5. CASE Open(d, s)
  <2>1. \A e \in Fds : e # d => open'[e] = open[e] /\ (open'[e].up /\ e \notin stale' => open[e].up /\ e \notin stale)
    BY <1>1, <1>5 DEF OpenType, Open
  <2>2. open'[d].slot = s /\ open'[d].start = dir'[s].start
    BY <1>1, <1>5 DEF OpenType, DirType, Open
  <2>3. QED
    BY <1>1, <1>2, <1>3, <2>1, <2>2, StillHeld DEF Held
<1>6. CASE Close(d)
  <2>1. \A e \in Fds : open'[e].up /\ e \notin stale' => open[e].up /\ e \notin stale /\ open'[e] = open[e]
    BY <1>1, <1>6 DEF OpenType, Close, Closed
  <2>2. QED
    BY <1>1, <1>2, <1>3, <2>1, StillHeld DEF Held
<1>7. QED
  BY <1>4, <1>5, <1>6

\* A write adds the first cluster of the file only if its descriptor knows of
\* none, and the descriptor is right unless it is stale.
LEMMA WriteHeld ==
  ASSUME Typed, Held, NEW d \in Fds, NEW links \in 0 .. MaxWalk, Write(d, links)
  PROVE  Held'
<1>1. /\ UNCHANGED <<fat, dir, open, stale>> /\ open[d].up /\ misused' = (misused \/ d \in stale)
      /\ call'.fd = d /\ call'.slot = open[d].slot /\ call'.cur = open[d].start
      /\ call'.pc = IF open[d].start = 0 THEN "add1" ELSE "walk"
  BY DEF Write, Begun
<1>2. First' => open[d].start = 0
  BY <1>1 DEF First
<1>3. ~misused' /\ First' => dir[call'.slot].start = 0
  BY <1>1, <1>2 DEF Held
<1>4. ~(call'.pc \in {"add1", "add2", "link1"} /\ call'.cur # 0)
  BY <1>1
<1>5. QED
  BY <1>1, <1>3, <1>4 DEF Held

\* A cluster is added where the link followed last was an end.
LEMMA WalkHeld ==
  ASSUME Typed, Held, Walk
  PROVE  Held'
<1>1. /\ UNCHANGED <<fat, dir, open, stale, misused>> /\ call.pc = "walk"
      /\ call \in CallType /\ call.cur \in Clusters /\ 0 \notin Clusters
  BY Numbers DEF Walk, Typed, CallFits
<1>2. CASE call' = Idle
  BY <1>1, <1>2 DEF Idle, Begun, Held, First, Adding
<1>3. CASE IsLast(fat[1][call.cur]) /\ call' = [call EXCEPT !.pc = "add1"]
  <2>1. /\ call'.pc = "add1" /\ call'.cur = call.cur /\ call'.slot = call.slot /\ call'.fd = call.fd
    BY <1>1, <1>3 DEF CallType
  <2>2. ~(First')
    BY <1>1, <2>1 DEF First
  <2>3. QED
    BY <1>1, <1>3, <2>1, <2>2 DEF Held
<1>4. CASE call' = [call EXCEPT !.cur = fat[1][call.cur], !.left = @ - 1]
  <2>1. /\ call'.pc = "walk" /\ call'.slot = call.slot /\ call'.fd = call.fd
    BY <1>1, <1>4 DEF CallType
  <2>2. QED
    BY <1>1, <2>1 DEF Held, First
<1>5. QED
  BY <1>2, <1>3, <1>4 DEF Walk

LEMMA Add1Held ==
  ASSUME Typed, Held, Add1
  PROVE  Held'
<1> DEFINE new == Lowest(Candidates)
<1>1. new \in Clusters
  BY Allocated DEF Add1
<1>2. /\ UNCHANGED <<dir, open, stale, misused>> /\ call.pc = "add1" /\ call \in CallType
      /\ fat' = [fat EXCEPT ![1][new] = Eoc] /\ call' = [call EXCEPT !.pc = "add2", !.new = new]
  BY DEF Add1, Typed, CallFits
<1> HIDE DEF new
<1>3. \A a \in Entries : fat'[1][a] = IF a = new THEN Eoc ELSE fat[1][a]
  BY <1>1, <1>2, Numbers, FatSet DEF Typed
<1>4. /\ call'.pc = "add2" /\ call'.cur = call.cur /\ call'.slot = call.slot /\ call'.fd = call.fd
  BY <1>2 DEF CallType
<1>5. call.cur \in Entries /\ IsLast(Eoc)
  BY <1>2, Numbers DEF CallType, Cluster0, IsLast
<1>6. call.cur # 0 => IsLast(fat'[1][call.cur])
  BY <1>2, <1>3, <1>5 DEF Held
<1>7. First' => First
  BY <1>2, <1>4 DEF First
<1>8. call.slot = open[call.fd].slot /\ \A c \in Clusters : fat'[1][c] \in Cluster0 \cup {Eoc}
  BY <1>2, <1>3, Numbers DEF Held, Adding
<1>9. QED
  BY <1>2, <1>4, <1>6, <1>7, <1>8 DEF Held

LEMMA Add2Held ==
  ASSUME Typed, Held, Add2
  PROVE  Held'
<1>1. /\ UNCHANGED <<dir, open, stale, misused>> /\ call.pc = "add2" /\ call \in CallType
      /\ call' = [call EXCEPT !.pc = IF call.cur = 0 THEN "start" ELSE "link1"]
  BY DEF Add2, Typed, CallFits
<1>2. fat'[1] = fat[1]
  BY <1>1, Numbers DEF Add2, Typed, FatType
<1>3. /\ call'.cur = call.cur /\ call'.slot = call.slot /\ call'.fd = call.fd
      /\ call'.pc = IF call.cur = 0 THEN "start" ELSE "link1"
  BY <1>1 DEF CallType
<1>4. First' => First
  BY <1>1, <1>3 DEF First
<1>5. call.slot = open[call.fd].slot
  BY <1>1 DEF Held, Adding
<1>6. QED
  BY <1>1, <1>2, <1>3, <1>4, <1>5 DEF Held

LEMMA LinkHeld ==
  ASSUME Typed, Held, Link1 \/ Link2
  PROVE  Held'
<1>1. /\ UNCHANGED <<dir, open, stale, misused>> /\ call.pc \in {"link1", "link2"} /\ call \in CallType
      /\ call.cur \in Clusters /\ call.new \in Clusters
  BY DEF Link1, Link2, Typed, CallFits
<1>2. call'.pc \in {"link2", "walk"} /\ call'.slot = call.slot /\ call'.fd = call.fd
  BY <1>1 DEF Link1, Link2, CallType
<1>3. \A a \in Entries : fat'[1][a] = fat[1][a] \/ fat'[1][a] = call.new
  <2>1. CASE Link1
    BY <1>1, <2>1, Numbers, FatSet DEF Link1, Typed
  <2>2. CASE Link2
    BY <1>1, <2>2, Numbers DEF Link2, Typed, FatType
  <2>3. QED
    BY <2>1, <2>2
<1>4. \A c \in Clusters : fat'[1][c] \in Cluster0 \cup {Eoc}
  BY <1>1, <1>3, Numbers DEF Held, Cluster0
<1>5. call.slot = open[call.fd].slot
  BY <1>1 DEF Held, Adding
<1>6. QED
  BY <1>1, <1>2, <1>4, <1>5 DEF Held, First

\* Every other descriptor of the file is stale from here on.
LEMMA StartHeld ==
  ASSUME Typed, Held, NEW written \in BOOLEAN, Start(written)
  PROVE  Held'
<1>1. /\ UNCHANGED <<fat, misused>> /\ call.pc = "start" /\ call \in CallType
      /\ call.new \in Clusters /\ dir \in DirType /\ open \in OpenType
      /\ stale' = stale \cup Others(call.fd)
      /\ dir' = IF written THEN [dir EXCEPT ![call.slot].start = call.new] ELSE dir
      /\ open' = [open EXCEPT ![call.fd].start = call.new]
      /\ call' = [call EXCEPT !.pc = "walk", !.cur = call.new, !.new = 0]
  BY DEF Start, Typed, CallFits
<1>2. /\ call'.pc = "walk" /\ call'.slot = call.slot /\ call'.fd = call.fd
      /\ call.slot \in Slots /\ call.fd \in Fds
  BY <1>1 DEF CallType
<1>3. call.slot = open[call.fd].slot
  BY <1>1 DEF Held, Adding
<1>4. /\ open'[call.fd].start = call.new /\ open'[call.fd].slot = open[call.fd].slot
      /\ \A d \in Fds : d # call.fd => open'[d] = open[d]
  BY <1>1, <1>2 DEF OpenType
<1>5. \A s \in Slots : s # call.slot => dir'[s] = dir[s]
  BY <1>1, <1>2 DEF DirType
<1>6. \A d \in Fds : open[d].slot \in Slots
  BY <1>1 DEF OpenType
<1>7. ASSUME NEW d \in Fds, open'[d].up, d \notin stale', open'[d].start = 0
      PROVE  dir'[open'[d].slot].start = 0
  <2>1. d # call.fd
    BY <1>1, <1>4, <1>7, Numbers
  <2>2. open[d].up /\ d \notin stale /\ open[d].slot # call.slot /\ open'[d] = open[d]
    BY <1>1, <1>3, <1>4, <1>7, <2>1 DEF Others
  <2>3. QED
    BY <1>5, <1>6, <1>7, <2>2 DEF Held
<1>8. QED
  BY <1>1, <1>2, <1>3, <1>4, <1>7 DEF Held, First

\* Removing, giving up, and starting again.
LEMMA RemovingHeld ==
  ASSUME Typed, Held, (\E s \in Slots : Unlink(s)) \/ Clear1 \/ Clear2 \/ Mark
  PROVE  Held'
<1>1. /\ UNCHANGED <<open, misused>> /\ fat \in FatType /\ dir \in DirType /\ open \in OpenType
      /\ call \in CallType
  BY DEF Unlink, Clear1, Clear2, Mark, Typed, CallFits
<1>2. call'.pc \in {"idle"} \cup Clearing
  <2>1. (\E s \in Slots : Unlink(s)) \/ Mark => call'.pc \in {"idle"} \cup Clearing
    BY DEF Unlink, Mark, Begun, Idle, Clearing
  <2>2. Clear1 \/ Clear2 => call'.pc \in Clearing
    BY <1>1 DEF Clear1, Clear2, Clearing, CallType
  <2>3. QED
    BY <2>1, <2>2
<1>3. \A s \in Slots : dir'[s].start = dir[s].start
  BY <1>1 DEF Unlink, Clear1, Clear2, Mark, DirType
<1>4. \A c \in Clusters : fat'[1][c] = fat[1][c] \/ fat'[1][c] = 0
  BY <1>1, Numbers DEF Unlink, Clear1, Clear2, Mark, FatType
<1>5. stale \subseteq stale'
  BY DEF Unlink, Clear1, Clear2, Mark
<1>6. call'.pc \notin Adding \cup {"walk"}
  BY <1>2 DEF Adding, Clearing
<1>7. \A d \in Fds : open[d].slot \in Slots
  BY <1>1 DEF OpenType
<1>8. \A c \in Clusters : fat'[1][c] \in Cluster0 \cup {Eoc}
  BY <1>4 DEF Held, Cluster0
<1>9. QED
  BY <1>1, <1>3, <1>5, <1>6, <1>7, <1>8, StillHeld

LEMMA StoppingHeld ==
  ASSUME Typed, Held, Astray \/ WriteFails \/ Reset
  PROVE  Held'
<1>1. /\ UNCHANGED <<fat, dir, misused>> /\ open \in OpenType /\ call \in CallType
  BY DEF Astray, WriteFails, Reset, Typed, CallFits
<1>2. call'.pc \in {"idle", "astray"}
  BY <1>1 DEF Astray, WriteFails, Reset, Idle, Begun, CallType
<1>3. \A d \in Fds : open'[d].up /\ d \notin stale' => open[d].up /\ d \notin stale /\ open'[d] = open[d]
  BY DEF Astray, WriteFails, Reset, Closed
<1>4. call'.pc \notin Adding \cup {"walk"}
  BY <1>2 DEF Adding
<1>5. \A d \in Fds : open[d].slot \in Slots
  BY <1>1 DEF OpenType
<1>6. QED
  BY <1>1, <1>3, <1>4, <1>5, StillHeld DEF Held

LEMMA NextHeld ==
  ASSUME Typed, Held, [Next]_vars
  PROVE  Held'
<1>1. CASE UNCHANGED vars
  BY <1>1 DEF vars, Held, First
<1>2. QED
  BY <1>1, OpeningHeld, WriteHeld, WalkHeld, Add1Held, Add2Held, LinkHeld, StartHeld,
     RemovingHeld, StoppingHeld, Numbers DEF Next

LEMMA HeldHolds == Spec => [](IInv /\ Held)
<1>1. Init => Held
  BY InitHeld
<1>2. IInv /\ Held /\ [Next]_vars => Held'
  BY NextHeld DEF IInv
<1>3. QED
  BY <1>1, <1>2, IInvHolds, PTL DEF Spec
----------------------------------------------------------------------------
(* Whole chains.                                                            *)

\* PathSteps of every file, now and after a step.
LEMMA PathsStep ==
  \A s \in Slots : /\ Path(s)[0] = dir[s].start
                   /\ \A n \in 0 .. N : n # 0 => Path(s)[n] = Follow(Path(s)[n - 1])
BY PathSteps

LEMMA PathsStepNext ==
  (\A s \in Slots : /\ Path(s)[0] = dir[s].start
                    /\ \A n \in 0 .. N : n # 0 => Path(s)[n] = Follow(Path(s)[n - 1]))'
BY PathsStep, PTL

\* The least element of a set of places on a chain.
LEMMA LeastPlace ==
  ASSUME NEW S \in SUBSET (0 .. N), S # {}
  PROVE  \E m \in S : \A i \in S : m <= i
<1>1. S \in SUBSET Nat
  BY VolumeFits
<1>2. Lowest(S) \in S /\ \A i \in S : Lowest(S) <= i
  BY <1>1, LowestIn
<1>3. QED
  BY <1>2

\* A chain visits no cluster twice: the first visit of the first such cluster
\* would be where the file starts, or have a predecessor visited twice before.
LEMMA ApartNoRepeat ==
  ASSUME Apart, NEW s \in Files, NEW i \in 0 .. N, NEW j \in 0 .. N,
         Path(s)[i] \in Clusters, Path(s)[i] = Path(s)[j]
  PROVE  i = j
<1> DEFINE Twice == {m \in 0 .. N : \E n \in 0 .. N : n # m /\ Path(s)[m] \in Clusters /\ Path(s)[m] = Path(s)[n]}
<1>1. SUFFICES ASSUME Twice # {} PROVE FALSE
  OBVIOUS
<1>2. PICK m \in Twice : \A k \in Twice : m <= k
  BY <1>1, LeastPlace
<1>3. PICK n \in 0 .. N : n # m /\ Path(s)[m] \in Clusters /\ Path(s)[m] = Path(s)[n]
  OBVIOUS
<1>4. m \in 0 .. N /\ n \in Twice /\ s \in Slots
  BY <1>3 DEF Files
<1>5. n # 0
  BY <1>2, <1>3, <1>4
<1>6. Path(s)[n - 1] \in Clusters /\ fat[1][Path(s)[n - 1]] = Path(s)[m]
  BY <1>3, <1>4, <1>5, Reached
<1>7. CASE m = 0
  <2>1. Path(s)[m] = dir[s].start /\ Path(s)[m] # 0
    BY <1>3, <1>4, <1>7, Reached, Numbers
  <2>2. QED
    BY <1>6, <2>1 DEF Apart, NoPred
<1>8. CASE m # 0
  <2>1. Path(s)[m - 1] \in Clusters /\ fat[1][Path(s)[m - 1]] = Path(s)[m]
    BY <1>3, <1>4, <1>8, Reached
  <2>2. Path(s)[m - 1] = Path(s)[n - 1]
    BY <1>3, <1>6, <2>1 DEF Apart
  <2>3. m - 1 \in 0 .. N /\ m - 1 < m /\ n - 1 \in 0 .. N /\ n - 1 # m - 1
    BY <1>3, <1>4, <1>5, <1>8, Earlier
  <2>4. m - 1 \in Twice
    BY <2>1, <2>2, <2>3
  <2>5. QED
    BY <1>2, <1>4, <2>3, <2>4
<1>9. QED
  BY <1>7, <1>8

\* A chain visits clusters and then its end, never a free cluster.
LEMMA ClustersThenEnd ==
  ASSUME Typed, Linked, Held, NEW s \in Files, dir[s].start # 0, ~Removing(s), NEW n \in 0 .. N
  PROVE  Path(s)[n] \in Clusters \cup {Eoc}
<1> DEFINE Wrong == {k \in 0 .. N : Path(s)[k] \notin Clusters \cup {Eoc}}
<1>1. SUFFICES ASSUME Wrong # {} PROVE FALSE
  OBVIOUS
<1>2. PICK m \in Wrong : \A k \in Wrong : m <= k
  BY <1>1, LeastPlace
<1>3. m \in 0 .. N /\ s \in Slots
  BY DEF Files
<1>4. Path(s)[0] = dir[s].start /\ dir[s].start \in Clusters
  BY <1>3, PathsStep DEF Typed, DirType, Cluster0
<1>5. m # 0
  BY <1>4
<1>6. m - 1 \in 0 .. N /\ m - 1 < m /\ m - 1 \notin Wrong
  BY <1>2, <1>3, <1>5, Earlier
<1> DEFINE a == Path(s)[m - 1]
<1>7. a \in Clusters \cup {Eoc} /\ Path(s)[m] = Follow(a)
  BY <1>3, <1>5, <1>6, PathsStep
<1>8. CASE a \notin Clusters
  BY <1>7, <1>8 DEF Follow
<1>9. CASE a \in Clusters
  <2>1. fat[1][a] \in Cluster0 \cup {Eoc} /\ Path(s)[m] = fat[1][a]
    BY <1>7, <1>9 DEF Held, Follow
  <2>2. fat[1][a] # 0
    <3>1. CASE m - 1 = 0
      BY <1>4, <3>1 DEF Linked, InUse, Freed
    <3>2. CASE m - 1 # 0
      BY <1>3, <1>6, <1>9, <3>2, Reached DEF Linked, InUse
    <3>3. QED
      BY <3>1, <3>2
  <2>3. QED
    BY <2>1, <2>2 DEF Cluster0
<1>10. QED
  BY <1>8, <1>9

\* Where a chain has ended it stays.
LEMMA EndStays ==
  ASSUME NEW s \in Slots, NEW n \in 0 .. N, Path(s)[n] = Eoc
  PROVE  Path(s)[N] = Eoc
<1> DEFINE Left == {k \in 0 .. N : n <= k /\ Path(s)[k] # Eoc}
<1>1. N \in 0 .. N /\ n <= N
  BY VolumeFits
<1>2. SUFFICES ASSUME Left # {} PROVE FALSE
  BY <1>1
<1>3. PICK m \in Left : \A k \in Left : m <= k
  BY <1>2, LeastPlace
<1>4. m \in 0 .. N /\ m # 0 /\ m # n /\ n <= m
  BY VolumeFits
<1>5. m - 1 \in 0 .. N /\ m - 1 < m /\ n <= m - 1 /\ m - 1 \notin Left
  BY <1>3, <1>4, Earlier
<1>6. Path(s)[m - 1] = Eoc
  BY <1>5
<1>7. Path(s)[m] = Eoc
  BY <1>4, <1>6, PathsStep, Numbers DEF Follow
<1>8. QED
  BY <1>7

\* A chain that never ended would visit N + 1 different clusters of N - 2.
LEMMA ChainEnds ==
  ASSUME Typed, Linked, Held, NEW s \in Files, dir[s].start # 0, ~Removing(s)
  PROVE  Path(s)[N] = Eoc
<1>1. SUFFICES ASSUME \A n \in 0 .. N : Path(s)[n] # Eoc PROVE FALSE
  BY EndStays DEF Files
<1> DEFINE visit == [n \in 0 .. N |-> Path(s)[n]]
<1>2. visit \in [0 .. N -> Clusters]
  BY <1>1, ClustersThenEnd
<1>3. /\ IsFiniteSet(0 .. N) /\ Cardinality(0 .. N) = N + 1
  BY FS_Interval, VolumeFits
<1>4. IsFiniteSet(Clusters) /\ Cardinality(Clusters) = N - 2
  BY FS_Interval, VolumeFits DEF Clusters
<1>5. Cardinality(Clusters) < Cardinality(0 .. N)
  BY <1>3, <1>4, VolumeFits
<1>6. \E i, j \in 0 .. N : i # j /\ visit[i] = visit[j]
  <2> HIDE DEF visit
  <2>1. QED
    BY <1>2, <1>3, <1>4, <1>5, FS_PigeonHole
<1>7. QED
  BY <1>2, <1>6, ApartNoRepeat DEF Linked

\* The chain of every file comes to its end, never to a free cluster and never
\* back to itself (nextCluster), as long as no removal was cut short.
THEOREM ChainsEndHolds == Spec => []ChainsEnd
<1>1. IInv /\ Held => ChainsEnd
  BY ChainEnds DEF IInv, ChainsEnd
<1>2. QED
  BY <1>1, HeldHolds, PTL

\* A cluster that leads on, on the chain of a file that is not being removed,
\* leads to the same cluster after every step.
LEMMA LinkKept ==
  ASSUME Typed, Linked, Held, [Next]_vars, NEW s \in Files, ~Removing(s),
         NEW n \in 0 .. N, Path(s)[n] \in Clusters, fat[1][Path(s)[n]] \in Clusters
  PROVE  fat'[1][Path(s)[n]] = fat[1][Path(s)[n]]
<1> DEFINE a == Path(s)[n]
<1>1. a \in Clusters /\ a \in Entries /\ fat[1][a] \in Clusters /\ fat[1][a] # 0 /\ s \in Slots
  BY Numbers DEF Files
<1>2. fat \in FatType /\ call \in CallType /\ CallFits(call)
  BY DEF Typed, CallFits
<1> HIDE DEF a
<1>3. CASE Add1
  <2>1. Lowest(Candidates) \in Clusters /\ fat[1][Lowest(Candidates)] = 0
    BY <1>3, Allocated DEF Add1
  <2>2. fat'[1][a] = fat[1][a]
    BY <1>1, <1>2, <1>3, <2>1, FatSet, Numbers DEF Add1
  <2>3. QED
    BY <2>2 DEF a
<1>4. CASE Link1
  <2>1. call.pc = "link1" /\ call.cur \in Clusters /\ call.new \in Clusters /\ IsLast(fat[1][call.cur])
    BY <1>2, <1>4, Numbers DEF Link1, CallFits, Held
  <2>2. \A v \in Clusters : ~IsLast(v)
    BY VolumeFits DEF Clusters, IsLast, Eoc
  <2>3. fat'[1][a] = fat[1][a]
    BY <1>1, <1>2, <1>4, <2>1, <2>2, FatSet, Numbers DEF Link1
  <2>4. QED
    BY <2>3 DEF a
<1>5. CASE Clear1
  <2>1. /\ call.pc = "clear1" /\ call.cur \in Clusters /\ call.slot \in Files /\ s # call.slot
        /\ fat' = [fat EXCEPT ![1][call.cur] = 0]
    BY <1>2, <1>5 DEF Clear1, CallFits, Linked, InHand, Removing, Clearing
  <2>2. a # call.cur
    <3>1. CASE call.cur = dir[call.slot].start
      <4>1. 0 \in 0 .. N /\ Path(call.slot)[0] = call.cur
        BY <2>1, <3>1, PathsStep, VolumeFits DEF Files
      <4>2. call.cur \in ChainOf(call.slot)
        BY <2>1, <4>1 DEF ChainOf
      <4>3. a \in ChainOf(s)
        BY <1>1 DEF a, ChainOf
      <4>4. QED
        BY <2>1, <4>2, <4>3, ApartNoMeet DEF Linked
    <3>2. CASE call.cur # dir[call.slot].start
      <4>1. NoPred(call.cur) /\ NoHead(call.cur)
        BY <2>1, <3>2 DEF Linked, InHand, Untouched
      <4>2. QED
        BY <1>1, <4>1, Reached DEF a, NoPred, NoHead
    <3>3. QED
      BY <3>1, <3>2
  <2>3. fat'[1][a] = fat[1][a]
    BY <1>1, <1>2, <2>1, <2>2, FatSet, Numbers
  <2>4. QED
    BY <2>3 DEF a
<1>6. CASE Add2 \/ Link2 \/ Clear2
  <2>1. fat'[1] = fat[1]
    BY <1>2, <1>6, Numbers DEF Add2, Link2, Clear2, FatType, CallType
  <2>2. QED
    BY <2>1
<1>7. CASE UNCHANGED fat
  BY <1>7
<1>8. QED
  BY <1>3, <1>4, <1>5, <1>6, <1>7
     DEF Next, Create, Open, Close, Write, Walk, Astray, Start, Unlink, Mark, WriteFails, Reset, vars

\* A file that has a first cluster keeps it, unless a stale descriptor was used.
LEMMA HeadKept ==
  ASSUME Typed, Held, [Next]_vars, ~misused', NEW s \in Files, dir[s].start # 0
  PROVE  dir'[s].start = dir[s].start
<1>1. s \in Slots /\ dir \in DirType /\ call \in CallType
  BY DEF Files, Typed, CallFits
<1>2. ASSUME NEW d \in Fds, NEW t \in Slots, Create(d, t) PROVE dir'[s].start = dir[s].start
  BY <1>1, <1>2 DEF Create, DirType
<1>3. ASSUME NEW written \in BOOLEAN, Start(written) PROVE dir'[s].start = dir[s].start
  <2>1. s # call.slot
    BY <1>3 DEF Start, Held, First
  <2>2. QED
    BY <1>1, <1>3, <2>1 DEF Start, DirType
<1>4. CASE Mark
  BY <1>1, <1>4 DEF Mark, DirType
<1>5. CASE UNCHANGED dir
  BY <1>5
<1>6. QED
  BY <1>2, <1>3, <1>4, <1>5
     DEF Next, Open, Close, Write, Walk, Add1, Astray, Add2, Link1, Link2, Unlink, Clear1, Clear2,
         WriteFails, Reset, vars

\* So the whole chain is kept: the first place to change would follow a
\* cluster that did not.
LEMMA ChainKept ==
  ASSUME Typed, Linked, Held, [Next]_vars, ~misused', NEW s \in Files, dir[s].start # 0, ~Removing(s),
         NEW n \in 0 .. N, Path(s)[n] \in Clusters
  PROVE  Path(s)'[n] = Path(s)[n]
<1> DEFINE Moved == {k \in 0 .. N : Path(s)[k] \in Clusters /\ Path(s)'[k] # Path(s)[k]}
<1>1. SUFFICES ASSUME Moved # {} PROVE FALSE
  OBVIOUS
<1>2. PICK m \in Moved : \A k \in Moved : m <= k
  BY <1>1, LeastPlace
<1>3. m \in 0 .. N /\ Path(s)[m] \in Clusters /\ Path(s)'[m] # Path(s)[m] /\ s \in Slots
  BY DEF Files
<1>4. /\ Path(s)'[0] = dir'[s].start
      /\ \A k \in 0 .. N : k # 0 => Path(s)'[k] = Follow(Path(s)[k - 1])'
  BY <1>3, PathsStepNext
<1>5. CASE m = 0
  BY <1>3, <1>4, <1>5, HeadKept, PathsStep
<1>6. CASE m # 0
  <2>1. Path(s)[m - 1] \in Clusters /\ fat[1][Path(s)[m - 1]] = Path(s)[m]
    BY <1>3, <1>6, Reached
  <2>2. m - 1 \in 0 .. N /\ m - 1 < m /\ m - 1 \notin Moved
    BY <1>2, <1>3, <1>6, Earlier
  <2>3. Path(s)'[m - 1] = Path(s)[m - 1]
    BY <2>1, <2>2
  <2>4. fat'[1][Path(s)[m - 1]] = Path(s)[m]
    BY <1>3, <2>1, <2>2, LinkKept
  <2>5. Path(s)'[m] = fat'[1][Path(s)[m - 1]]
    BY <1>3, <1>4, <1>6, <2>1, <2>3 DEF Follow
  <2>6. QED
    BY <1>3, <2>4, <2>5
<1>7. QED
  BY <1>5, <1>6

\* A file keeps the clusters it has, in their order, through every call on it or
\* on another file, every failed write and every reset, until it is removed
\* itself (clusterChain, fat_addCluster, fat_unlink): while no stale
\* descriptor is written through and no removal is cut short.
THEOREM ChainsKeptHolds == Spec => ChainsKept
<1>1. [Next]_vars /\ ~torn' => ~torn
  BY DEF Next, Create, Open, Close, Write, Walk, Add1, Astray, Add2, Link1, Link2, Start, Unlink,
         Clear1, Clear2, Mark, WriteFails, Reset, vars
<1>2. IInv /\ Held /\ [Next]_vars =>
        [sound' => \A s \in Files :
           dir[s].start # 0 /\ dir'[s].live /\ ~Removing(s) =>
             \A n \in 0 .. N : Path(s)[n] \in Clusters => Path(s)'[n] = Path(s)[n]]_vars
  BY <1>1, ChainKept DEF IInv, sound
<1>3. QED
  BY <1>2, HeldHolds, PTL DEF Spec, ChainsKept
=============================================================================
