-------------------------------- MODULE Fat --------------------------------
(***************************************************************************)
(* Cluster allocation of the FAT16 file system (fs/fatfs.org): the two     *)
(* copies of the file allocation table and the root directory on the       *)
(* device, the allocation hint in the drive table, and the open files that *)
(* remember where their chain starts.                                      *)
(*                                                                         *)
(* A call of the file system is a sequence of writes to the device.  Each  *)
(* of them is a step, after which the machine may be reset or before which *)
(* the device may fail; what is read in between is part of the step that   *)
(* uses it.  A file is its directory entry (a slot); names, sizes and data *)
(* are left out.                                                           *)
(***************************************************************************)
EXTENDS Integers, FiniteSets

CONSTANTS
  N,       \* entries of one FAT; the clusters of the volume are 2 .. N-1
  NSlots,  \* directory entries that files are created in
  NFds,    \* files that can be open at a time
  MaxWalk  \* largest number of chain links one write follows

\* A cluster number is doubled in 16 bits to find its entry: above 32768
\* entries the number would wrap around.
ASSUME VolumeFits ==
  /\ N \in Nat /\ N >= 3 /\ N <= 32768
  /\ NSlots \in Nat \ {0} /\ NFds \in Nat \ {0} /\ MaxWalk \in Nat

VARIABLES
  fat,   \* the two FATs of the device
  dir,   \* the directory of the device
  hint,  \* fat_firstFreeCluster
  open,  \* the open files: entry and start cluster, as opening found them
  call,  \* the call that is running
  stale, \* history: open files whose entry was removed, or given its first
         \* cluster, through another descriptor
  misused, \* history: a stale descriptor was written through
  torn   \* history: a removal was cut short

vars == <<fat, dir, hint, open, call, stale, misused, torn>>
----------------------------------------------------------------------------
Eoc      == 65535
Entries  == 0 .. N - 1
Clusters == 2 .. N - 1
Values   == Entries \cup {Eoc}
Slots    == 0 .. NSlots - 1
Fds      == 0 .. NFds - 1

\* Mutant: 2, the first cluster of the volume, is taken for an end as well.
IsLast_OffByOne(v) == v <= 2 \/ v = Eoc

\* A value that nextCluster takes for the end: 0 and 1, and 0xfff8 to 0xffff.
IsLast(v) == v < 2 \/ v = Eoc

Closed == [up |-> FALSE, slot |-> 0, start |-> 0]

\* pc: the device write that comes next ("walk": a step along the chain, no
\* write); cur: the cluster in hand; new: the one being added; after: the one
\* that clearClusterChain clears next, 0 for none; left: links still to follow.
Begun(pc, fd, slot, cur, left) ==
  [pc |-> pc, fd |-> fd, slot |-> slot, cur |-> cur, new |-> 0, after |-> 0, left |-> left]
Idle == Begun("idle", 0, 0, 0, 0)

Adding   == {"add1", "add2", "link1", "link2", "start"}
Clearing == {"clear1", "clear2", "mark"}

\* Mutant: the hint is trusted, the entries are not looked at.
Candidates_Trusted == {c \in Entries : c >= hint}

\* fat_findFreeCluster: the scan starts at the hint and has no end.
Candidates == {c \in Entries : c >= hint /\ fat[1][c] = 0}
Lowest(S)  == CHOOSE x \in S : \A y \in S : x <= y

Init ==
  /\ fat = [i \in {1, 2} |-> [c \in Entries |-> IF c < 2 THEN Eoc ELSE 0]]
  /\ dir = [s \in Slots |-> [live |-> FALSE, start |-> 0]]
  /\ hint = 2
  /\ open = [d \in Fds |-> Closed]
  /\ call = Idle
  /\ stale = {}
  /\ misused = FALSE /\ torn = FALSE

Ready == call.pc = "idle"
Files == {s \in Slots : dir[s].live}
----------------------------------------------------------------------------
(* Opening and closing. *)

\* The entry is written with no cluster, and found by the search that follows.
Create(d, s) ==
  /\ Ready
  /\ ~open[d].up
  /\ s \notin Files
  /\ dir' = [dir EXCEPT ![s] = [live |-> TRUE, start |-> 0]]
  /\ open' = [open EXCEPT ![d] = [up |-> TRUE, slot |-> s, start |-> 0]]
  /\ UNCHANGED <<fat, hint, call, stale, misused, torn>>

Open(d, s) ==
  /\ Ready
  /\ ~open[d].up
  /\ s \in Files
  /\ open' = [open EXCEPT ![d] = [up |-> TRUE, slot |-> s, start |-> dir[s].start]]
  /\ UNCHANGED <<fat, dir, hint, call, stale, misused, torn>>

\* The file system has no close routine.
Close(d) ==
  /\ Ready
  /\ open[d].up
  /\ open' = [open EXCEPT ![d] = Closed]
  /\ stale' = stale \ {d}
  /\ UNCHANGED <<fat, dir, hint, call, misused, torn>>
----------------------------------------------------------------------------
(* Write: follow the chain, adding clusters at its end. *)

\* A file without clusters gets its first one before the chain is followed.
Write(d, links) ==
  /\ Ready
  /\ open[d].up
  /\ call' = Begun(IF open[d].start = 0 THEN "add1" ELSE "walk",
                   d, open[d].slot, open[d].start, links)
  /\ misused' = (misused \/ d \in stale)
  /\ UNCHANGED <<fat, dir, hint, open, stale, torn>>

\* One link: at the end of the chain a cluster is added to cur.
Walk ==
  /\ call.pc = "walk"
  /\ LET v == fat[1][call.cur]
     IN  call' = IF call.left = 0 THEN Idle
                 ELSE IF IsLast(v) THEN [call EXCEPT !.pc = "add1"]
                 ELSE [call EXCEPT !.cur = v, !.left = @ - 1]
  /\ UNCHANGED <<fat, dir, hint, open, stale, misused, torn>>

\* Mutant: the new cluster is linked without having been made an end of chain.
Add1_Unmarked ==
  /\ call.pc = "add1"
  /\ Candidates # {}
  /\ hint' = Lowest(Candidates)
  /\ call' = [call EXCEPT !.pc = "add2", !.new = Lowest(Candidates)]
  /\ UNCHANGED <<fat, dir, open, stale, misused, torn>>

\* fat_addCluster: the first free entry becomes an end of chain in both FATs.
Add1 ==
  /\ call.pc = "add1"
  /\ Candidates # {}
  /\ LET new == Lowest(Candidates)
     IN  /\ hint' = new
         /\ fat' = [fat EXCEPT ![1][new] = Eoc]
         /\ call' = [call EXCEPT !.pc = "add2", !.new = new]
  /\ UNCHANGED <<dir, open, stale, misused, torn>>

\* With no free entry left the scan runs on through whatever follows the FAT
\* on the device.  What it does there is not followed further.
Astray ==
  /\ call.pc = "add1"
  /\ Candidates = {}
  /\ call' = [call EXCEPT !.pc = "astray"]
  /\ UNCHANGED <<fat, dir, hint, open, stale, misused, torn>>

Add2 ==
  /\ call.pc = "add2"
  /\ fat' = [fat EXCEPT ![2][call.new] = Eoc]
  /\ call' = [call EXCEPT !.pc = IF call.cur = 0 THEN "start" ELSE "link1"]
  /\ UNCHANGED <<dir, hint, open, stale, misused, torn>>

Link1 ==
  /\ call.pc = "link1"
  /\ fat' = [fat EXCEPT ![1][call.cur] = call.new]
  /\ call' = [call EXCEPT !.pc = "link2"]
  /\ UNCHANGED <<dir, hint, open, stale, misused, torn>>

\* The added cluster is the next link.
Link2 ==
  /\ call.pc = "link2"
  /\ fat' = [fat EXCEPT ![2][call.cur] = call.new]
  /\ call' = [call EXCEPT !.pc = "walk", !.cur = call.new, !.new = 0, !.left = @ - 1]
  /\ UNCHANGED <<dir, hint, open, stale, misused, torn>>

Others(d) == {e \in Fds \ {d} : open[e].up /\ open[e].slot = open[d].slot}

\* The new file's first cluster is written into its directory entry and into
\* its open file.  A failure of the device goes unnoticed here.
Start(written) ==
  /\ call.pc = "start"
  /\ dir' = IF written THEN [dir EXCEPT ![call.slot].start = call.new] ELSE dir
  /\ open' = [open EXCEPT ![call.fd].start = call.new]
  /\ call' = [call EXCEPT !.pc = "walk", !.cur = call.new, !.new = 0]
  /\ stale' = stale \cup Others(call.fd)
  /\ UNCHANGED <<fat, hint, misused, torn>>
----------------------------------------------------------------------------
(* Unlink: clear the chain, then mark the entry. *)

Unlink(s) ==
  /\ Ready
  /\ s \in Files
  /\ LET c == dir[s].start
     IN  call' = Begun(IF c = 0 THEN "mark" ELSE "clear1", 0, s, c, 0)
  /\ UNCHANGED <<fat, dir, hint, open, stale, misused, torn>>

\* The value is read before it is cleared.  The loop then goes on with
\* cluster 0, the register setClusterValue leaves, whose entry reads as an end:
\* a second cluster is cleared, and no third one.
Clear1 ==
  /\ call.pc = "clear1"
  /\ LET v     == fat[1][call.cur]
         first == call.cur = dir[call.slot].start
     IN  call' = [call EXCEPT !.pc = "clear2",
                              !.after = IF first /\ ~IsLast(v) THEN v ELSE 0]
  /\ fat' = [fat EXCEPT ![1][call.cur] = 0]
  /\ UNCHANGED <<dir, hint, open, stale, misused, torn>>

Clear2 ==
  /\ call.pc = "clear2"
  /\ fat' = [fat EXCEPT ![2][call.cur] = 0]
  /\ call' = IF call.after = 0 THEN [call EXCEPT !.pc = "mark"]
             ELSE [call EXCEPT !.pc = "clear1", !.cur = call.after, !.after = 0]
  /\ UNCHANGED <<dir, hint, open, stale, misused, torn>>

Mark ==
  /\ call.pc = "mark"
  /\ dir' = [dir EXCEPT ![call.slot].live = FALSE]
  /\ call' = Idle
  /\ stale' = stale \cup {d \in Fds : open[d].up /\ open[d].slot = call.slot}
  /\ UNCHANGED <<fat, hint, open, misused, torn>>
----------------------------------------------------------------------------
(* Failures. *)

\* Nothing of a removal has reached the device yet.
Untouched == call.pc = "clear1" /\ call.cur = dir[call.slot].start

Torn == call.pc \in Clearing /\ ~Untouched /\ dir[call.slot].start # 0

\* A write to the device fails: the call returns, and undoes nothing.
WriteFails ==
  /\ call.pc \in (Adding \cup Clearing) \ {"start"}
  /\ call.pc = "add1" => Candidates # {}
  /\ hint' = IF call.pc = "add1" THEN Lowest(Candidates) ELSE hint
  /\ call' = Idle
  /\ torn' = (torn \/ Torn)
  /\ UNCHANGED <<fat, dir, open, stale, misused>>

\* Reset at any time; the drive is mounted again, which resets the hint.
Reset ==
  /\ hint' = 2
  /\ open' = [d \in Fds |-> Closed]
  /\ call' = Idle
  /\ stale' = {}
  /\ torn' = (torn \/ Torn)
  /\ UNCHANGED <<fat, dir, misused>>
----------------------------------------------------------------------------
Next ==
  \/ \E d \in Fds, s \in Slots : Create(d, s) \/ Open(d, s)
  \/ \E d \in Fds : Close(d)
  \/ \E d \in Fds, links \in 0 .. MaxWalk : Write(d, links)
  \/ Walk
  \/ Add1 \/ Astray \/ Add2 \/ Link1 \/ Link2
  \/ \E written \in BOOLEAN : Start(written)
  \/ \E s \in Slots : Unlink(s)
  \/ Clear1 \/ Clear2 \/ Mark
  \/ WriteFails
  \/ Reset

Spec == Init /\ [][Next]_vars
----------------------------------------------------------------------------
(* Properties. *)

\* Every entry holds a cluster, free or end of chain; every number in the
\* directory, in the open files and in the call is an entry of the FAT.
TypeOK ==
  /\ fat \in [{1, 2} -> [Entries -> Values]]
  /\ dir \in [Slots -> [live : BOOLEAN, start : Entries]]
  /\ hint \in Clusters
  /\ open \in [Fds -> [up : BOOLEAN, slot : Slots, start : Entries]]
  /\ call \in [pc : {"idle", "walk", "astray"} \cup Adding \cup Clearing,
               fd : Fds, slot : Slots, cur : Entries, new : Entries,
               after : Entries, left : 0 .. MaxWalk]
  /\ stale \subseteq Fds
  /\ misused \in BOOLEAN /\ torn \in BOOLEAN

\* What the chain of a file visits, link by link; it stays where it ends.
Path(s) ==
  LET p[n \in 0 .. N] == IF n = 0 THEN dir[s].start
                         ELSE IF p[n - 1] \in Clusters THEN fat[1][p[n - 1]]
                         ELSE p[n - 1]
  IN  p

ChainOf(s) == {Path(s)[n] : n \in 0 .. N} \cap Clusters

Removing(s) == call.pc \in Clearing /\ call.slot = s

\* No cluster belongs to two files: not after any order of allocations,
\* removals, resets and failed writes, writes through descriptors of removed or
\* reallocated files included, in which no removal is cut in two.
NoCrossLinks ==
  ~torn => \A s, t \in Files : s # t => ChainOf(s) \cap ChainOf(t) = {}

\* The chain of every file comes to an end of chain: it does not run into a free
\* cluster, and not into itself.
ChainsEnd ==
  ~torn => \A s \in Files : dir[s].start # 0 /\ ~Removing(s) => Path(s)[N] = Eoc

sound == ~misused /\ ~torn

\* While no stale descriptor has been written through either, a file keeps the
\* clusters it has, in their order, through every call on this or another file,
\* reset and failed write, until it is itself removed.
ChainsKept ==
  [][sound' => \A s \in Files :
       dir[s].start # 0 /\ dir'[s].live /\ ~Removing(s) =>
         \A n \in 0 .. N : Path(s)[n] \in Clusters => Path(s)'[n] = Path(s)[n]]_vars

\* Without failures no cluster is lost: between calls every cluster in use
\* belongs to the chain of a file.
NoLeak ==
  Ready => \A c \in Clusters : fat[1][c] # 0 => \E s \in Files : c \in ChainOf(s)

\* The search for a free cluster ends in the first FAT.
SearchEnds == call.pc # "astray"
=============================================================================
