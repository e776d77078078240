------------------------------- MODULE FatIo --------------------------------
(***************************************************************************)
(* The contents of a file on the FAT volume: k_read, k_write and lseek on  *)
(* an open regular file, and fat_read and fat_write (fs/fatfs.org), which  *)
(* cut a transfer at the end of its first cluster.                         *)
(*                                                                         *)
(* A step is one transfer of data with the bookkeeping before the next     *)
(* one.  The chain of the file is a sequence; how links and free clusters  *)
(* are kept in the two FATs, and what is left of them by failures, is in   *)
(* Fat.  The device may fail in every write of data or of the size.        *)
(***************************************************************************)
EXTENDS Integers, Sequences

CONSTANTS
  C,           \* bytes of a cluster
  WordSize,    \* values of a register pair (65536)
  ByteSize,    \* values of a byte (256)
  NumClusters, \* clusters of the volume, from number 2 on
  Neighbours,  \* clusters another file may have
  Lengths,     \* counts of the calls
  Offsets,     \* positions the programs pass to lseek
  Leftovers,   \* what register de may hold after a write that failed
  MaxSize,     \* bound: no call reaches past it
  MaxTransfers \* bound: calls per behaviour

\* Up to number 128 clusterToAddr is right, see Math32.  A cluster is smaller
\* than a register pair (128 sectors would not be).
ASSUME FileFits ==
  /\ C \in Nat \ {0} /\ WordSize \in Nat /\ WordSize % C = 0 /\ C < WordSize
  /\ ByteSize \in Nat \ {0} /\ NumClusters \in 1 .. 127
  /\ Neighbours \subseteq 2 .. NumClusters + 1
  /\ Lengths \subseteq 1 .. WordSize - 1 /\ Offsets \subseteq Nat /\ Leftovers \subseteq Nat
  /\ MaxSize \in Nat /\ MaxTransfers \in Nat

VARIABLES
  data,       \* the data area of the device, and what follows it
  chain,      \* the clusters of the file
  neighbour,  \* the cluster of another file
  fileSize,   \* ft_size of the open file
  fileOffset, \* ft_offset
  rw,         \* the call that is running, or the last one
  transfers,  \* number of calls begun
  content,    \* history: what the programs wrote where
  plain       \* history: every write so far was one of those fat_write is right for

fioVars == <<data, chain, neighbour, fileSize, fileOffset, rw, transfers, content, plain>>
----------------------------------------------------------------------------
Unknown == 0
ClusterToAddr(cluster) == (cluster - 2) * C
Volume == 0 .. NumClusters * C + WordSize + C

\* The i-th byte of the buffer of the k-th call
BufferByte(k, i) == 100 * k + i

\* pc: "first": the transfer that comes next may be cut at the end of the
\* cluster; "more": the part after it; "size": the new size is written; "wild":
\* a transfer with a count that is none, an allocation on a full volume, or a
\* return to an address that is none.  at: where the next transfer starts on the
\* device; link: its cluster's place in the chain; rem, total: as in the code;
\* buf: what was read.
Returned == [pc |-> "done", op |-> "write", from |-> 0, n |-> 0, at |-> 0, link |-> 1,
         rem |-> 0, total |-> 0, buf |-> <<>>, fair |-> FALSE]

FioInit ==
  /\ data = [p \in Volume |-> Unknown]
  /\ chain = <<>>
  /\ neighbour \in Neighbours
  /\ fileSize = 0 /\ fileOffset = 0
  /\ rw = Returned
  /\ transfers = 0
  /\ content = [p \in 0 .. MaxSize - 1 |-> Unknown]
  /\ plain = TRUE

FioReady == rw.pc = "done"

Seek(p) ==
  /\ FioReady
  /\ fileOffset' = p
  /\ rw' = Returned
  /\ UNCHANGED <<data, chain, neighbour, fileSize, transfers, content, plain>>
----------------------------------------------------------------------------
(* Finding the place. *)

\* relOffs: the mask is computed into register b and used on register a, so that
\* the lower 16 bits of the position stay whole.
RelOffs(o) == o % WordSize

\* startClusterLoop counts two bytes down, one inside the other: an index whose
\* lower byte is 0 is taken for one that is 256 larger.
Links(o) ==
  LET index == o \div C
  IN  IF index > 0 /\ index % ByteSize = 0 THEN index + ByteSize ELSE index

FreeClusters(owned) ==
  {c \in 2 .. NumClusters + 1 : c # neighbour /\ \A i \in DOMAIN owned : owned[i] # c}

\* The chain with clusters added up to a length: the lowest free ones in turn,
\* which lie above all that were ever allocated before them.
Extended(length) ==
  LET grown[i \in 0 .. length] ==
        IF i <= Len(chain) THEN chain
        ELSE LET free == FreeClusters(grown[i - 1])
             IN  Append(grown[i - 1], CHOOSE c \in free : \A d \in free : c <= d)
  IN  grown[length]

Room(length) == length <= NumClusters - 1

\* A call that fat_read and fat_write are right for: it starts where the lower
\* bits of the position are those inside the cluster, and it ends in the first
\* cluster, or asks for more than one cluster and no more than two.
Fair(o, n) ==
  /\ RelOffs(o) = o % C /\ Links(o) = o \div C
  /\ \/ (o % C) + n <= C
     \/ C < n /\ n <= 2 * C
----------------------------------------------------------------------------
(* Reading. *)

\* The count is limited to what is left of the file.
Limited(n) == IF fileOffset + n <= fileSize THEN n
              ELSE IF fileOffset < fileSize THEN fileSize - fileOffset ELSE 0

CanCall(o, n) == FioReady /\ transfers < MaxTransfers /\ o + n <= MaxSize

Read(n) ==
  LET m == Limited(n)
      call == [Returned EXCEPT !.op = "read", !.from = fileOffset, !.n = m, !.rem = m]
  IN  /\ CanCall(fileOffset, n)
      /\ transfers' = transfers + 1
      /\ rw' = IF m = 0 THEN [call EXCEPT !.fair = TRUE]
               ELSE IF fileOffset < C
               THEN [call EXCEPT !.pc = "first", !.at = ClusterToAddr(chain[1]) + fileOffset,
                                 !.fair = Fair(fileOffset, m)]
               ELSE [call EXCEPT !.total = 2]
      \* Behind the first cluster the walk ends at the end of the chain, for
      \* fat_nextCluster changes the counter; k_read drops the error, and returns
      \* the 2 bytes of the last link as the count.
      /\ fileOffset' = IF m > 0 /\ fileOffset >= C THEN fileOffset + 2 ELSE fileOffset
      /\ UNCHANGED <<data, chain, neighbour, fileSize, content, plain>>

Taken(k) == rw.buf \o [i \in 1 .. k |-> data[rw.at + i - 1]]

\* The part up to the end of the first cluster: a whole cluster is taken off
\* remCount.  If the chain ends here the two bytes of its last link are returned.
ReadFirst ==
  /\ rw.op = "read" /\ rw.pc = "first" /\ rw.rem > C
  /\ LET k == C - rw.from
     IN  IF Len(chain) > 1
         THEN /\ rw' = [rw EXCEPT !.pc = "more", !.rem = @ - C, !.total = @ + k, !.link = 2,
                                  !.at = ClusterToAddr(chain[2]), !.buf = Taken(k)]
              /\ UNCHANGED fileOffset
         ELSE /\ rw' = [rw EXCEPT !.pc = "done", !.total = 2, !.buf = Taken(k)]
              /\ fileOffset' = fileOffset + 2
  /\ UNCHANGED <<data, chain, neighbour, fileSize, transfers, content, plain>>

ReadLast ==
  /\ rw.op = "read" /\ rw.pc \in {"first", "more"} /\ rw.rem <= C
  /\ rw' = [rw EXCEPT !.pc = "done", !.total = @ + rw.rem, !.buf = Taken(rw.rem)]
  /\ fileOffset' = fileOffset + rw'.total
  /\ UNCHANGED <<data, chain, neighbour, fileSize, transfers, content, plain>>
----------------------------------------------------------------------------
(* Writing. *)

\* A file that is open for appending is written from its size on.  The chain is
\* followed, and made as long as the place needs.
Write(n, append) ==
  LET o == IF append THEN fileSize ELSE fileOffset
      link == Links(o) + 1
      call == [Returned EXCEPT !.from = o, !.n = n, !.rem = n, !.link = link, !.fair = Fair(o, n)]
  IN  /\ CanCall(o, n)
      /\ plain \* bound: after a write that went wrong the file is only read
      /\ transfers' = transfers + 1
      /\ fileOffset' = o
      /\ plain' = (plain /\ Fair(o, n))
      /\ IF Room(link)
         THEN /\ chain' = Extended(link)
              /\ rw' = [call EXCEPT !.pc = "first", !.at = ClusterToAddr(chain'[link]) + RelOffs(o)]
         ELSE /\ chain' = Extended(NumClusters - 1)
              /\ rw' = [call EXCEPT !.pc = "wild"]
      /\ UNCHANGED <<data, neighbour, fileSize, content>>

\* The first k bytes that are still to be written reach the device.
Stored(k) ==
  [p \in Volume |-> IF p \in rw.at .. rw.at + k - 1
                    THEN BufferByte(transfers, rw.total + p - rw.at + 1) ELSE data[p]]

\* The same bytes, where they belong in the file.
InTransfer(p, k) == p >= rw.from + rw.total /\ p < rw.from + rw.total + k
ContentWith(k) ==
  [p \in DOMAIN content |->
     IF InTransfer(p, k) THEN BufferByte(transfers, p - rw.from + 1) ELSE content[p]]

\* Mutant: the device is not moved to the next cluster.
NextCluster_NoSeek(moved) ==
  LET link == rw.link + 1
  IN  IF Room(link)
      THEN /\ chain' = Extended(link)
           /\ rw' = [rw EXCEPT !.pc = "more", !.rem = @ - C, !.total = @ + moved,
                               !.link = link, !.at = @ + moved]
      ELSE UNCHANGED chain /\ rw' = [rw EXCEPT !.pc = "wild"]

\* After the first part: the next cluster, a new one at the end of the chain.
NextCluster(moved) ==
  LET link == rw.link + 1
  IN  IF Room(link)
      THEN /\ chain' = Extended(link)
           /\ rw' = [rw EXCEPT !.pc = "more", !.rem = @ - C, !.total = @ + moved,
                               !.link = link, !.at = ClusterToAddr(chain'[link])]
      ELSE UNCHANGED chain /\ rw' = [rw EXCEPT !.pc = "wild"]

FirstPart == rw.op = "write" /\ rw.pc = "first" /\ rw.rem > C /\ RelOffs(rw.from) <= C

WriteFirst ==
  /\ FirstPart
  /\ LET k == C - RelOffs(rw.from)
     IN  data' = Stored(k) /\ content' = ContentWith(k) /\ NextCluster(k)
  /\ UNCHANGED <<neighbour, fileSize, fileOffset, transfers, plain>>

\* The error of this write is not looked at.
WriteFirstFails(k, count) ==
  /\ FirstPart /\ k <= C - RelOffs(rw.from)
  /\ data' = Stored(k) /\ NextCluster(count)
  /\ plain' = FALSE
  /\ UNCHANGED <<neighbour, fileSize, fileOffset, transfers, content>>

\* The counter of what the first cluster can take wraps around behind the first
\* cluster; and after two clusters the count is taken from a register that then
\* holds an address.
CountLost ==
  /\ rw.rem > C
  /\ rw.pc = "more" \/ (rw.op = "write" /\ rw.pc = "first" /\ RelOffs(rw.from) > C)
  /\ rw' = [rw EXCEPT !.pc = "wild"]
  /\ UNCHANGED <<data, chain, neighbour, fileSize, fileOffset, transfers, content, plain>>

LastPart == rw.op = "write" /\ rw.pc \in {"first", "more"} /\ rw.rem <= C

WriteLast ==
  /\ LastPart
  /\ data' = Stored(rw.rem)
  /\ LET total == rw.total + rw.rem
         end   == rw.from + total
     IN  /\ fileOffset' = end
         /\ fileSize' = IF end >= fileSize THEN end ELSE fileSize
         /\ rw' = [rw EXCEPT !.pc = IF end >= fileSize THEN "size" ELSE "done", !.total = total]
         /\ content' = ContentWith(rw.rem)
  /\ UNCHANGED <<chain, neighbour, transfers, plain>>

\* An error here is returned.  The bytes that were to be written may be old or
\* new ones, size and position are kept.
WriteLastFails(k) ==
  /\ LastPart /\ k <= rw.rem
  /\ data' = Stored(k)
  /\ rw' = [rw EXCEPT !.pc = "done"]
  /\ content' = [p \in DOMAIN content |-> IF InTransfer(p, rw.rem) THEN Unknown ELSE content[p]]
  /\ UNCHANGED <<chain, neighbour, fileSize, fileOffset, transfers, plain>>

\* The new size goes to the directory entry.  If that fails the routine returns
\* with totalCount on the stack.
WriteSize(ok) ==
  /\ rw.pc = "size"
  /\ rw' = [rw EXCEPT !.pc = IF ok THEN "done" ELSE "wild"]
  /\ UNCHANGED <<data, chain, neighbour, fileSize, fileOffset, transfers, content, plain>>
----------------------------------------------------------------------------
FioNext ==
  \/ \E p \in Offsets : Seek(p)
  \/ \E n \in Lengths : Read(n)
  \/ ReadFirst \/ ReadLast
  \/ \E n \in Lengths, append \in BOOLEAN : Write(n, append)
  \/ WriteFirst
  \/ \E k \in 0 .. C, count \in Leftovers : WriteFirstFails(k, count)
  \/ CountLost
  \/ WriteLast
  \/ \E k \in 0 .. C : WriteLastFails(k)
  \/ \E ok \in BOOLEAN : WriteSize(ok)

FioSpec == FioInit /\ [][FioNext]_fioVars
----------------------------------------------------------------------------
(* Properties. *)

\* Every byte that was written is where the chain says it is.
Placed ==
  \A p \in DOMAIN content :
    p < fileSize /\ content[p] # Unknown =>
      /\ p \div C < Len(chain)
      /\ data[ClusterToAddr(chain[p \div C + 1]) + (p % C)] = content[p]

NeighbourKept == \A i \in 0 .. C - 1 : data[ClusterToAddr(neighbour) + i] = Unknown

\* A read delivers what was written, and counts as much as it delivered: all that
\* was asked for and is there, or all but what lay before it in its first cluster.
Delivered ==
  FioReady /\ rw.op = "read" /\ rw.fair =>
    /\ rw.total = IF (rw.from % C) + rw.n <= C THEN rw.n ELSE rw.n - (rw.from % C)
    /\ Len(rw.buf) = rw.total /\ fileOffset = rw.from + rw.total
    /\ \A i \in 1 .. rw.total : content[rw.from + i - 1] \in {Unknown, rw.buf[i]}

\* As long as every write was one that fat_write is right for, the file holds what
\* was written to it, between calls and after writes that failed, no byte of
\* another file has changed, and reads that fat_read is right for return it.
FioAsFile == plain => Placed /\ NeighbourKept /\ Delivered
=============================================================================
