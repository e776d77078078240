---- MODULE Stdio ----
(* The streams of the C library (lib/src/zi28_clib/stdio) over the calls of the
   kernel (fcntl): the table of streams, reading with push-back, seeking and
   closing. Streams for writing are opened and closed, but what they write is
   not followed, nor are streams in memory and the console. *)
EXTENDS Integers, Sequences

CONSTANTS
  FOPEN_MAX,   \* streams, 10 in the library; the first one is for the system
  Fds,         \* descriptors of a program, 0 .. n
  Contents,    \* the bytes of the file, one of them 0
  Seeks        \* the positions the program seeks

\* A position behind the end of the file is as good as any other (k_lseek).
ASSUME StdioFits ==
  /\ FOPEN_MAX \in Nat \ {0}
  /\ Fds \subseteq Nat /\ 0 \in Fds
  /\ Contents \in Seq(0 .. 255) /\ Seeks \subseteq Nat

VARIABLES
  blk,    \* _sgoioblk: flags, fd and ungetc of every stream
  desc,   \* the kernel's descriptors: position, -1 when closed
  at,     \* history: how far a program must think each stream has been read
  odd,    \* history: streams for which that no longer holds
  lost,   \* history: descriptors that freopen forgot
  got     \* history: the last byte read, and from which stream

stdioVars == <<blk, desc, at, odd, lost, got>>

Streams == 0 .. FOPEN_MAX - 1
Free(s) == blk[s].flags = {}
FromFile(s) == "USE" \in blk[s].flags /\ "SYSTEM" \notin blk[s].flags
Open(fd) == desc[fd] >= 0
Sharing(fd, s) == {t \in Streams \ {s} : FromFile(t) /\ blk[t].fd = fd}

\* The history at, for the streams it says something about.
Known(new) == [s \in Streams |-> IF s \in odd' \/ blk'[s].flags = {} THEN 0 ELSE new[s]]

(* Opening and closing. *)

Fresh0(flags, fd) == [flags |-> flags, fd |-> fd, ungot |-> 0]
FlagsOf(mode) == IF mode = "r" THEN {"USE", "READ", "TEXT"} ELSE {"USE", "WRITE", "TEXT"}

\* freopen gives the stream the new descriptor and forgets the old one; when
\* open fails the stream stays as it is.
Freopen(s) ==
  \E mode \in {"r", "w"}, fd \in Fds :
    /\ ~Open(fd) /\ \A lower \in Fds : lower < fd => Open(lower)
    /\ desc' = [desc EXCEPT ![fd] = 0]
    /\ blk' = [blk EXCEPT ![s] = Fresh0(FlagsOf(mode), fd)]
    /\ at' = [at EXCEPT ![s] = 0]
    /\ odd' = odd \ {s}
    /\ lost' = (IF FromFile(s) /\ Open(blk[s].fd) /\ Sharing(blk[s].fd, s) = {}
                THEN lost \cup {blk[s].fd} ELSE lost) \ {fd}
    /\ got' = -1

\* The first stream whose flags are 0.
FirstFree(s) == Free(s) /\ \A t \in Streams : t < s => ~Free(t)
Fopen == \E s \in Streams : FirstFree(s) /\ Freopen(s)
FreopenCalled == \E s \in Streams : ~Free(s) /\ Freopen(s)

\* A second stream for a descriptor that some stream has.
Fdopen ==
  \E s \in Streams, fd \in Fds :
    /\ FirstFree(s) /\ Open(fd) /\ fd \notin lost
    /\ blk' = [blk EXCEPT ![s] = Fresh0({"USE", "READ"}, fd)]
    /\ at' = [at EXCEPT ![s] = desc[fd]]
    /\ odd' = odd \ {s}
  /\ got' = -1
  /\ UNCHANGED <<desc, lost>>

\* Mutant: the test for a stream of the system is the wrong way round.
Closed_Keeps(b, d, s) ==
  IF "USE" \notin b[s].flags THEN [blk |-> b, desc |-> d]
  ELSE [blk |-> [b EXCEPT ![s] = [@ EXCEPT !.flags = {}, !.fd = 0]], desc |-> d]

\* What is left of streams and descriptors when s has been closed. The stream
\* of a descriptor that is closed already cannot be closed, and keeps its place.
Closed(b, d, s) ==
  LET cleared == [b EXCEPT ![s] = [@ EXCEPT !.flags = {}, !.fd = 0]]
  IN IF "USE" \notin b[s].flags THEN [blk |-> b, desc |-> d]
     ELSE IF "SYSTEM" \in b[s].flags THEN [blk |-> cleared, desc |-> d]
     ELSE IF d[b[s].fd] < 0 THEN [blk |-> b, desc |-> d]
     ELSE [blk |-> cleared, desc |-> [d EXCEPT ![b[s].fd] = -1]]

Fclose ==
  \E s \in Streams :
    LET c == Closed(blk, desc, s)
    IN /\ blk' = c.blk /\ desc' = c.desc
       /\ odd' = IF c.desc # desc THEN odd \cup Sharing(blk[s].fd, s) ELSE odd
       /\ got' = -1 /\ at' = Known(at) /\ UNCHANGED lost

\* closeall on exit, one stream after the other.
Closeall ==
  LET after[k \in 0 .. FOPEN_MAX] ==
        IF k = 0 THEN [blk |-> blk, desc |-> desc]
        ELSE Closed(after[k - 1].blk, after[k - 1].desc, k - 1)
  IN /\ blk' = after[FOPEN_MAX].blk /\ desc' = after[FOPEN_MAX].desc
     /\ odd' = odd \cup {s \in Streams : FromFile(s)}
     /\ got' = -1 /\ at' = Known(at) /\ UNCHANGED lost

(* Reading. A reader r is the state of a stream with the kernel's position. *)

Reader(s) == [flags |-> blk[s].flags, ungot |-> blk[s].ungot, pos |-> desc[blk[s].fd], stray |-> FALSE]

\* Mutant: a byte that was pushed back stays.
Fgetc_Twice(r, junk) ==
  IF r.flags \cap {"WRITE", "EOF"} # {} \/ r.flags = {} THEN [c |-> -1, r |-> r]
  ELSE IF r.ungot # 0 THEN [c |-> r.ungot, r |-> r]
  ELSE IF junk >= 0 \/ r.pos < 0 THEN [c |-> junk, r |-> [r EXCEPT !.stray = TRUE]]
  ELSE IF r.pos < Len(Contents) THEN [c |-> Contents[r.pos + 1], r |-> [r EXCEPT !.pos = @ + 1]]
  ELSE [c |-> -1, r |-> [r EXCEPT !.flags = @ \cup {"EOF"}]]

\* fgetc. When read fails readbyte returns what is in its buffer, junk, as if
\* it had been read.
Fgetc(r, junk) ==
  IF r.flags \cap {"WRITE", "EOF"} # {} \/ r.flags = {} THEN [c |-> -1, r |-> r]
  ELSE IF r.ungot # 0 THEN [c |-> r.ungot, r |-> [r EXCEPT !.ungot = 0]]
  ELSE IF junk >= 0 \/ r.pos < 0
  THEN [c |-> IF junk >= 0 THEN junk ELSE 0, r |-> [r EXCEPT !.stray = TRUE]]
  ELSE IF r.pos < Len(Contents) THEN [c |-> Contents[r.pos + 1], r |-> [r EXCEPT !.pos = @ + 1]]
  ELSE [c |-> -1, r |-> [r EXCEPT !.flags = @ \cup {"EOF"}]]

\* fread of n bytes: one by fgetc, the others with a single read, which may fail.
Fread(r, n, junk) ==
  LET first == Fgetc(r, junk)
      rest == Len(Contents) - first.r.pos
      more == IF n - 1 <= rest THEN n - 1 ELSE rest
  IN IF first.c < 0 THEN [n |-> 0, r |-> first.r]
     ELSE IF junk >= 0 \/ first.r.pos < 0 THEN [n |-> 0, r |-> [first.r EXCEPT !.stray = TRUE]]
     ELSE [n |-> 1 + more, r |-> [first.r EXCEPT !.pos = @ + more]]

\* fgets with a buffer of n bytes: it stops behind a line end, 10 or 13.
Fgets(r, n, junk) ==
  LET line[k \in 0 .. n - 1] ==
        IF k = 0 THEN [c |-> 0, n |-> 0, r |-> r]
        ELSE LET before == line[k - 1] g == Fgetc(before.r, junk)
             IN IF before.c \in {10, 13, -1} THEN before
                ELSE [c |-> g.c, n |-> IF g.c < 0 THEN before.n ELSE before.n + 1, r |-> g.r]
  IN line[n - 1]

\* The stream s is as r says now, and the program has read n bytes more.
Becomes(s, r, n) ==
  /\ blk' = [blk EXCEPT ![s].flags = r.flags, ![s].ungot = r.ungot]
  /\ desc' = [desc EXCEPT ![blk[s].fd] = r.pos]
  /\ odd' = (IF r.stray THEN odd \cup {s} ELSE odd)
              \cup (IF r.pos # desc[blk[s].fd] THEN Sharing(blk[s].fd, s) ELSE {})
  /\ at' = Known([at EXCEPT ![s] = @ + n])
  /\ UNCHANGED lost

Junk == {-1, 1}     \* no failure, or the byte that was in the buffer

FgetcCalled ==
  \E s \in Streams, junk \in Junk :
    LET g == Fgetc(Reader(s), junk)
    IN /\ FromFile(s) /\ s \notin odd
       /\ Becomes(s, g.r, IF g.c < 0 THEN 0 ELSE 1)
       /\ got' = IF g.r.stray THEN -1 ELSE g.c

FreadCalled ==
  \E s \in Streams, junk \in Junk, n \in 2 .. 3 :
    LET f == Fread(Reader(s), n, junk)
    IN FromFile(s) /\ s \notin odd /\ Becomes(s, f.r, f.n) /\ got' = -1

FgetsCalled ==
  \E s \in Streams, junk \in Junk, n \in 2 .. 3 :
    LET f == Fgets(Reader(s), n, junk)
    IN FromFile(s) /\ s \notin odd /\ Becomes(s, f.r, f.n) /\ got' = IF f.r.stray THEN -1 ELSE f.c

\* The program pushes back the byte it has just read. A byte 0 is not seen.
Ungetc ==
  \E s \in Streams :
    /\ FromFile(s) /\ s \notin odd /\ at[s] \in 1 .. Len(Contents) /\ got = Contents[at[s]]
    /\ blk[s].flags \cap {"EOF", "WRITE"} = {} /\ blk[s].ungot = 0
    /\ blk' = [blk EXCEPT ![s].ungot = got]
    /\ odd' = IF got = 0 THEN odd \cup {s} ELSE odd
    /\ at' = Known([at EXCEPT ![s] = @ - 1])
    /\ got' = -1
    /\ UNCHANGED <<desc, lost>>

\* Where lseek leaves the position.
Lseek(fd, to, fails) == IF fails \/ ~Open(fd) THEN desc[fd] ELSE to

\* fseek takes every answer of lseek for success, because the one for an error
\* is 0xffffff and not -1, and it keeps a byte that was pushed back.
Fseek ==
  \E s \in Streams, to \in Seeks, fails \in BOOLEAN :
    /\ FromFile(s) /\ s \notin odd
    /\ LET fd == blk[s].fd
           moved == Lseek(fd, to, fails)
       IN /\ desc' = [desc EXCEPT ![fd] = moved]
          /\ blk' = [blk EXCEPT ![s].flags = @ \ {"EOF"}]
          /\ odd' = (IF moved # to \/ blk[s].ungot # 0 THEN odd \cup {s} ELSE odd)
                      \cup (IF moved # desc[fd] THEN Sharing(fd, s) ELSE {})
          /\ at' = Known([at EXCEPT ![s] = to])
    /\ got' = -1
    /\ UNCHANGED lost

StdioInit ==
  /\ blk = [s \in Streams |-> IF s = 0 THEN Fresh0({"USE", "WRITE", "SYSTEM"}, 0) ELSE Fresh0({}, 0)]
  /\ desc = [fd \in Fds |-> -1]
  /\ at = [s \in Streams |-> 0]
  /\ odd = {} /\ lost = {} /\ got = -1

StdioNext == \/ Fopen \/ FreopenCalled \/ Fdopen \/ Fclose \/ Closeall
             \/ FgetcCalled \/ FreadCalled \/ FgetsCalled \/ Ungetc \/ Fseek

StdioSpec == StdioInit /\ [][StdioNext]_stdioVars

(* Properties. *)

\* Reading, pushing back and seeking in any order, every stream delivers the
\* bytes of the file one after the other: position and pushed-back byte together
\* are where the program thinks it is, and EOF is only reported at the end of the
\* file or behind it. The exceptions are what odd collects: a 0 that was pushed
\* back, a byte pushed back before a seek, a seek or read that failed, and a
\* shared descriptor.
StdioInOrder ==
  \A s \in Streams : FromFile(s) /\ s \notin odd /\ "READ" \in blk[s].flags =>
    /\ Open(blk[s].fd)
    /\ at[s] = desc[blk[s].fd] - (IF blk[s].ungot # 0 THEN 1 ELSE 0)
    /\ blk[s].ungot # 0 => blk[s].ungot = Contents[at[s] + 1]
    /\ "EOF" \in blk[s].flags => at[s] >= Len(Contents)

\* No descriptor is lost and none is held by accident: an open descriptor
\* belongs to a stream, unless freopen has forgotten it, and a stream has an
\* open one, unless the descriptor was closed through another stream.
StdioFdsHeld ==
  /\ \A fd \in Fds : Open(fd) => fd \in lost \/ \E s \in Streams : FromFile(s) /\ blk[s].fd = fd
  /\ \A s \in Streams : FromFile(s) /\ s \notin odd => Open(blk[s].fd)
  /\ \A s, t \in Streams : s # t /\ FromFile(s) /\ FromFile(t) /\ {s, t} \cap odd = {}
       /\ "TEXT" \in blk[s].flags \cap blk[t].flags => blk[s].fd # blk[t].fd
====
