--------------------------- MODULE ProgramProofs ---------------------------
(***************************************************************************)
(* Proofs about the C library and the programs on it, for every value of   *)
(* the constants.  Threads: who sleeps is on the list that the next sem_post*)
(* wakes.  Streams: readers and writers of one file get and leave its bytes*)
(* in order, and descriptors are held once.  Games: Snake keeps a whole    *)
(* snake on grids of every size; Tetris keeps its pieces whole on every    *)
(* board and with pieces of every shape; the counters of Mines agree with  *)
(* every board.                                                            *)
(***************************************************************************)
EXTENDS Threads, Stdio, Snake, Tetris, Mines, TLAPS, FiniteSetTheorems, WellFoundedInduction

(* Numbers. *)

\* A set of numbers has a lowest.
LEMMA Lowest ==
  ASSUME NEW S \in SUBSET Nat, S # {}
  PROVE  \E n \in S : \A m \in S : n <= m
<1>1. PICK n \in S : \A m \in S : ~(<<m, n>> \in OpToRel(<, Nat))
  BY WFMin, NatLessThanWellFounded
<1>2. OpToRel(<, Nat) = {ss \in Nat \X Nat : ss[1] < ss[2]}
  BY Zenon DEF OpToRel
<1>3. \A m \in S : ~(m < n)
  <2> SUFFICES ASSUME NEW m \in S, m < n PROVE FALSE
    OBVIOUS
  <2>1. <<m, n>> \in {ss \in Nat \X Nat : ss[1] < ss[2]}
    OBVIOUS
  <2>2. QED
    BY <1>1, <1>2, <2>1, Zenon
<1>4. QED
  BY <1>3

\* What holds of 0, and of i + 1 when it holds of i, holds up to k; the numbers
\* of which it holds are given as a set.
LEMMA UpTo ==
  ASSUME NEW k \in Nat, NEW S, 0 \in S, \A i \in 0 .. k - 1 : i \in S => i + 1 \in S
  PROVE  \A i \in 0 .. k : i \in S
<1> DEFINE Out == {i \in 0 .. k : i \notin S}
<1>1. SUFFICES ASSUME Out # {} PROVE FALSE
  OBVIOUS
<1>2. PICK n \in Out : \A m \in Out : n <= m
  <2>1. Out \in SUBSET Nat
    OBVIOUS
  <2>2. QED
    BY <1>1, <2>1, Lowest
<1>3. n \in 0 .. k /\ n # 0 /\ n \notin S
  BY <1>2
<1>4. n - 1 \in 0 .. k - 1 /\ n - 1 \in 0 .. k /\ n - 1 + 1 = n /\ ~(n <= n - 1)
  BY <1>3
<1>5. n - 1 \in S
  BY <1>2, <1>4
<1>6. QED
  BY <1>3, <1>4, <1>5

----------------------------------------------------------------------------
(* Threads. *)

\* What the proof needs of the types: flags are sets of bit numbers, and the
\* semaphore counts.
ThreadsTyped == flags \in [Slots -> SUBSET Int] /\ sem.value \in Nat

ThreadsIInv == ThreadsTyped /\ SleepersListed

\* A slot without a former owner starts without flags: the bits of 0.
LEMMA NoBits == SLEEP \notin BitsOf(0)
BY DEF SLEEP, BitsOf

LEMMA InitIInv ==
  ASSUME ThreadsInit
  PROVE  ThreadsIInv
BY DEF ThreadsInit, ThreadsIInv, ThreadsTyped, SleepersListed, Used, USED

\* A tick changes no flag and no semaphore.
LEMMA TickIInv ==
  ASSUME ThreadsIInv, Tick \/ UNCHANGED threadVars
  PROVE  ThreadsIInv'
BY DEF Tick, threadVars, ThreadsIInv, ThreadsTyped, SleepersListed, Used, Asleep

\* Slot 0 is awake when the manager starts.
LEMMA StartIInv ==
  ASSUME ThreadsIInv, ThreadManagerStart
  PROVE  ThreadsIInv'
<1>1. /\ flags' = [flags EXCEPT ![0] = {USED, SYSTEM}] /\ sem' = sem /\ reused' = reused
      /\ ThreadsTyped /\ SleepersListed
  BY DEF ThreadsIInv, ThreadManagerStart
<1>2. ThreadsTyped'
  <2>1. {USED, SYSTEM} \in SUBSET Int
    BY DEF USED, SYSTEM
  <2>2. QED
    BY <1>1, <2>1 DEF ThreadsTyped
<1>3. \A t \in Slots : flags'[t] = IF t = 0 THEN {USED, SYSTEM} ELSE flags[t]
  BY <1>1 DEF ThreadsTyped
<1>4. SLEEP \notin {USED, SYSTEM}
  BY DEF SLEEP, USED, SYSTEM
<1>5. SleepersListed'
  BY <1>1, <1>3, <1>4 DEF SleepersListed, Used, Asleep
<1>6. QED
  BY <1>2, <1>5 DEF ThreadsIInv

\* A new thread is asleep only by the number of the slot it takes over.
LEMMA CreateIInv ==
  ASSUME ThreadsIInv, ThreadCreate
  PROVE  ThreadsIInv'
<1>1. PICK t \in Slots :
        /\ flags' = [flags EXCEPT ![t] = BitsOf(IF context[t] = "none" THEN 0 ELSE t) \cup {USED}]
        /\ reused' = IF context[t] = "none" THEN reused ELSE reused \cup {t}
  BY DEF ThreadCreate
<1>2. sem' = sem /\ ThreadsTyped /\ SleepersListed
  BY DEF ThreadCreate, ThreadsIInv
<1>3. \A byte : BitsOf(byte) \in SUBSET Int
  BY DEF BitsOf
<1>4. ThreadsTyped'
  BY <1>1, <1>2, <1>3 DEF ThreadsTyped, USED
<1>5. \A u \in Slots \ {t} : flags'[u] = flags[u]
  BY <1>1, <1>2 DEF ThreadsTyped
<1>6. flags'[t] = BitsOf(IF context[t] = "none" THEN 0 ELSE t) \cup {USED}
  BY <1>1, <1>2 DEF ThreadsTyped
<1>7. SLEEP \in flags'[t] => t \in reused' /\ SLEEP \in BitsOf(t)
  <2>1. SLEEP # USED
    BY DEF SLEEP, USED
  <2>2. CASE context[t] = "none"
    BY <1>6, <2>1, <2>2, NoBits
  <2>3. CASE context[t] # "none"
    BY <1>1, <1>6, <2>1, <2>3
  <2>4. QED
    BY <2>2, <2>3
<1>8. SleepersListed'
  <2>1. SUFFICES ASSUME NEW u \in Slots, Used(u)', Asleep(u)'
                 PROVE  u \in sem.waiters \/ (u \in reused' /\ SLEEP \in BitsOf(u))
    BY <1>2 DEF SleepersListed
  <2>2. CASE u = t
    BY <1>7, <2>1, <2>2 DEF Asleep
  <2>3. CASE u # t
    BY <1>1, <1>2, <1>5, <2>1, <2>3 DEF SleepersListed, Used, Asleep
  <2>4. QED
    BY <2>2, <2>3
<1>9. QED
  BY <1>4, <1>8 DEF ThreadsIInv

\* A thread that leaves gives up its slot and wakes nobody.
LEMMA ExitIInv ==
  ASSUME ThreadsIInv, ThreadExit
  PROVE  ThreadsIInv'
<1>1. /\ flags' = [flags EXCEPT ![cpu.current] = @ \ {USED}] /\ sem' = sem /\ reused' = reused
      /\ ThreadsTyped /\ SleepersListed
  BY DEF ThreadsIInv, ThreadExit
<1>2. ThreadsTyped'
  BY <1>1 DEF ThreadsTyped
<1>3. \A t \in Slots : flags'[t] \subseteq flags[t]
  BY <1>1 DEF ThreadsTyped
<1>4. SleepersListed'
  BY <1>1, <1>3 DEF SleepersListed, Used, Asleep
<1>5. QED
  BY <1>2, <1>4 DEF ThreadsIInv

\* A thread falls asleep only when it has put itself on the list, and only
\* while the semaphore is 0.
LEMMA WaitIInv ==
  ASSUME ThreadsIInv, SemWait
  PROVE  ThreadsIInv'
<1>1. ThreadsTyped /\ SleepersListed /\ reused' = reused
  BY DEF ThreadsIInv, SemWait
<1>2. CASE Take
  <2>1. /\ sem.value > 0 /\ sem'.value = sem.value - 1 /\ sem'.waiters = sem.waiters
        /\ flags' = flags
    BY <1>2 DEF Take
  <2>2. ThreadsTyped' /\ SleepersListed'
    BY <1>1, <2>1 DEF ThreadsTyped, SleepersListed, Used, Asleep
  <2>3. QED
    BY <2>2 DEF ThreadsIInv
<1>3. CASE Register
  <2>1. /\ sem.value = 0 /\ sem'.value = 0 /\ sem'.waiters = sem.waiters \cup {cpu.current}
        /\ flags' = [flags EXCEPT ![cpu.current] = @ \cup {SLEEP}]
    BY <1>3 DEF Register
  <2>2. ThreadsTyped'
    <3>1. cpu.current \in Slots => flags[cpu.current] \cup {SLEEP} \in SUBSET Int
      BY <1>1 DEF ThreadsTyped, SLEEP
    <3>2. QED
      BY <1>1, <2>1, <3>1 DEF ThreadsTyped
  <2>3. \A t \in Slots : flags'[t] = IF t = cpu.current THEN flags[t] \cup {SLEEP} ELSE flags[t]
    BY <1>1, <2>1 DEF ThreadsTyped
  <2>4. SleepersListed'
    BY <1>1, <2>1, <2>3 DEF SleepersListed, Used, Asleep
  <2>5. QED
    BY <2>2, <2>4 DEF ThreadsIInv
<1>4. QED
  BY <1>2, <1>3 DEF SemWait

\* The list is emptied when, and only when, all on it wake.
LEMMA PostIInv ==
  ASSUME ThreadsIInv, SemPost
  PROVE  ThreadsIInv'
<1>1. /\ sem'.value = sem.value + 1 /\ sem'.waiters = {} /\ flags' = Woken(flags)
      /\ reused' = reused /\ ThreadsTyped /\ SleepersListed
  BY DEF ThreadsIInv, SemPost
<1>2. \A t \in Slots : flags'[t] = IF t \in sem.waiters THEN flags[t] \ {SLEEP} ELSE flags[t]
  BY <1>1 DEF Woken
<1>3. ThreadsTyped'
  BY <1>1 DEF ThreadsTyped, Woken
<1>4. SleepersListed'
  BY <1>1, <1>2 DEF SleepersListed, Used, Asleep
<1>5. QED
  BY <1>3, <1>4 DEF ThreadsIInv

\* Between any two calls and ticks, with any number of threads: a thread that
\* sleeps is one the next sem_post wakes, but for those that thread_create made
\* out of an odd slot with a former owner, and a semaphore that could be taken
\* has no waiters.
THEOREM SleepersListedHolds == ThreadsSpec => []SleepersListed
<1>1. ThreadsInit => ThreadsIInv
  BY InitIInv
<1>2. ThreadsIInv /\ [ThreadsNext]_threadVars => ThreadsIInv'
  BY TickIInv, StartIInv, CreateIInv, ExitIInv, WaitIInv, PostIInv DEF ThreadsNext
<1>3. ThreadsIInv => SleepersListed
  BY DEF ThreadsIInv
<1>4. QED
  BY <1>1, <1>2, <1>3, PTL DEF ThreadsSpec



----------------------------------------------------------------------------
(* Streams of the C library. *)

Marks == {"USE", "READ", "WRITE", "TEXT", "SYSTEM", "EOF"}
Byte == 0 .. 255
Positions == Nat \cup {-1}
Readers == [flags : SUBSET Marks, ungot : Byte, pos : Positions, stray : BOOLEAN]

\* The reader r delivers the byte a of the file next.
Ordered(a, r) ==
  /\ a \in Nat /\ r.pos \in Nat
  /\ a = r.pos - (IF r.ungot # 0 THEN 1 ELSE 0)
  /\ r.ungot # 0 => a < Len(Contents) /\ r.ungot = Contents[a + 1]
  /\ "EOF" \in r.flags => a >= Len(Contents)

\* r has become q, and the program has been given n bytes.
Gives(r, q, n) ==
  /\ q \in Readers /\ n \in Int
  /\ q.flags \in {r.flags, r.flags \cup {"EOF"}}
  /\ r.pos \in Nat => q.pos \in Nat
  /\ r.stray => q.stray
  /\ \A a \in Nat : Ordered(a, r) /\ ~q.stray => Ordered(a + n, q)

LEMMA TheContents == Len(Contents) \in Nat /\ \A i \in 1 .. Len(Contents) : Contents[i] \in Byte
<1>1. Contents \in Seq(0 .. 255)
  BY StdioFits
<1>2. Len(Contents) \in Nat
  BY <1>1
<1>3. ASSUME NEW i \in 1 .. Len(Contents) PROVE Contents[i] \in 0 .. 255
  <2>1. PICK S : S = 0 .. 255
    OBVIOUS
  <2>2. Contents \in Seq(S)
    BY <1>1, <2>1
  <2>3. Contents[i] \in S
    BY <2>2
  <2>4. QED
    BY <2>1, <2>3
<1>4. QED
  BY <1>2, <1>3 DEF Byte

\* A reader that takes nothing gives nothing.
LEMMA GivesNothing ==
  ASSUME NEW r \in Readers
  PROVE  Gives(r, r, 0)
<1>1. \A a \in Nat : a + 0 = a
  OBVIOUS
<1>2. QED
  BY <1>1 DEF Gives

\* What two reads in turn give is given by both together.
LEMMA GivesMore ==
  ASSUME NEW r \in Readers, NEW q, NEW p, NEW n, NEW m, Gives(r, q, n), Gives(q, p, m)
  PROVE  Gives(r, p, n + m)
<1>1. /\ p \in Readers /\ n + m \in Int /\ n \in Int /\ m \in Int /\ q \in Readers
      /\ p.flags \in {r.flags, r.flags \cup {"EOF"}}
      /\ r.pos \in Nat => p.pos \in Nat
      /\ r.stray => p.stray
      /\ q.stray => p.stray
  BY DEF Gives
<1>2. ASSUME NEW a \in Nat, Ordered(a, r), ~p.stray
      PROVE  Ordered(a + (n + m), p)
  <2>1. ~q.stray
    BY <1>2 DEF Gives
  <2>2. Ordered(a + n, q)
    BY <1>2, <2>1 DEF Gives
  <2>3. a + n \in Nat
    BY <2>2 DEF Ordered
  <2>4. Ordered((a + n) + m, p)
    BY <1>2, <2>2, <2>3 DEF Gives
  <2>5. (a + n) + m = a + (n + m)
    BY <1>1
  <2>6. QED
    BY <2>4, <2>5
<1>3. QED
  BY <1>1, <1>2 DEF Gives

\* The cases of fgetc, one by one: g has the byte and what the reader becomes.
Refuses(r, g) == g.c = -1 /\ g.r = r
PushedBack(r, g) == r.ungot # 0 /\ g.c = r.ungot /\ g.r = [r EXCEPT !.ungot = 0] /\ "EOF" \notin r.flags
Strays(r, g) == g.c \in Byte /\ g.r = [r EXCEPT !.stray = TRUE] /\ r.ungot = 0
Takes(r, g) == /\ r.ungot = 0 /\ r.pos \in Nat /\ r.pos < Len(Contents) /\ "EOF" \notin r.flags
               /\ g.c = Contents[r.pos + 1] /\ g.r = [r EXCEPT !.pos = r.pos + 1]
Ends(r, g) == /\ r.ungot = 0 /\ r.pos \in Nat /\ r.pos >= Len(Contents)
              /\ g.c = -1 /\ g.r = [r EXCEPT !.flags = r.flags \cup {"EOF"}]

\* The five ways out of fgetc.
LEMMA FgetcCases ==
  ASSUME NEW r \in Readers, NEW junk \in Junk, NEW g, g = Fgetc(r, junk)
  PROVE  Refuses(r, g) \/ PushedBack(r, g) \/ Strays(r, g) \/ Takes(r, g) \/ Ends(r, g)
<1>1. junk \in {-1, 1} /\ r.ungot \in Byte /\ r.pos \in Positions /\ Len(Contents) \in Nat
  BY TheContents DEF Junk, Readers
<1>2. CASE r.flags \cap {"WRITE", "EOF"} # {} \/ r.flags = {}
  <2>1. g = [c |-> -1, r |-> r]
    BY <1>2 DEF Fgetc
  <2>2. QED
    BY <2>1 DEF Refuses
<1>3. CASE ~(r.flags \cap {"WRITE", "EOF"} # {} \/ r.flags = {}) /\ r.ungot # 0
  <2>1. g = [c |-> r.ungot, r |-> [r EXCEPT !.ungot = 0]]
    BY <1>3 DEF Fgetc
  <2>2. QED
    BY <1>3, <2>1 DEF PushedBack
<1>4. CASE /\ ~(r.flags \cap {"WRITE", "EOF"} # {} \/ r.flags = {})
           /\ ~(r.ungot # 0) /\ (junk >= 0 \/ r.pos < 0)
  <2>1. g = [c |-> IF junk >= 0 THEN junk ELSE 0, r |-> [r EXCEPT !.stray = TRUE]]
    BY <1>4 DEF Fgetc
  <2>2. (IF junk >= 0 THEN junk ELSE 0) \in Byte
    BY <1>1 DEF Byte
  <2>3. QED
    BY <1>4, <2>1, <2>2 DEF Strays
<1>5. CASE /\ ~(r.flags \cap {"WRITE", "EOF"} # {} \/ r.flags = {})
           /\ ~(r.ungot # 0) /\ ~(junk >= 0 \/ r.pos < 0) /\ r.pos < Len(Contents)
  <2>1. g = [c |-> Contents[r.pos + 1], r |-> [r EXCEPT !.pos = @ + 1]]
    BY <1>5 DEF Fgetc
  <2>2. r.pos \in Nat /\ "EOF" \notin r.flags
    BY <1>1, <1>5 DEF Positions
  <2>3. QED
    BY <1>5, <2>1, <2>2 DEF Takes
<1>6. CASE /\ ~(r.flags \cap {"WRITE", "EOF"} # {} \/ r.flags = {})
           /\ ~(r.ungot # 0) /\ ~(junk >= 0 \/ r.pos < 0) /\ ~(r.pos < Len(Contents))
  <2>1. g = [c |-> -1, r |-> [r EXCEPT !.flags = @ \cup {"EOF"}]]
    BY <1>6 DEF Fgetc
  <2>2. r.pos \in Nat /\ r.pos >= Len(Contents)
    BY <1>1, <1>6 DEF Positions
  <2>3. QED
    BY <1>6, <2>1, <2>2 DEF Ends
<1>7. QED
  BY <1>2, <1>3, <1>4, <1>5, <1>6

\* fgetc keeps the order, and a byte it has given was the last one pushed back.
LEMMA FgetcGives ==
  ASSUME NEW r \in Readers, NEW junk \in Junk, NEW g, g = Fgetc(r, junk)
  PROVE  /\ g.c \in -1 .. 255 /\ Gives(r, g.r, IF g.c < 0 THEN 0 ELSE 1)
         /\ g.c >= 0 => g.r.ungot = 0 /\ (~g.r.stray => "EOF" \notin g.r.flags)
<1>1. CASE Refuses(r, g)
  BY <1>1, GivesNothing DEF Refuses
<1>2. CASE PushedBack(r, g)
  <2>1. g.c \in Byte /\ g.c >= 0 /\ g.r = [r EXCEPT !.ungot = 0] /\ g.r.ungot = 0 /\ "EOF" \notin g.r.flags
    BY <1>2 DEF PushedBack, Byte, Readers
  <2>2. g.r \in Readers /\ g.r.flags = r.flags /\ g.r.pos = r.pos /\ g.r.stray = r.stray
    BY <2>1 DEF Readers, Byte
  <2>3. ASSUME NEW a \in Nat, Ordered(a, r) PROVE Ordered(a + 1, g.r)
    <3>1. a = r.pos - 1 /\ r.pos \in Nat
      BY <1>2, <2>3 DEF Ordered, PushedBack
    <3>2. a + 1 = r.pos
      BY <3>1
    <3>3. QED
      BY <2>1, <2>2, <3>1, <3>2 DEF Ordered
  <2>4. Gives(r, g.r, 1)
    BY <2>2, <2>3 DEF Gives
  <2>5. QED
    BY <2>1, <2>4 DEF Byte
<1>3. CASE Strays(r, g)
  <2>1. g.c \in Byte /\ g.c >= 0 /\ g.r = [r EXCEPT !.stray = TRUE] /\ g.r.ungot = 0 /\ g.r.stray
    BY <1>3 DEF Strays, Byte, Readers
  <2>2. g.r \in Readers /\ g.r.flags = r.flags /\ g.r.pos = r.pos
    BY <2>1 DEF Readers
  <2>3. Gives(r, g.r, 1)
    BY <2>1, <2>2 DEF Gives
  <2>4. QED
    BY <2>1, <2>3 DEF Byte
<1>4. CASE Takes(r, g)
  <2>1. /\ g.c \in Byte /\ g.r = [r EXCEPT !.pos = r.pos + 1] /\ r.pos \in Nat
        /\ "EOF" \notin r.flags /\ r.ungot = 0
    BY <1>4, TheContents DEF Takes
  <2>2. /\ g.r \in Readers /\ g.r.flags = r.flags /\ g.r.pos = r.pos + 1 /\ g.r.stray = r.stray
        /\ g.r.ungot = 0 /\ g.r.pos \in Nat
    BY <2>1 DEF Readers, Positions
  <2>3. ASSUME NEW a \in Nat, Ordered(a, r) PROVE Ordered(a + 1, g.r)
    BY <2>1, <2>2, <2>3 DEF Ordered
  <2>4. Gives(r, g.r, 1)
    BY <2>2, <2>3 DEF Gives
  <2>5. g.c >= 0
    BY <2>1 DEF Byte
  <2>6. QED
    BY <2>1, <2>2, <2>4, <2>5 DEF Byte
<1>5. CASE Ends(r, g)
  <2>1. g.c = -1 /\ g.r = [r EXCEPT !.flags = r.flags \cup {"EOF"}] /\ r.ungot = 0 /\ r.pos \in Nat
    BY <1>5 DEF Ends
  <2>2. /\ g.r \in Readers /\ g.r.flags = r.flags \cup {"EOF"} /\ g.r.pos = r.pos /\ g.r.stray = r.stray
        /\ g.r.ungot = 0
    BY <2>1 DEF Readers, Marks
  <2>3. ASSUME NEW a \in Nat, Ordered(a, r) PROVE Ordered(a + 0, g.r)
    BY <1>5, <2>1, <2>2, <2>3, TheContents DEF Ordered, Ends
  <2>4. PICK q : q = g.r
    OBVIOUS
  <2>5. q \in Readers /\ q.flags = r.flags \cup {"EOF"} /\ q.pos = r.pos /\ q.stray = r.stray
    BY <2>2, <2>4
  <2>6. \A a \in Nat : Ordered(a, r) => Ordered(a + 0, q)
    BY <2>3, <2>4
  <2>7. Gives(r, q, 0)
    BY <2>5, <2>6 DEF Gives
  <2>8. QED
    BY <2>1, <2>4, <2>7
<1>6. QED
  BY <1>1, <1>2, <1>3, <1>4, <1>5, FgetcCases

\* fread gives the bytes it takes in the order of the file.
LEMMA FreadGives ==
  ASSUME NEW r \in Readers, NEW junk \in Junk, NEW n \in 2 .. 3, NEW f, f = Fread(r, n, junk)
  PROVE  Gives(r, f.r, f.n)
<1>1. PICK g : g = Fgetc(r, junk)
  OBVIOUS
<1> DEFINE rest == Len(Contents) - g.r.pos
           more == IF n - 1 <= rest THEN n - 1 ELSE rest
<1>2. /\ g.c \in -1 .. 255 /\ Gives(r, g.r, IF g.c < 0 THEN 0 ELSE 1)
      /\ g.c >= 0 => g.r.ungot = 0 /\ (~g.r.stray => "EOF" \notin g.r.flags)
  BY <1>1, FgetcGives
<1>3. g.r \in Readers
  BY <1>2 DEF Gives
<1>4. f = IF g.c < 0 THEN [n |-> 0, r |-> g.r]
          ELSE IF junk >= 0 \/ g.r.pos < 0 THEN [n |-> 0, r |-> [g.r EXCEPT !.stray = TRUE]]
          ELSE [n |-> 1 + more, r |-> [g.r EXCEPT !.pos = @ + more]]
  BY <1>1 DEF Fread
<1>5. CASE g.c < 0
  BY <1>2, <1>4, <1>5
<1>6. CASE ~(g.c < 0) /\ (junk >= 0 \/ g.r.pos < 0)
  <2>1. f.n = 0 /\ f.r = [g.r EXCEPT !.stray = TRUE]
    BY <1>4, <1>6
  <2>2. PICK q : q = f.r
    OBVIOUS
  <2>3. q \in Readers /\ q.flags = g.r.flags /\ q.pos = g.r.pos /\ q.stray
    BY <1>3, <2>1, <2>2 DEF Readers
  <2>4. q.flags \in {r.flags, r.flags \cup {"EOF"}} /\ (r.pos \in Nat => q.pos \in Nat)
    BY <1>2, <2>3 DEF Gives
  <2>5. Gives(r, q, 0)
    BY <2>3, <2>4 DEF Gives
  <2>6. QED
    BY <2>1, <2>2, <2>5
<1>7. CASE ~(g.c < 0) /\ ~(junk >= 0 \/ g.r.pos < 0)
  <2>1. f.n = 1 + more /\ f.r = [g.r EXCEPT !.pos = g.r.pos + more]
    BY <1>4, <1>7
  <2>2. g.r.pos \in Nat /\ g.r.pos + more \in Nat /\ more \in Int
    BY <1>3, <1>7, TheContents DEF Readers, Positions
  <2>3. PICK m \in Int : m = more
    BY <2>2
  <2>4. PICK q : q = f.r
    OBVIOUS
  <2>5. /\ q \in Readers /\ q.flags = g.r.flags /\ q.pos = g.r.pos + m /\ q.ungot = g.r.ungot
        /\ q.stray = g.r.stray /\ q.pos \in Nat
    BY <1>3, <2>1, <2>2, <2>3, <2>4 DEF Readers, Positions
  <2>6. g.r.ungot = 0 /\ (~g.r.stray => "EOF" \notin g.r.flags)
    BY <1>2, <1>7
  <2>7. ASSUME NEW a \in Nat, Ordered(a, g.r), ~q.stray
        PROVE  Ordered(a + m, q)
    <3>1. a = g.r.pos
      BY <2>6, <2>7 DEF Ordered
    <3>2. a + m = q.pos /\ a + m \in Nat
      BY <2>5, <3>1
    <3>3. "EOF" \notin q.flags /\ q.ungot = 0
      BY <2>5, <2>6, <2>7
    <3>4. QED
      BY <2>5, <3>2, <3>3 DEF Ordered
  <2>8. Gives(g.r, q, m)
    BY <2>3, <2>5, <2>7 DEF Gives
  <2>9. Gives(r, g.r, 1)
    BY <1>2, <1>7
  <2>10. Gives(r, q, 1 + m)
    BY <1>3, <2>8, <2>9, GivesMore
  <2>11. QED
    BY <2>1, <2>3, <2>4, <2>10
<1>8. QED
  BY <1>5, <1>6, <1>7

\* One turn of the loop of fgets, and the values of all its turns.
Turn(l, junk) ==
  LET g == Fgetc(l.r, junk)
  IN IF l.c \in {10, 13, -1} THEN l
     ELSE [c |-> g.c, n |-> IF g.c < 0 THEN l.n ELSE l.n + 1, r |-> g.r]
Lines(q, r, junk, n) ==
  q = [k \in 0 .. n |-> IF k = 0 THEN [c |-> 0, n |-> 0, r |-> r]
                            ELSE LET before == q[k - 1] g == Fgetc(before.r, junk)
                                 IN IF before.c \in {10, 13, -1} THEN before
                                    ELSE [c |-> g.c, n |-> IF g.c < 0 THEN before.n ELSE before.n + 1, r |-> g.r]]

\* The recursive definition of the reads of fgets has a solution.
LEMMA LinesExist ==
  ASSUME NEW r, NEW junk, NEW n \in Nat
  PROVE  \E q : Lines(q, r, junk, n)
<1> DEFINE Start == [c |-> 0, n |-> 0, r |-> r]
           Good == {i \in 0 .. n : \E q : q = [k \in 0 .. i |-> IF k = 0 THEN Start ELSE Turn(q[k - 1], junk)]}
<1>1. 0 \in Good
  <2>1. PICK q : q = [k \in 0 .. 0 |-> Start]
    OBVIOUS
  <2>2. \A k \in 0 .. 0 : k = 0
    OBVIOUS
  <2>3. q = [k \in 0 .. 0 |-> IF k = 0 THEN Start ELSE Turn(q[k - 1], junk)]
    BY <2>1, <2>2, Zenon
  <2>4. 0 \in 0 .. n
    OBVIOUS
  <2>5. QED
    BY <2>3, <2>4
<1>2. ASSUME NEW i \in 0 .. n - 1, i \in Good
      PROVE  i + 1 \in Good
  <2> DEFINE T(x) == Turn(x, junk)
  <2>1. PICK q : q = [k \in 0 .. i |-> IF k = 0 THEN Start ELSE T(q[k - 1])]
    BY <1>2
  <2> DEFINE p == [k \in 0 .. i + 1 |-> IF k = 0 THEN Start ELSE T(q[k - 1])]
  <2> HIDE DEF T, Start
  <2>2. i + 1 \in 0 .. n /\ i \in Nat
    OBVIOUS
  <2>3. \A k \in 0 .. i : p[k] = q[k]
    BY <2>1, <2>2
  <2>4. \A k \in 0 .. i + 1 : k # 0 => k - 1 \in 0 .. i
    BY <2>2
  <2>5. p = [k \in 0 .. i + 1 |-> IF k = 0 THEN Start ELSE T(p[k - 1])]
    BY <2>3, <2>4
  <2>6. p = [k \in 0 .. i + 1 |-> IF k = 0 THEN Start ELSE Turn(p[k - 1], junk)]
    BY <2>5 DEF T
  <2>7. QED
    BY <2>2, <2>6
<1>3. \A i \in 0 .. n : i \in Good
  <2> HIDE DEF Good
  <2>1. QED
    BY <1>1, <1>2, UpTo
<1>4. n \in Good
  BY <1>3
<1>5. QED
  BY <1>4 DEF Lines, Turn

\* fgets gives the bytes it takes in the order of the file.
LEMMA FgetsGives ==
  ASSUME NEW r \in Readers, NEW junk \in Junk, NEW n \in 2 .. 3, NEW f, f = Fgets(r, n, junk)
  PROVE  Gives(r, f.r, f.n) /\ f.c \in -1 .. 255
<1>1. PICK m \in Nat : m = n - 1
  OBVIOUS
<1>2. PICK q : q = CHOOSE l : Lines(l, r, junk, n - 1)
  OBVIOUS
<1>3. f = q[n - 1]
  BY <1>2, Zenon DEF Fgets, Lines
<1>4. Lines(q, r, junk, n - 1)
  <2>1. \E l : Lines(l, r, junk, n - 1)
    BY <1>1, LinesExist
  <2>2. QED
    BY <1>2, <2>1, Zenon
<1>5. q = [k \in 0 .. m |-> IF k = 0 THEN [c |-> 0, n |-> 0, r |-> r] ELSE Turn(q[k - 1], junk)]
  BY <1>1, <1>4 DEF Lines, Turn
<1> DEFINE Good == {k \in 0 .. m : q[k].c \in -1 .. 255 /\ Gives(r, q[k].r, q[k].n)}
<1>6. 0 \in Good
  <2>1. q[0] = [c |-> 0, n |-> 0, r |-> r]
    BY <1>5
  <2>2. QED
    BY <2>1, GivesNothing
<1>7. ASSUME NEW k \in 0 .. m - 1, k \in Good
      PROVE  k + 1 \in Good
  <2>1. k + 1 \in 0 .. m /\ k + 1 # 0 /\ k + 1 - 1 = k
    OBVIOUS
  <2>2. PICK l : l = q[k]
    OBVIOUS
  <2>3. q[k + 1] = Turn(l, junk)
    BY <1>5, <2>1, <2>2
  <2>4. l.c \in -1 .. 255 /\ Gives(r, l.r, l.n)
    BY <1>7, <2>2
  <2>5. l.r \in Readers /\ l.n \in Int
    BY <2>4 DEF Gives
  <2>6. PICK g : g = Fgetc(l.r, junk)
    OBVIOUS
  <2>7. g.c \in -1 .. 255 /\ Gives(l.r, g.r, IF g.c < 0 THEN 0 ELSE 1)
    BY <2>5, <2>6, FgetcGives
  <2>8. Gives(r, g.r, l.n + (IF g.c < 0 THEN 0 ELSE 1))
    BY <2>4, <2>7, GivesMore
  <2>9. Gives(r, g.r, IF g.c < 0 THEN l.n ELSE l.n + 1)
    <3>1. l.n + (IF g.c < 0 THEN 0 ELSE 1) = IF g.c < 0 THEN l.n ELSE l.n + 1
      BY <2>5, <2>7
    <3>2. QED
      BY <2>8, <3>1
  <2>10. q[k + 1] = IF l.c \in {10, 13, -1} THEN l
                    ELSE [c |-> g.c, n |-> IF g.c < 0 THEN l.n ELSE l.n + 1, r |-> g.r]
    BY <2>3, <2>6 DEF Turn
  <2>11. QED
    BY <2>1, <2>4, <2>7, <2>9, <2>10
<1>8. \A k \in 0 .. m : k \in Good
  <2> HIDE DEF Good
  <2>1. QED
    BY <1>6, <1>7, UpTo
<1>9. m \in Good
  BY <1>8
<1>10. QED
  BY <1>1, <1>3, <1>9

(* The invariant. *)

Entries == [flags : SUBSET Marks, fd : Fds, ungot : Byte]
StdioTyped ==
  /\ blk \in [Streams -> Entries] /\ desc \in [Fds -> Positions]
  /\ at \in [Streams -> Int] /\ odd \in SUBSET Streams /\ lost \in SUBSET Fds /\ got \in -1 .. 255

\* In order, and a byte that was pushed back is one of the file.
InLine(s) == FromFile(s) /\ s \notin odd /\ "READ" \in blk[s].flags => Ordered(at[s], Reader(s))

\* The parts of StdioFdsHeld, of a descriptor, of a stream and of two.
Kept(fd) == Open(fd) => fd \in lost \/ \E s \in Streams : FromFile(s) /\ blk[s].fd = fd
Usable(s) == FromFile(s) /\ s \notin odd => Open(blk[s].fd)
Apart(s, t) ==
  FromFile(s) /\ FromFile(t) /\ {s, t} \cap odd = {} /\ "TEXT" \in blk[s].flags \cap blk[t].flags
    => blk[s].fd # blk[t].fd

StdioIInv ==
  /\ StdioTyped
  /\ \A s \in Streams : InLine(s)
  /\ \A fd \in Fds : Kept(fd)
  /\ \A s \in Streams : Usable(s)
  /\ \A s, t \in Streams : s # t => Apart(s, t)

LEMMA StdioIInvImplies == StdioIInv => StdioInOrder /\ StdioFdsHeld
<1> SUFFICES ASSUME StdioIInv PROVE StdioInOrder /\ StdioFdsHeld
  OBVIOUS
<1>1. StdioFdsHeld
  BY DEF StdioIInv, StdioFdsHeld, Kept, Usable, Apart
<1>2. ASSUME NEW s \in Streams, FromFile(s), s \notin odd, "READ" \in blk[s].flags
      PROVE  /\ Open(blk[s].fd)
             /\ at[s] = desc[blk[s].fd] - (IF blk[s].ungot # 0 THEN 1 ELSE 0)
             /\ blk[s].ungot # 0 => blk[s].ungot = Contents[at[s] + 1]
             /\ "EOF" \in blk[s].flags => at[s] >= Len(Contents)
  <2>1. Ordered(at[s], Reader(s))
    BY <1>2 DEF StdioIInv, InLine
  <2>2. QED
    BY <2>1 DEF Ordered, Reader, Open
<1>3. QED
  BY <1>1, <1>2 DEF StdioInOrder

\* A step of the stream s that leaves the others alone, or disturbs them so that
\* they are odd.
Alone(s) ==
  /\ \A t \in Streams \ {s} :
       /\ blk'[t] = blk[t]
       /\ FromFile(t) /\ t \notin odd' =>
            t \notin odd /\ at'[t] = at[t] /\ desc'[blk[t].fd] = desc[blk[t].fd]

\* A step that works on one stream alone keeps what holds of the others.
LEMMA OthersKept ==
  ASSUME StdioIInv, NEW s \in Streams, Alone(s)
  PROVE  \A t \in Streams \ {s} : /\ InLine(t)' /\ Usable(t)'
                                  /\ \A u \in Streams \ {s} : t # u => Apart(t, u)'
<1>1. ASSUME NEW t \in Streams \ {s}
      PROVE  /\ FromFile(t)' <=> FromFile(t)
             /\ blk'[t] = blk[t]
             /\ FromFile(t) /\ t \notin odd' =>
                  t \notin odd /\ at'[t] = at[t] /\ desc'[blk[t].fd] = desc[blk[t].fd]
  BY <1>1 DEF Alone, FromFile
<1>2. ASSUME NEW t \in Streams \ {s} PROVE InLine(t)' /\ Usable(t)'
  <2>1. InLine(t) /\ Usable(t)
    BY DEF StdioIInv
  <2>2. InLine(t)'
    <3>1. SUFFICES ASSUME FromFile(t)', t \notin odd', "READ" \in blk'[t].flags
                   PROVE  Ordered(at'[t], Reader(t)')
      BY DEF InLine
    <3>2. Ordered(at[t], Reader(t)) /\ at'[t] = at[t]
      BY <1>1, <2>1, <3>1 DEF InLine
    <3>3. Reader(t)' = Reader(t)
      BY <1>1, <3>1 DEF Reader
    <3>4. QED
      BY <3>2, <3>3
  <2>3. Usable(t)'
    BY <1>1, <2>1 DEF Usable, Open
  <2>4. QED
    BY <2>2, <2>3
<1>3. ASSUME NEW t \in Streams \ {s}, NEW u \in Streams \ {s}, t # u
      PROVE  Apart(t, u)'
  <2>1. Apart(t, u)
    BY <1>3 DEF StdioIInv
  <2>2. SUFFICES ASSUME FromFile(t)', FromFile(u)', {t, u} \cap odd' = {}, "TEXT" \in blk'[t].flags \cap blk'[u].flags
                 PROVE  blk'[t].fd # blk'[u].fd
    BY DEF Apart
  <2>3. FromFile(t) /\ FromFile(u) /\ t \notin odd /\ u \notin odd /\ "TEXT" \in blk[t].flags \cap blk[u].flags
    BY <1>1, <2>2
  <2>4. blk[t].fd # blk[u].fd
    BY <2>1, <2>3 DEF Apart
  <2>5. QED
    BY <1>1, <2>4
<1>4. QED
  BY <1>2, <1>3

\* What is left to show of a step of the stream s.
LEMMA StreamStep ==
  ASSUME StdioIInv, NEW s \in Streams, Alone(s), StdioTyped', InLine(s)', Usable(s)',
         \A t \in Streams \ {s} : Apart(s, t)', \A fd \in Fds : Kept(fd)'
  PROVE  StdioIInv'
<1>1. \A t \in Streams \ {s} : /\ InLine(t)' /\ Usable(t)'
                               /\ \A u \in Streams \ {s} : t # u => Apart(t, u)'
  BY OthersKept
<1>2. \A t \in Streams : Apart(s, t)' => Apart(t, s)'
  BY DEF Apart
<1>3. QED
  BY <1>1, <1>2 DEF StdioIInv

LEMMA TheStreams == Streams \in SUBSET Nat /\ 0 \in Streams /\ \A s \in Streams : s < FOPEN_MAX
BY StdioFits DEF Streams

LEMMA StdioInitIInv == StdioInit => StdioIInv
<1> SUFFICES ASSUME StdioInit PROVE StdioIInv
  OBVIOUS
<1>1. \A s \in Streams : blk[s] = IF s = 0 THEN Fresh0({"USE", "WRITE", "SYSTEM"}, 0) ELSE Fresh0({}, 0)
  BY DEF StdioInit
<1>2. \A s \in Streams : blk[s] \in Entries /\ ~FromFile(s)
  <2> SUFFICES ASSUME NEW s \in Streams PROVE blk[s] \in Entries /\ ~FromFile(s)
    OBVIOUS
  <2>1. CASE s = 0
    <3>1. blk[s] = [flags |-> {"USE", "WRITE", "SYSTEM"}, fd |-> 0, ungot |-> 0]
      BY <1>1, <2>1 DEF Fresh0
    <3>2. QED
      BY <3>1, StdioFits DEF Entries, Marks, Byte, FromFile
  <2>2. CASE s # 0
    <3>1. blk[s] = [flags |-> {}, fd |-> 0, ungot |-> 0]
      BY <1>1, <2>2 DEF Fresh0
    <3>2. QED
      BY <3>1, StdioFits DEF Entries, Marks, Byte, FromFile
  <2>3. QED
    BY <2>1, <2>2
<1>3. StdioTyped
  <2>1. blk \in [Streams -> Entries]
    <3>1. blk = [s \in Streams |-> blk[s]]
      BY DEF StdioInit
    <3>2. QED
      BY <1>2, <3>1
  <2>2. QED
    BY <2>1 DEF StdioTyped, StdioInit, Positions
<1>4. \A fd \in Fds : ~Open(fd)
  BY DEF Open, StdioInit
<1>5. QED
  BY <1>2, <1>3, <1>4 DEF StdioIInv, InLine, Kept, Usable, Apart

(* The steps. *)

LEMMA FreopenKeeps ==
  ASSUME StdioIInv, NEW s \in Streams, Freopen(s)
  PROVE  StdioIInv'
<1>1. PICK mode \in {"r", "w"}, fd \in Fds :
        /\ ~Open(fd)
        /\ desc' = [desc EXCEPT ![fd] = 0]
        /\ blk' = [blk EXCEPT ![s] = Fresh0(FlagsOf(mode), fd)]
        /\ at' = [at EXCEPT ![s] = 0]
        /\ odd' = odd \ {s}
        /\ lost' = (IF FromFile(s) /\ Open(blk[s].fd) /\ Sharing(blk[s].fd, s) = {}
                    THEN lost \cup {blk[s].fd} ELSE lost) \ {fd}
        /\ got' = -1
  BY DEF Freopen
<1>2. /\ blk \in [Streams -> Entries] /\ desc \in [Fds -> Positions]
      /\ at \in [Streams -> Int] /\ odd \in SUBSET Streams /\ lost \in SUBSET Fds
  BY DEF StdioIInv, StdioTyped
<1>3. PICK new : new = Fresh0(FlagsOf(mode), fd)
  OBVIOUS
<1>4. /\ new \in Entries /\ new.fd = fd /\ new.ungot = 0
      /\ "USE" \in new.flags /\ "SYSTEM" \notin new.flags /\ "EOF" \notin new.flags
  BY <1>3 DEF Fresh0, FlagsOf, Entries, Marks, Byte
<1>5. /\ blk'[s] = new /\ desc'[fd] = 0 /\ at'[s] = 0
      /\ \A t \in Streams \ {s} : blk'[t] = blk[t] /\ at'[t] = at[t]
      /\ \A x \in Fds \ {fd} : desc'[x] = desc[x]
  BY <1>1, <1>2, <1>3
<1>6. StdioTyped'
  <2>1. blk' \in [Streams -> Entries]
    BY <1>1, <1>2, <1>3, <1>4
  <2>2. desc' \in [Fds -> Positions] /\ at' \in [Streams -> Int]
    BY <1>1, <1>2 DEF Positions
  <2>3. lost' \in SUBSET Fds
    BY <1>1, <1>2 DEF Entries
  <2>4. QED
    BY <1>1, <1>2, <2>1, <2>2, <2>3 DEF StdioTyped
<1>7. \A t \in Streams \ {s} : FromFile(t) /\ t \notin odd' => t \notin odd /\ blk[t].fd \in Fds \ {fd}
  BY <1>1, <1>2 DEF StdioIInv, Usable, Entries
<1>8. Alone(s)
  BY <1>5, <1>7 DEF Alone
<1>9. InLine(s)'
  <2>1. Ordered(at'[s], Reader(s)')
    BY <1>4, <1>5 DEF Ordered, Reader
  <2>2. QED
    BY <2>1 DEF InLine
<1>10. Usable(s)'
  BY <1>4, <1>5 DEF Usable, Open
<1>11. \A t \in Streams \ {s} : Apart(s, t)'
  BY <1>4, <1>5, <1>7 DEF Apart, FromFile
<1>12. ASSUME NEW x \in Fds, Open(x)' PROVE x \in lost' \/ \E t \in Streams : FromFile(t)' /\ blk'[t].fd = x
  <2>1. CASE x = fd
    BY <1>4, <1>5, <2>1 DEF FromFile
  <2>2. CASE x # fd
    <3>1. Open(x)
      BY <1>5, <1>12, <2>2 DEF Open
    <3>2. CASE x \in lost
      BY <1>1, <2>2, <3>2
    <3>3. CASE \E t \in Streams \ {s} : FromFile(t) /\ blk[t].fd = x
      BY <1>5, <3>3 DEF FromFile
    <3>4. CASE FromFile(s) /\ blk[s].fd = x /\ ~\E t \in Streams \ {s} : FromFile(t) /\ blk[t].fd = x
      <4>1. Sharing(blk[s].fd, s) = {}
        BY <3>4 DEF Sharing
      <4>2. QED
        BY <1>1, <2>2, <3>1, <3>4, <4>1
    <3>5. x \in lost \/ \E t \in Streams : FromFile(t) /\ blk[t].fd = x
      BY <3>1 DEF StdioIInv, Kept
    <3>6. QED
      BY <3>2, <3>3, <3>4, <3>5
  <2>3. QED
    BY <2>1, <2>2
<1>13. \A x \in Fds : Kept(x)'
  BY <1>12 DEF Kept
<1>14. QED
  BY <1>6, <1>8, <1>9, <1>10, <1>11, <1>13, StreamStep

LEMMA FdopenKeeps ==
  ASSUME StdioIInv, Fdopen
  PROVE  StdioIInv'
<1>1. PICK s \in Streams, fd \in Fds :
        /\ Free(s) /\ Open(fd)
        /\ blk' = [blk EXCEPT ![s] = Fresh0({"USE", "READ"}, fd)]
        /\ at' = [at EXCEPT ![s] = desc[fd]]
        /\ odd' = odd \ {s}
  BY DEF Fdopen, FirstFree
<1>2. got' = -1 /\ desc' = desc /\ lost' = lost
  BY DEF Fdopen
<1>3. /\ blk \in [Streams -> Entries] /\ desc \in [Fds -> Positions]
      /\ at \in [Streams -> Int] /\ odd \in SUBSET Streams /\ lost \in SUBSET Fds
  BY DEF StdioIInv, StdioTyped
<1>4. PICK new : new = Fresh0({"USE", "READ"}, fd)
  OBVIOUS
<1>5. /\ new \in Entries /\ new.fd = fd /\ new.ungot = 0 /\ new.flags = {"USE", "READ"}
  BY <1>4 DEF Fresh0, Entries, Marks, Byte
<1>6. /\ blk'[s] = new /\ at'[s] = desc[fd]
      /\ \A t \in Streams \ {s} : blk'[t] = blk[t] /\ at'[t] = at[t]
  BY <1>1, <1>3, <1>4
<1>7. desc[fd] \in Nat
  BY <1>1, <1>3 DEF Open, Positions
<1>8. StdioTyped'
  <2>1. blk' \in [Streams -> Entries]
    BY <1>1, <1>3, <1>4, <1>5
  <2>2. at' \in [Streams -> Int]
    BY <1>1, <1>3, <1>7
  <2>3. QED
    BY <1>1, <1>2, <1>3, <2>1, <2>2 DEF StdioTyped
<1>9. Alone(s)
  BY <1>1, <1>2, <1>6 DEF Alone
<1>10. InLine(s)'
  <2>1. Ordered(at'[s], Reader(s)')
    BY <1>2, <1>5, <1>6, <1>7 DEF Ordered, Reader
  <2>2. QED
    BY <2>1 DEF InLine
<1>11. Usable(s)'
  BY <1>1, <1>2, <1>5, <1>6 DEF Usable, Open
<1>12. \A t \in Streams \ {s} : Apart(s, t)'
  BY <1>5, <1>6 DEF Apart
<1>13. ~FromFile(s)
  BY <1>1 DEF Free, FromFile
<1>14. \A x \in Fds : Kept(x)'
  <2>1. \A t \in Streams : FromFile(t) => FromFile(t)' /\ blk'[t].fd = blk[t].fd
    BY <1>6, <1>13 DEF FromFile
  <2>2. \A x \in Fds : Open(x)' => Open(x)
    BY <1>2 DEF Open
  <2>3. QED
    BY <1>2, <2>1, <2>2 DEF StdioIInv, Kept
<1>15. QED
  BY <1>8, <1>9, <1>10, <1>11, <1>12, <1>14, StreamStep

\* The reading of n bytes from the stream s, whose reader becomes r.
LEMMA BecomesKeeps ==
  ASSUME StdioIInv, NEW s \in Streams, FromFile(s), s \notin odd,
         NEW r, NEW n, Gives(Reader(s), r, n), Becomes(s, r, n), got' \in -1 .. 255
  PROVE  StdioIInv'
<1>1. /\ blk \in [Streams -> Entries] /\ desc \in [Fds -> Positions]
      /\ at \in [Streams -> Int] /\ odd \in SUBSET Streams /\ lost \in SUBSET Fds
  BY DEF StdioIInv, StdioTyped
<1>2. PICK b \in Entries : b = blk[s]
  BY <1>1
<1>3. PICK fd \in Fds : fd = b.fd
  BY DEF Entries
<1>4. r \in Readers /\ n \in Int /\ r.flags \in {b.flags, b.flags \cup {"EOF"}}
  BY <1>2 DEF Gives, Reader
<1>5. desc[fd] \in Nat /\ r.pos \in Nat
  <2>1. Open(fd)
    BY <1>2, <1>3 DEF StdioIInv, Usable
  <2>2. desc[fd] \in Nat
    BY <1>1, <2>1 DEF Open, Positions
  <2>3. QED
    BY <1>2, <1>3, <2>2 DEF Gives, Reader
<1>6. PICK new : new = [flags |-> r.flags, fd |-> fd, ungot |-> r.ungot]
  OBVIOUS
<1>7. new \in Entries /\ new.flags = r.flags /\ new.fd = fd /\ new.ungot = r.ungot
  BY <1>4, <1>6 DEF Entries, Readers
<1>8. blk' = [blk EXCEPT ![s] = new]
  <2>1. PICK half : half = [blk EXCEPT ![s].flags = r.flags]
    OBVIOUS
  <2>2. blk' = [half EXCEPT ![s].ungot = r.ungot]
    BY <2>1 DEF Becomes
  <2>3. half[s] = [b EXCEPT !.flags = r.flags] /\ half \in [Streams -> Entries]
    <3>1. [b EXCEPT !.flags = r.flags] \in Entries
      BY <1>4 DEF Entries, Readers
    <3>2. QED
      BY <1>1, <1>2, <2>1, <3>1
  <2>4. [half[s] EXCEPT !.ungot = r.ungot] = new
    <3>1. b = [flags |-> b.flags, fd |-> fd, ungot |-> b.ungot]
      BY <1>3 DEF Entries
    <3>2. half[s] = [flags |-> r.flags, fd |-> fd, ungot |-> b.ungot]
      BY <2>3, <3>1
    <3>3. QED
      BY <1>6, <3>2
  <2>5. blk' = [half EXCEPT ![s] = new]
    BY <2>2, <2>3, <2>4
  <2>6. QED
    BY <1>1, <2>1, <2>3, <2>5
<1>9. /\ blk'[s] = new
      /\ \A t \in Streams \ {s} : blk'[t] = blk[t]
  BY <1>1, <1>8
<1>10. desc' = [desc EXCEPT ![fd] = r.pos]
  BY <1>2, <1>3 DEF Becomes
<1>11. desc'[fd] = r.pos /\ \A x \in Fds \ {fd} : desc'[x] = desc[x]
  BY <1>1, <1>10
<1>12. /\ odd' = (IF r.stray THEN odd \cup {s} ELSE odd)
                    \cup (IF r.pos # desc[fd] THEN Sharing(fd, s) ELSE {})
       /\ lost' = lost /\ at' = Known([at EXCEPT ![s] = @ + n])
  BY <1>2, <1>3 DEF Becomes
<1>13. \A t \in Streams : (FromFile(t)' <=> FromFile(t)) /\ blk'[t].fd = blk[t].fd
                         /\ ("TEXT" \in blk'[t].flags <=> "TEXT" \in blk[t].flags)
                         /\ ("READ" \in blk'[t].flags <=> "READ" \in blk[t].flags)
  <2>1. FromFile(s)' /\ FromFile(s) /\ blk'[s].fd = blk[s].fd
        /\ ("TEXT" \in blk'[s].flags <=> "TEXT" \in blk[s].flags)
        /\ ("READ" \in blk'[s].flags <=> "READ" \in blk[s].flags)
    BY <1>2, <1>3, <1>4, <1>7, <1>9 DEF FromFile
  <2>2. QED
    BY <1>9, <2>1 DEF FromFile
<1>14. odd \subseteq odd' /\ odd' \in SUBSET Streams
  BY <1>1, <1>12 DEF Sharing
<1>15. \A t \in Streams : FromFile(t) /\ t \notin odd' => at'[t] = IF t = s THEN at[s] + n ELSE at[t]
  <2>1. \A t \in Streams : FromFile(t)' => blk'[t].flags # {}
    BY DEF FromFile
  <2>2. \A t \in Streams : [at EXCEPT ![s] = @ + n][t] = IF t = s THEN at[s] + n ELSE at[t]
    BY <1>1
  <2>3. QED
    BY <1>12, <1>13, <2>1, <2>2 DEF Known
<1>16. StdioTyped'
  <2>1. blk' \in [Streams -> Entries]
    BY <1>1, <1>7, <1>8
  <2>2. desc' \in [Fds -> Positions]
    BY <1>1, <1>5, <1>10 DEF Positions
  <2>3. at' \in [Streams -> Int]
    <3>1. [at EXCEPT ![s] = @ + n] \in [Streams -> Int]
      BY <1>1, <1>4
    <3>2. QED
      BY <1>12, <3>1 DEF Known
  <2>4. QED
    BY <1>1, <1>12, <1>14, <2>1, <2>2, <2>3 DEF StdioTyped
<1>17. Alone(s)
  <2>1. ASSUME NEW t \in Streams \ {s}, FromFile(t), t \notin odd'
        PROVE  t \notin odd /\ at'[t] = at[t] /\ desc'[blk[t].fd] = desc[blk[t].fd]
    <3>1. t \notin odd /\ at'[t] = at[t]
      BY <1>14, <1>15, <2>1
    <3>2. CASE blk[t].fd = fd
      <4>1. t \in Sharing(fd, s)
        BY <2>1, <3>2 DEF Sharing
      <4>2. r.pos = desc[fd]
        BY <1>12, <2>1, <4>1
      <4>3. QED
        BY <1>11, <3>1, <3>2, <4>2
    <3>3. CASE blk[t].fd # fd
      <4>1. blk[t].fd \in Fds
        BY <1>1 DEF Entries
      <4>2. QED
        BY <1>11, <3>1, <3>3, <4>1
    <3>4. QED
      BY <3>2, <3>3
  <2>2. QED
    BY <1>9, <2>1 DEF Alone
<1>18. InLine(s)'
  <2>1. SUFFICES ASSUME s \notin odd', "READ" \in blk'[s].flags
                 PROVE  Ordered(at'[s], Reader(s)')
    BY DEF InLine
  <2>2. Ordered(at[s], Reader(s))
    BY <1>13, <2>1 DEF StdioIInv, InLine
  <2>3. at[s] \in Nat
    BY <2>2 DEF Ordered
  <2>4. ~r.stray
    BY <1>12, <2>1
  <2>5. Ordered(at[s] + n, r)
    BY <2>2, <2>3, <2>4 DEF Gives
  <2>6. at'[s] = at[s] + n
    BY <1>15, <2>1
  <2>7. Reader(s)' = [flags |-> r.flags, ungot |-> r.ungot, pos |-> r.pos, stray |-> FALSE]
    BY <1>7, <1>9, <1>11 DEF Reader
  <2>8. QED
    BY <2>5, <2>6, <2>7 DEF Ordered
<1>19. Usable(s)'
  BY <1>5, <1>7, <1>9, <1>11 DEF Usable, Open
<1>20. \A t \in Streams \ {s} : Apart(s, t)'
  <2>1. \A t \in Streams \ {s} : Apart(s, t)
    BY DEF StdioIInv
  <2>2. QED
    BY <1>13, <1>14, <2>1 DEF Apart
<1>21. \A x \in Fds : Kept(x)'
  <2>1. \A x \in Fds : Open(x)' => Open(x)
    BY <1>5, <1>11 DEF Open
  <2>2. QED
    BY <1>12, <1>13, <2>1 DEF StdioIInv, Kept
<1>22. QED
  BY <1>16, <1>17, <1>18, <1>19, <1>20, <1>21, StreamStep

LEMMA ReaderIs ==
  ASSUME StdioIInv, NEW s \in Streams
  PROVE  Reader(s) \in Readers
<1>1. blk[s] \in Entries /\ desc \in [Fds -> Positions]
  BY DEF StdioIInv, StdioTyped
<1>2. desc[blk[s].fd] \in Positions
  BY <1>1 DEF Entries
<1>3. QED
  BY <1>1, <1>2 DEF Reader, Readers, Entries

LEMMA ReadingKeeps ==
  ASSUME StdioIInv, FgetcCalled \/ FreadCalled \/ FgetsCalled
  PROVE  StdioIInv'
<1>1. CASE FgetcCalled
  <2>1. PICK s \in Streams, junk \in Junk :
          LET g == Fgetc(Reader(s), junk)
          IN /\ FromFile(s) /\ s \notin odd
             /\ Becomes(s, g.r, IF g.c < 0 THEN 0 ELSE 1)
             /\ got' = IF g.r.stray THEN -1 ELSE g.c
    BY <1>1 DEF FgetcCalled
  <2>2. PICK g : g = Fgetc(Reader(s), junk)
    OBVIOUS
  <2>3. g.c \in -1 .. 255 /\ Gives(Reader(s), g.r, IF g.c < 0 THEN 0 ELSE 1)
    BY <2>2, ReaderIs, FgetcGives
  <2>4. FromFile(s) /\ s \notin odd /\ Becomes(s, g.r, IF g.c < 0 THEN 0 ELSE 1) /\ got' \in -1 .. 255
    BY <2>1, <2>2, <2>3
  <2>5. QED
    BY <2>3, <2>4, BecomesKeeps
<1>2. CASE FreadCalled
  <2>1. PICK s \in Streams, junk \in Junk, n \in 2 .. 3 :
          LET f == Fread(Reader(s), n, junk)
          IN FromFile(s) /\ s \notin odd /\ Becomes(s, f.r, f.n) /\ got' = -1
    BY <1>2 DEF FreadCalled
  <2>2. PICK f : f = Fread(Reader(s), n, junk)
    OBVIOUS
  <2>3. Gives(Reader(s), f.r, f.n)
    BY <2>2, ReaderIs, FreadGives
  <2>4. FromFile(s) /\ s \notin odd /\ Becomes(s, f.r, f.n) /\ got' \in -1 .. 255
    BY <2>1, <2>2
  <2>5. QED
    BY <2>3, <2>4, BecomesKeeps
<1>3. CASE FgetsCalled
  <2>1. PICK s \in Streams, junk \in Junk, n \in 2 .. 3 :
          LET f == Fgets(Reader(s), n, junk)
          IN FromFile(s) /\ s \notin odd /\ Becomes(s, f.r, f.n) /\ got' = IF f.r.stray THEN -1 ELSE f.c
    BY <1>3 DEF FgetsCalled
  <2>2. PICK f : f = Fgets(Reader(s), n, junk)
    OBVIOUS
  <2>3. Gives(Reader(s), f.r, f.n) /\ f.c \in -1 .. 255
    BY <2>2, ReaderIs, FgetsGives
  <2>4. FromFile(s) /\ s \notin odd /\ Becomes(s, f.r, f.n) /\ got' \in -1 .. 255
    BY <2>1, <2>2, <2>3
  <2>5. QED
    BY <2>3, <2>4, BecomesKeeps
<1>4. QED
  BY <1>1, <1>2, <1>3

\* The streams keep their descriptors and what they are used for; the position
\* of no descriptor is taken away.
LEMMA SameUse ==
  ASSUME StdioIInv, lost' = lost, odd \subseteq odd',
         \A fd \in Fds : Open(fd)' <=> Open(fd),
         \A t \in Streams : (FromFile(t)' <=> FromFile(t)) /\ blk'[t].fd = blk[t].fd
                            /\ ("TEXT" \in blk'[t].flags <=> "TEXT" \in blk[t].flags)
  PROVE  /\ \A fd \in Fds : Kept(fd)'
         /\ \A t \in Streams : Usable(t)'
         /\ \A t, u \in Streams : t # u => Apart(t, u)'
<1>1. \A fd \in Fds : Kept(fd)'
  BY DEF StdioIInv, Kept
<1>2. \A t \in Streams : Usable(t)'
  <2>1. \A t \in Streams : blk[t].fd \in Fds
    BY DEF StdioIInv, StdioTyped, Entries
  <2>2. ASSUME NEW t \in Streams, FromFile(t)', t \notin odd' PROVE Open(blk[t].fd)'
    <3>1. Open(blk[t].fd)
      BY <2>2 DEF StdioIInv, Usable
    <3>2. QED
      BY <2>1, <3>1 DEF Open
  <2>3. QED
    BY <2>2 DEF Usable, Open
<1>3. ASSUME NEW t \in Streams, NEW u \in Streams, t # u PROVE Apart(t, u)'
  <2>1. Apart(t, u)
    BY <1>3 DEF StdioIInv
  <2>2. QED
    BY <2>1 DEF Apart
<1>4. QED
  BY <1>1, <1>2, <1>3

LEMMA UngetcKeeps ==
  ASSUME StdioIInv, Ungetc
  PROVE  StdioIInv'
<1>1. PICK s \in Streams :
        /\ FromFile(s) /\ s \notin odd /\ at[s] \in 1 .. Len(Contents) /\ got = Contents[at[s]]
        /\ blk[s].flags \cap {"EOF", "WRITE"} = {} /\ blk[s].ungot = 0
        /\ blk' = [blk EXCEPT ![s].ungot = got]
        /\ odd' = IF got = 0 THEN odd \cup {s} ELSE odd
        /\ at' = Known([at EXCEPT ![s] = @ - 1])
        /\ got' = -1
        /\ desc' = desc /\ lost' = lost
  BY DEF Ungetc
<1>2. /\ blk \in [Streams -> Entries] /\ desc \in [Fds -> Positions]
      /\ at \in [Streams -> Int] /\ odd \in SUBSET Streams /\ lost \in SUBSET Fds
  BY DEF StdioIInv, StdioTyped
<1>3. got \in Byte
  BY <1>1, TheContents
<1>4. PICK new : new = [blk[s] EXCEPT !.ungot = got]
  OBVIOUS
<1>5. new \in Entries /\ new.flags = blk[s].flags /\ new.fd = blk[s].fd /\ new.ungot = got
  BY <1>2, <1>3, <1>4 DEF Entries
<1>6. /\ blk'[s] = new /\ \A t \in Streams \ {s} : blk'[t] = blk[t]
      /\ blk' \in [Streams -> Entries]
  BY <1>1, <1>2, <1>4, <1>5
<1>7. \A t \in Streams : (FromFile(t)' <=> FromFile(t)) /\ blk'[t].fd = blk[t].fd /\ blk'[t].flags = blk[t].flags
  <2>1. \A t \in Streams : blk'[t].fd = blk[t].fd /\ blk'[t].flags = blk[t].flags
    BY <1>5, <1>6
  <2>2. QED
    BY <2>1 DEF FromFile
<1>8. odd \subseteq odd' /\ odd' \in SUBSET Streams /\ (s \notin odd' => got # 0)
  BY <1>1, <1>2
<1>9. \A t \in Streams : FromFile(t) /\ t \notin odd' => at'[t] = IF t = s THEN at[s] - 1 ELSE at[t]
  <2>1. \A t \in Streams : FromFile(t)' => blk'[t].flags # {}
    BY DEF FromFile
  <2>2. \A t \in Streams : [at EXCEPT ![s] = @ - 1][t] = IF t = s THEN at[s] - 1 ELSE at[t]
    BY <1>2
  <2>3. QED
    BY <1>1, <1>7, <2>1, <2>2 DEF Known
<1>10. StdioTyped'
  <2>1. [at EXCEPT ![s] = @ - 1] \in [Streams -> Int]
    BY <1>2
  <2>2. at' \in [Streams -> Int]
    BY <1>1, <2>1 DEF Known
  <2>3. got' \in -1 .. 255 /\ desc' = desc /\ lost' = lost
    BY <1>1
  <2>4. QED
    BY <1>2, <1>6, <1>8, <2>2, <2>3 DEF StdioTyped
<1>11. Alone(s)
  BY <1>1, <1>6, <1>8, <1>9 DEF Alone
<1>12. InLine(s)'
  <2>1. SUFFICES ASSUME s \notin odd', "READ" \in blk'[s].flags
                 PROVE  Ordered(at'[s], Reader(s)')
    BY DEF InLine
  <2>2. Ordered(at[s], Reader(s))
    BY <1>1, <1>7, <2>1 DEF StdioIInv, InLine
  <2>3. at[s] = desc[blk[s].fd] /\ desc[blk[s].fd] \in Nat
    BY <1>1, <2>2 DEF Ordered, Reader
  <2>4. /\ at'[s] = at[s] - 1 /\ at[s] - 1 \in Nat /\ at[s] - 1 < Len(Contents) /\ at[s] - 1 + 1 = at[s]
        /\ got # 0 /\ "EOF" \notin blk'[s].flags
    <3>1. at'[s] = at[s] - 1
      BY <1>1, <1>9, <2>1
    <3>2. at[s] \in 1 .. Len(Contents)
      BY <1>1
    <3>3. at[s] - 1 \in Nat /\ at[s] - 1 < Len(Contents) /\ at[s] - 1 + 1 = at[s]
      BY <3>2, TheContents
    <3>4. got # 0 /\ "EOF" \notin blk'[s].flags
      BY <1>1, <1>7, <1>8, <2>1
    <3>5. QED
      BY <3>1, <3>3, <3>4
  <2>5. Reader(s)' = [flags |-> blk'[s].flags, ungot |-> got, pos |-> desc[blk[s].fd], stray |-> FALSE]
    BY <1>1, <1>5, <1>6 DEF Reader
  <2>6. QED
    BY <1>1, <2>3, <2>4, <2>5 DEF Ordered
<1>13. /\ \A fd \in Fds : Kept(fd)'
       /\ \A t \in Streams : Usable(t)'
       /\ \A t, u \in Streams : t # u => Apart(t, u)'
  <2>1. \A fd \in Fds : Open(fd)' <=> Open(fd)
    BY <1>1 DEF Open
  <2>2. lost' = lost
    BY <1>1
  <2>3. QED
    BY <1>7, <1>8, <2>1, <2>2, SameUse
<1>14. QED
  BY <1>10, <1>11, <1>12, <1>13, StreamStep

LEMMA FseekKeeps ==
  ASSUME StdioIInv, Fseek
  PROVE  StdioIInv'
<1>1. PICK s \in Streams, to \in Seeks, fails \in BOOLEAN :
        /\ FromFile(s) /\ s \notin odd
        /\ desc' = [desc EXCEPT ![blk[s].fd] = Lseek(blk[s].fd, to, fails)]
        /\ blk' = [blk EXCEPT ![s].flags = @ \ {"EOF"}]
        /\ odd' = (IF Lseek(blk[s].fd, to, fails) # to \/ blk[s].ungot # 0 THEN odd \cup {s} ELSE odd)
                    \cup (IF Lseek(blk[s].fd, to, fails) # desc[blk[s].fd] THEN Sharing(blk[s].fd, s) ELSE {})
        /\ at' = Known([at EXCEPT ![s] = to])
        /\ got' = -1 /\ lost' = lost
  <2>1. PICK s \in Streams, to \in Seeks, fails \in BOOLEAN :
          /\ FromFile(s) /\ s \notin odd
          /\ LET fd == blk[s].fd
                 moved == Lseek(fd, to, fails)
             IN /\ desc' = [desc EXCEPT ![fd] = moved]
                /\ blk' = [blk EXCEPT ![s].flags = @ \ {"EOF"}]
                /\ odd' = (IF moved # to \/ blk[s].ungot # 0 THEN odd \cup {s} ELSE odd)
                            \cup (IF moved # desc[fd] THEN Sharing(fd, s) ELSE {})
                /\ at' = Known([at EXCEPT ![s] = to])
          /\ got' = -1 /\ UNCHANGED lost
    BY Zenon DEF Fseek
  <2>2. QED
    BY <2>1, Zenon
<1>2. /\ blk \in [Streams -> Entries] /\ desc \in [Fds -> Positions]
      /\ at \in [Streams -> Int] /\ odd \in SUBSET Streams /\ lost \in SUBSET Fds
  BY DEF StdioIInv, StdioTyped
<1>3. PICK fd \in Fds : fd = blk[s].fd
  BY <1>2 DEF Entries
<1>4. to \in Nat /\ desc[fd] \in Nat /\ Open(fd)
  <2>1. Open(fd)
    BY <1>1, <1>3 DEF StdioIInv, Usable
  <2>2. QED
    BY <1>2, <2>1, StdioFits DEF Open, Positions
<1>5. PICK moved \in Nat : moved = Lseek(fd, to, fails)
  BY <1>4 DEF Lseek
<1>6. PICK new : new = [blk[s] EXCEPT !.flags = @ \ {"EOF"}]
  OBVIOUS
<1>7. new \in Entries /\ new.flags = blk[s].flags \ {"EOF"} /\ new.fd = blk[s].fd /\ new.ungot = blk[s].ungot
  BY <1>2, <1>6 DEF Entries
<1>8. /\ blk'[s] = new /\ \A t \in Streams \ {s} : blk'[t] = blk[t]
      /\ blk' \in [Streams -> Entries]
  BY <1>1, <1>2, <1>6, <1>7
<1>9. \A t \in Streams : (FromFile(t)' <=> FromFile(t)) /\ blk'[t].fd = blk[t].fd
                         /\ ("TEXT" \in blk'[t].flags <=> "TEXT" \in blk[t].flags)
                         /\ ("READ" \in blk'[t].flags <=> "READ" \in blk[t].flags)
  <2>1. (FromFile(s)' <=> FromFile(s)) /\ blk'[s].fd = blk[s].fd
        /\ ("TEXT" \in blk'[s].flags <=> "TEXT" \in blk[s].flags)
        /\ ("READ" \in blk'[s].flags <=> "READ" \in blk[s].flags)
    BY <1>7, <1>8 DEF FromFile
  <2>2. QED
    BY <1>8, <2>1 DEF FromFile
<1>10. /\ odd \subseteq odd' /\ odd' \in SUBSET Streams
       /\ s \notin odd' => moved = to /\ blk[s].ungot = 0
       /\ moved # desc[fd] => Sharing(fd, s) \subseteq odd'
  BY <1>1, <1>2, <1>3, <1>5 DEF Sharing
<1>11. desc' = [desc EXCEPT ![fd] = moved]
  BY <1>1, <1>3, <1>5
<1>12. /\ desc'[fd] = moved /\ desc' \in [Fds -> Positions]
       /\ \A x \in Fds \ {fd} : desc'[x] = desc[x]
  BY <1>2, <1>11 DEF Positions
<1>13. \A t \in Streams : FromFile(t) /\ t \notin odd' => at'[t] = IF t = s THEN to ELSE at[t]
  <2>1. \A t \in Streams : FromFile(t)' => blk'[t].flags # {}
    BY DEF FromFile
  <2>2. \A t \in Streams : [at EXCEPT ![s] = to][t] = IF t = s THEN to ELSE at[t]
    BY <1>2
  <2>3. QED
    BY <1>1, <1>9, <2>1, <2>2 DEF Known
<1>14. StdioTyped'
  <2>1. [at EXCEPT ![s] = to] \in [Streams -> Int]
    BY <1>2, <1>4
  <2>2. at' \in [Streams -> Int]
    BY <1>1, <2>1 DEF Known
  <2>3. got' \in -1 .. 255 /\ lost' = lost
    BY <1>1
  <2>4. QED
    BY <1>2, <1>8, <1>10, <1>12, <2>2, <2>3 DEF StdioTyped
<1>15. Alone(s)
  <2>1. ASSUME NEW t \in Streams \ {s}, FromFile(t), t \notin odd'
        PROVE  t \notin odd /\ at'[t] = at[t] /\ desc'[blk[t].fd] = desc[blk[t].fd]
    <3>1. t \notin odd /\ at'[t] = at[t]
      BY <1>10, <1>13, <2>1
    <3>2. CASE blk[t].fd = fd
      <4>1. t \in Sharing(fd, s)
        BY <2>1, <3>2 DEF Sharing
      <4>2. moved = desc[fd]
        BY <1>10, <2>1, <4>1
      <4>3. QED
        BY <1>12, <3>1, <3>2, <4>2
    <3>3. CASE blk[t].fd # fd
      <4>1. blk[t].fd \in Fds
        BY <1>2 DEF Entries
      <4>2. QED
        BY <1>12, <3>1, <3>3, <4>1
    <3>4. QED
      BY <3>2, <3>3
  <2>2. QED
    BY <1>8, <2>1 DEF Alone
<1>16. InLine(s)'
  <2>1. SUFFICES ASSUME s \notin odd', "READ" \in blk'[s].flags
                 PROVE  Ordered(at'[s], Reader(s)')
    BY DEF InLine
  <2>2. moved = to /\ blk[s].ungot = 0 /\ at'[s] = to
    BY <1>1, <1>10, <1>13, <2>1
  <2>3. Reader(s)' = [flags |-> new.flags, ungot |-> 0, pos |-> moved, stray |-> FALSE]
    BY <1>3, <1>7, <1>8, <1>12, <2>2 DEF Reader
  <2>4. "EOF" \notin new.flags
    BY <1>7
  <2>5. QED
    BY <1>4, <2>2, <2>3, <2>4 DEF Ordered
<1>17. /\ \A x \in Fds : Kept(x)'
       /\ \A t \in Streams : Usable(t)'
       /\ \A t, u \in Streams : t # u => Apart(t, u)'
  <2>1. \A x \in Fds : Open(x)' <=> Open(x)
    BY <1>4, <1>12 DEF Open
  <2>2. lost' = lost /\ odd \subseteq odd'
    BY <1>1, <1>10
  <2>3. QED
    BY <1>9, <2>1, <2>2, SameUse
<1>18. QED
  BY <1>14, <1>15, <1>16, <1>17, StreamStep

\* Closing a stream, as it is done by fclose and, one after the other, on exit.
Files(b, t) == "USE" \in b[t].flags /\ "SYSTEM" \notin b[t].flags
TypedFiles(b, d) == b \in [Streams -> Entries] /\ d \in [Fds -> Positions]
HeldIn(b, d) ==
  \A fd \in Fds : d[fd] >= 0 => fd \in lost \/ \E t \in Streams : Files(b, t) /\ b[t].fd = fd

Cleared(b, s) == [b EXCEPT ![s] = [@ EXCEPT !.flags = {}, !.fd = 0]]
Kept3(b, d, s, c) == c.blk = b /\ c.desc = d /\ (Files(b, s) => d[b[s].fd] < 0)
Freed(b, d, s, c) == c.blk = Cleared(b, s) /\ c.desc = d /\ ~Files(b, s)
Shut(b, d, s, c) == /\ c.blk = Cleared(b, s) /\ c.desc = [d EXCEPT ![b[s].fd] = -1]
                    /\ Files(b, s) /\ d[b[s].fd] >= 0

\* The three ways out of closing a stream.
LEMMA ClosedCases ==
  ASSUME NEW b, NEW d, TypedFiles(b, d), NEW s \in Streams, NEW c, c = Closed(b, d, s)
  PROVE  Kept3(b, d, s, c) \/ Freed(b, d, s, c) \/ Shut(b, d, s, c)
<1>1. CASE "USE" \notin b[s].flags
  BY <1>1 DEF Closed, Kept3, Files
<1>2. CASE ~("USE" \notin b[s].flags) /\ "SYSTEM" \in b[s].flags
  BY <1>2 DEF Closed, Freed, Files, Cleared
<1>3. CASE ~("USE" \notin b[s].flags) /\ ~("SYSTEM" \in b[s].flags) /\ d[b[s].fd] < 0
  BY <1>3 DEF Closed, Kept3
<1>4. CASE ~("USE" \notin b[s].flags) /\ ~("SYSTEM" \in b[s].flags) /\ ~(d[b[s].fd] < 0)
  <2>1. c = [blk |-> Cleared(b, s), desc |-> [d EXCEPT ![b[s].fd] = -1]]
    BY <1>4 DEF Closed, Cleared
  <2>2. d[b[s].fd] >= 0
    BY <1>4 DEF TypedFiles, Entries, Positions
  <2>3. QED
    BY <1>4, <2>1, <2>2 DEF Shut, Files
<1>5. QED
  BY <1>1, <1>2, <1>3, <1>4

\* Clearing a stream leaves the others as they are.
LEMMA ClearedIs ==
  ASSUME NEW b \in [Streams -> Entries], NEW s \in Streams
  PROVE  /\ Cleared(b, s) \in [Streams -> Entries] /\ Cleared(b, s)[s].flags = {}
         /\ \A t \in Streams \ {s} : Cleared(b, s)[t] = b[t]
<1>1. PICK new : new = [b[s] EXCEPT !.flags = {}, !.fd = 0]
  OBVIOUS
<1>2. new \in Entries /\ new.flags = {}
  <2>1. b[s] \in Entries /\ 0 \in Fds
    BY StdioFits
  <2>2. b[s] = [flags |-> b[s].flags, fd |-> b[s].fd, ungot |-> b[s].ungot] /\ b[s].ungot \in Byte
    BY <2>1 DEF Entries
  <2>3. new = [flags |-> {}, fd |-> 0, ungot |-> b[s].ungot]
    BY <1>1, <2>2
  <2>4. QED
    BY <2>1, <2>2, <2>3 DEF Entries
<1>3. Cleared(b, s) = [b EXCEPT ![s] = new]
  BY <1>1 DEF Cleared
<1>4. QED
  BY <1>2, <1>3

\* What is left of the streams and of the descriptors.
Leaves(b, d, s, c) ==
  /\ TypedFiles(c.blk, c.desc)
  /\ \A t \in Streams \ {s} : c.blk[t] = b[t]
  /\ Files(c.blk, s) => c.blk[s] = b[s] /\ c.desc = d
  /\ c.desc # d => \A x \in Fds \ {b[s].fd} : c.desc[x] = d[x]
  /\ HeldIn(b, d) => HeldIn(c.blk, c.desc)

\* Whichever way it ends, closing a stream leaves the descriptors held as they should be.
LEMMA ClosedLeaves ==
  ASSUME NEW b, NEW d, TypedFiles(b, d), NEW s \in Streams, NEW c, c = Closed(b, d, s)
  PROVE  Leaves(b, d, s, c)
<1>1. b \in [Streams -> Entries] /\ d \in [Fds -> Positions] /\ b[s].fd \in Fds
  BY DEF TypedFiles, Entries
<1>2. CASE Kept3(b, d, s, c)
  BY <1>2 DEF Kept3, Leaves
<1>3. ASSUME c.blk = Cleared(b, s)
      PROVE  /\ c.blk \in [Streams -> Entries] /\ ~Files(c.blk, s)
             /\ \A t \in Streams \ {s} : c.blk[t] = b[t]
             /\ \A t \in Streams \ {s} : Files(c.blk, t) <=> Files(b, t)
  <2>1. /\ c.blk \in [Streams -> Entries] /\ c.blk[s].flags = {}
        /\ \A t \in Streams \ {s} : c.blk[t] = b[t]
    BY <1>1, <1>3, ClearedIs
  <2>2. QED
    BY <2>1 DEF Files
<1>4. CASE Freed(b, d, s, c)
  <2>1. c.blk = Cleared(b, s) /\ c.desc = d /\ ~Files(b, s)
    BY <1>4 DEF Freed
  <2>2. HeldIn(b, d) => HeldIn(c.blk, c.desc)
    BY <1>3, <2>1 DEF HeldIn
  <2>3. QED
    BY <1>1, <1>3, <2>1, <2>2 DEF Leaves, TypedFiles
<1>5. CASE Shut(b, d, s, c)
  <2>1. c.blk = Cleared(b, s) /\ c.desc = [d EXCEPT ![b[s].fd] = -1] /\ Files(b, s)
    BY <1>5 DEF Shut
  <2>2. c.desc \in [Fds -> Positions] /\ \A x \in Fds \ {b[s].fd} : c.desc[x] = d[x]
    BY <1>1, <2>1 DEF Positions
  <2>3. c.desc[b[s].fd] = -1
    BY <1>1, <2>1
  <2>4. ASSUME HeldIn(b, d), NEW fd \in Fds, c.desc[fd] >= 0
        PROVE  fd \in lost \/ \E t \in Streams : Files(c.blk, t) /\ c.blk[t].fd = fd
    <3>1. fd # b[s].fd
      BY <2>3, <2>4
    <3>2. d[fd] >= 0
      BY <2>2, <2>4, <3>1
    <3>3. fd \in lost \/ \E t \in Streams \ {s} : Files(b, t) /\ b[t].fd = fd
      BY <2>4, <3>1, <3>2 DEF HeldIn
    <3>4. QED
      BY <1>3, <2>1, <3>3
  <2>5. HeldIn(b, d) => HeldIn(c.blk, c.desc)
    BY <2>4 DEF HeldIn
  <2>6. QED
    BY <1>3, <2>1, <2>2, <2>5 DEF Leaves, TypedFiles
<1>6. QED
  BY <1>2, <1>4, <1>5, ClosedCases

\* What the invariant says of the descriptors, as a statement on the two tables,
LEMMA HeldNow ==
  /\ (\A fd \in Fds : Kept(fd)) <=> HeldIn(blk, desc)
  /\ \A t \in Streams : FromFile(t) <=> Files(blk, t)
BY DEF HeldIn, Kept, Open, Files, FromFile

\* and the same after a step.
LEMMA HeldThen ==
  ASSUME lost' = lost
  PROVE  /\ (\A fd \in Fds : Kept(fd)') <=> HeldIn(blk', desc')
         /\ \A t \in Streams : FromFile(t)' <=> Files(blk', t)
BY DEF HeldIn, Kept, Open, Files, FromFile

\* Places in the file are forgotten only for streams whose reads are not followed any more.
LEMMA KnownIs ==
  ASSUME at \in [Streams -> Int], at' = Known(at)
  PROVE  /\ at' \in [Streams -> Int]
         /\ \A t \in Streams : FromFile(t)' /\ t \notin odd' => at'[t] = at[t]
<1>1. \A t \in Streams : FromFile(t)' => blk'[t].flags # {}
  BY DEF FromFile
<1>2. QED
  BY <1>1 DEF Known

LEMMA FcloseKeeps ==
  ASSUME StdioIInv, Fclose
  PROVE  StdioIInv'
<1>1. PICK s \in Streams :
        LET c == Closed(blk, desc, s)
        IN /\ blk' = c.blk /\ desc' = c.desc
           /\ odd' = IF c.desc # desc THEN odd \cup Sharing(blk[s].fd, s) ELSE odd
           /\ got' = -1 /\ at' = Known(at) /\ lost' = lost
  BY DEF Fclose
<1>2. PICK c : c = Closed(blk, desc, s)
  OBVIOUS
<1>3. /\ blk' = c.blk /\ desc' = c.desc
      /\ odd' = IF c.desc # desc THEN odd \cup Sharing(blk[s].fd, s) ELSE odd
      /\ got' = -1 /\ at' = Known(at) /\ lost' = lost
  BY <1>1, <1>2
<1>4. /\ blk \in [Streams -> Entries] /\ desc \in [Fds -> Positions]
      /\ at \in [Streams -> Int] /\ odd \in SUBSET Streams /\ lost \in SUBSET Fds
  BY DEF StdioIInv, StdioTyped
<1>5. Leaves(blk, desc, s, c)
  BY <1>2, <1>4, ClosedLeaves DEF TypedFiles
<1>6. /\ blk' \in [Streams -> Entries] /\ desc' \in [Fds -> Positions]
      /\ \A t \in Streams \ {s} : blk'[t] = blk[t]
      /\ Files(blk', s) => blk'[s] = blk[s] /\ desc' = desc
      /\ desc' # desc => \A x \in Fds \ {blk[s].fd} : desc'[x] = desc[x]
      /\ HeldIn(blk, desc) => HeldIn(blk', desc')
  BY <1>3, <1>5 DEF Leaves, TypedFiles
<1>7. /\ at' \in [Streams -> Int]
      /\ \A t \in Streams : FromFile(t)' /\ t \notin odd' => at'[t] = at[t]
  BY <1>3, <1>4, KnownIs
<1>8. odd \subseteq odd' /\ odd' \in SUBSET Streams
  BY <1>3, <1>4 DEF Sharing
<1>9. StdioTyped'
  <2>1. got' \in -1 .. 255 /\ lost' = lost
    BY <1>3
  <2>2. QED
    BY <1>4, <1>6, <1>7, <1>8, <2>1 DEF StdioTyped
<1>10. \A fd \in Fds : Kept(fd)'
  <2>1. HeldIn(blk, desc)
    BY HeldNow DEF StdioIInv
  <2>2. QED
    BY <1>3, <1>6, <2>1, HeldThen
<1>11. Alone(s)
  <2>1. ASSUME NEW t \in Streams \ {s}, FromFile(t), t \notin odd'
        PROVE  t \notin odd /\ at'[t] = at[t] /\ desc'[blk[t].fd] = desc[blk[t].fd]
    <3>1. FromFile(t)' /\ t \notin odd /\ at'[t] = at[t]
      BY <1>6, <1>7, <1>8, <2>1 DEF FromFile
    <3>2. CASE desc' = desc
      BY <3>1, <3>2
    <3>3. CASE desc' # desc
      <4>1. t \notin Sharing(blk[s].fd, s)
        BY <1>3, <2>1, <3>3
      <4>2. blk[t].fd \in Fds \ {blk[s].fd}
        BY <1>4, <2>1, <4>1 DEF Sharing, Entries
      <4>3. QED
        BY <1>6, <3>1, <3>3, <4>2
    <3>4. QED
      BY <3>2, <3>3
  <2>2. QED
    BY <1>6, <2>1 DEF Alone
<1>12. ASSUME FromFile(s)', s \notin odd'
       PROVE  FromFile(s) /\ s \notin odd /\ blk'[s] = blk[s] /\ desc' = desc /\ at'[s] = at[s]
  <2>1. blk'[s] = blk[s] /\ desc' = desc
    BY <1>3, <1>6, <1>12, HeldThen
  <2>2. QED
    BY <1>7, <1>8, <1>12, <2>1 DEF FromFile
<1>13. InLine(s)'
  <2>1. SUFFICES ASSUME FromFile(s)', s \notin odd', "READ" \in blk'[s].flags
                 PROVE  Ordered(at'[s], Reader(s)')
    BY DEF InLine
  <2>2. Ordered(at[s], Reader(s)) /\ Reader(s)' = Reader(s)
    BY <1>12, <2>1 DEF StdioIInv, InLine, Reader
  <2>3. QED
    BY <1>12, <2>1, <2>2
<1>14. Usable(s)'
  BY <1>12 DEF StdioIInv, Usable, Open
<1>15. \A t \in Streams \ {s} : Apart(s, t)'
  <2>1. ASSUME NEW t \in Streams \ {s}, FromFile(s)', FromFile(t)', {s, t} \cap odd' = {},
               "TEXT" \in blk'[s].flags \cap blk'[t].flags
        PROVE  blk'[s].fd # blk'[t].fd
    <3>1. FromFile(s) /\ s \notin odd /\ blk'[s] = blk[s]
      BY <1>12, <2>1
    <3>2. FromFile(t) /\ t \notin odd /\ blk'[t] = blk[t]
      BY <1>6, <1>8, <2>1 DEF FromFile
    <3>3. Apart(s, t)
      BY DEF StdioIInv
    <3>4. QED
      BY <2>1, <3>1, <3>2, <3>3 DEF Apart
  <2>2. QED
    BY <2>1 DEF Apart
<1>16. QED
  BY <1>9, <1>10, <1>11, <1>13, <1>14, <1>15, StreamStep

\* The values of the loop of closeall.
AfterClosing(q, b, d, n) ==
  q = [k \in 0 .. n |->
         IF k = 0 THEN [blk |-> b, desc |-> d]
         ELSE Closed(q[k - 1].blk, q[k - 1].desc, k - 1)]

\* The recursive definition of closeall has a solution.
LEMMA ClosingExists ==
  ASSUME NEW b, NEW d, NEW n \in Nat
  PROVE  \E q : AfterClosing(q, b, d, n)
<1> DEFINE Start == [blk |-> b, desc |-> d]
           C(x, s) == Closed(x.blk, x.desc, s)
           Good == {i \in 0 .. n : \E q : q = [k \in 0 .. i |-> IF k = 0 THEN Start ELSE C(q[k - 1], k - 1)]}
<1> HIDE DEF Start, C
<1>1. 0 \in Good
  <2>1. PICK q : q = [k \in 0 .. 0 |-> Start]
    OBVIOUS
  <2>2. \A k \in 0 .. 0 : k = 0
    OBVIOUS
  <2>3. q = [k \in 0 .. 0 |-> IF k = 0 THEN Start ELSE C(q[k - 1], k - 1)]
    BY <2>1, <2>2, Zenon
  <2>4. 0 \in 0 .. n
    OBVIOUS
  <2>5. QED
    BY <2>3, <2>4
<1>2. ASSUME NEW i \in 0 .. n - 1, i \in Good
      PROVE  i + 1 \in Good
  <2>1. PICK q : q = [k \in 0 .. i |-> IF k = 0 THEN Start ELSE C(q[k - 1], k - 1)]
    BY <1>2
  <2> DEFINE p == [k \in 0 .. i + 1 |-> IF k = 0 THEN Start ELSE C(q[k - 1], k - 1)]
  <2>2. i + 1 \in 0 .. n /\ i \in Nat
    OBVIOUS
  <2>3. \A k \in 0 .. i : p[k] = q[k]
    BY <2>1, <2>2
  <2>4. \A k \in 0 .. i + 1 : k # 0 => k - 1 \in 0 .. i
    BY <2>2
  <2>5. p = [k \in 0 .. i + 1 |-> IF k = 0 THEN Start ELSE C(p[k - 1], k - 1)]
    BY <2>3, <2>4
  <2>6. QED
    BY <2>2, <2>5
<1>3. \A i \in 0 .. n : i \in Good
  <2> HIDE DEF Good
  <2>1. QED
    BY <1>1, <1>2, UpTo
<1>4. n \in Good
  BY <1>3
<1>5. QED
  BY <1>4 DEF AfterClosing, Start, C

LEMMA CloseallKeeps ==
  ASSUME StdioIInv, Closeall
  PROVE  StdioIInv'
<1>1. PICK q : q = CHOOSE l : AfterClosing(l, blk, desc, FOPEN_MAX)
  OBVIOUS
<1>2. /\ blk' = q[FOPEN_MAX].blk /\ desc' = q[FOPEN_MAX].desc
      /\ odd' = odd \cup {s \in Streams : FromFile(s)}
      /\ got' = -1 /\ at' = Known(at) /\ lost' = lost
  BY <1>1, Zenon DEF Closeall, AfterClosing
<1>3. PICK m \in Nat : m = FOPEN_MAX
  BY StdioFits
<1>4. AfterClosing(q, blk, desc, m)
  <2>1. \E l : AfterClosing(l, blk, desc, FOPEN_MAX)
    BY <1>3, ClosingExists
  <2>2. AfterClosing(q, blk, desc, FOPEN_MAX)
    BY <1>1, <2>1, Zenon
  <2>3. QED
    BY <1>3, <2>2
<1>5. /\ blk \in [Streams -> Entries] /\ desc \in [Fds -> Positions]
      /\ at \in [Streams -> Int] /\ odd \in SUBSET Streams /\ lost \in SUBSET Fds
  BY DEF StdioIInv, StdioTyped
<1> DEFINE Sound(c) == /\ TypedFiles(c.blk, c.desc) /\ HeldIn(c.blk, c.desc)
                       /\ \A t \in Streams : Files(c.blk, t) => Files(blk, t)
           Good == {k \in 0 .. m : Sound(q[k])}
<1>6. 0 \in Good
  <2>1. q[0] = [blk |-> blk, desc |-> desc]
    BY <1>4 DEF AfterClosing
  <2>2. HeldIn(blk, desc) /\ TypedFiles(blk, desc)
    BY <1>5, HeldNow DEF StdioIInv, TypedFiles
  <2>3. QED
    BY <2>1, <2>2
<1>7. ASSUME NEW k \in 0 .. m - 1, k \in Good
      PROVE  k + 1 \in Good
  <2>1. k + 1 \in 0 .. m /\ k + 1 # 0 /\ k + 1 - 1 = k
    OBVIOUS
  <2>2. k \in Streams
    BY <1>3 DEF Streams
  <2>3. PICK c : c = q[k]
    OBVIOUS
  <2>4. PICK e : e = q[k + 1]
    OBVIOUS
  <2>5. e = Closed(c.blk, c.desc, k)
    BY <1>4, <2>1, <2>3, <2>4 DEF AfterClosing
  <2>6. Sound(c)
    BY <1>7, <2>3
  <2>7. Leaves(c.blk, c.desc, k, e)
    BY <2>2, <2>5, <2>6, ClosedLeaves
  <2>8. \A t \in Streams : Files(e.blk, t) => Files(c.blk, t)
    BY <2>7 DEF Leaves, Files
  <2>9. Sound(e)
    BY <2>6, <2>7, <2>8 DEF Leaves
  <2>10. QED
    BY <2>1, <2>4, <2>9
<1>8. \A k \in 0 .. m : k \in Good
  <2> HIDE DEF Good
  <2>1. QED
    BY <1>6, <1>7, UpTo
<1>9. Sound(q[m])
  BY <1>8
<1>10. /\ blk' \in [Streams -> Entries] /\ desc' \in [Fds -> Positions] /\ HeldIn(blk', desc')
       /\ \A t \in Streams : Files(blk', t) => Files(blk, t)
  BY <1>2, <1>3, <1>9 DEF TypedFiles
<1>11. at' \in [Streams -> Int]
  BY <1>2, <1>5, KnownIs
<1>12. StdioTyped'
  <2>1. got' \in -1 .. 255 /\ lost' = lost /\ odd' \in SUBSET Streams
    BY <1>2, <1>5
  <2>2. QED
    BY <1>5, <1>10, <1>11, <2>1 DEF StdioTyped
<1>13. \A t \in Streams : FromFile(t)' => t \in odd'
  BY <1>2, <1>10, HeldNow, HeldThen
<1>14. \A fd \in Fds : Kept(fd)'
  BY <1>2, <1>10, HeldThen
<1>15. /\ \A t \in Streams : InLine(t)' /\ Usable(t)'
       /\ \A t, u \in Streams : t # u => Apart(t, u)'
  BY <1>13 DEF InLine, Usable, Apart
<1>16. QED
  BY <1>12, <1>14, <1>15 DEF StdioIInv

LEMMA StdioNextIInv == StdioIInv /\ [StdioNext]_stdioVars => StdioIInv'
<1> SUFFICES ASSUME StdioIInv, [StdioNext]_stdioVars PROVE StdioIInv'
  OBVIOUS
<1>1. CASE Fopen
  BY <1>1, FreopenKeeps DEF Fopen
<1>2. CASE FreopenCalled
  BY <1>2, FreopenKeeps DEF FreopenCalled
<1>3. CASE Fdopen
  BY <1>3, FdopenKeeps
<1>4. CASE Fclose
  BY <1>4, FcloseKeeps
<1>5. CASE Closeall
  BY <1>5, CloseallKeeps
<1>6. CASE FgetcCalled \/ FreadCalled \/ FgetsCalled
  BY <1>6, ReadingKeeps
<1>7. CASE Ungetc
  BY <1>7, UngetcKeeps
<1>8. CASE Fseek
  BY <1>8, FseekKeeps
<1>9. CASE UNCHANGED stdioVars
  BY <1>9 DEF stdioVars, StdioIInv, StdioTyped, InLine, Kept, Usable, Apart, FromFile, Open, Reader
<1>10. QED
  BY <1>1, <1>2, <1>3, <1>4, <1>5, <1>6, <1>7, <1>8, <1>9 DEF StdioNext

\* Streams of any number, over any file: read with fgetc, fread and fgets, pushed
\* back, moved to any position and closed in any order, a stream delivers the
\* bytes of the file one after the other.
THEOREM StdioInOrderHolds == StdioSpec => []StdioInOrder
<1>1. StdioInit => StdioIInv
  BY StdioInitIInv
<1>2. StdioIInv /\ [StdioNext]_stdioVars => StdioIInv'
  BY StdioNextIInv
<1>3. StdioIInv => StdioInOrder
  BY StdioIInvImplies
<1>4. QED
  BY <1>1, <1>2, <1>3, PTL DEF StdioSpec

\* For as many streams and descriptors as there may be, none is lost but by
\* freopen, and no two streams get hold of the same one but by fdopen.
THEOREM StdioFdsHeldHolds == StdioSpec => []StdioFdsHeld
<1>1. StdioInit => StdioIInv
  BY StdioInitIInv
<1>2. StdioIInv /\ [StdioNext]_stdioVars => StdioIInv'
  BY StdioNextIInv
<1>3. StdioIInv => StdioFdsHeld
  BY StdioIInvImplies
<1>4. QED
  BY <1>1, <1>2, <1>3, PTL DEF StdioSpec

----------------------------------------------------------------------------
(* Snake. *)

Types == {"EMPTY", "BORDER", "FOOD", "SNAKE", "SNAKE_HEAD", "COLLISION"}
Turns == Directions \cup {0}
Grids == [Fields -> [type : Types, dir : Turns]]

\* In the grid g a snake of k + 1 fields lies on way[0], its tail, to way[k], its
\* head, and leads from each to the next.
Lies(g, way, k) ==
  /\ way \in [0 .. k -> Fields]
  /\ \A m, n \in 0 .. k : way[m] = way[n] => m = n
  /\ \A n \in 0 .. k - 1 : way[n + 1] = way[n] + g[way[n]].dir
  /\ \A x \in Fields : g[x].type = "SNAKE" <=> \E n \in 0 .. k - 1 : way[n] = x
  /\ \A x \in Fields : g[x].type = "SNAKE_HEAD" <=> x = way[k]

Placed(g, k, tail, head) ==
  \E way \in [0 .. k -> Fields] : Lies(g, way, k) /\ way[0] = tail /\ way[k] = head

\* The rest of the grid.
Around(g) ==
  /\ \A x \in Fields : g[x].type = "BORDER" <=> x \in Border
  /\ \E f \in Fields : \A x \in Fields : g[x].type = "FOOD" <=> x = f

\* What the moves of the two ends, and of both, do to a grid.
HeadGoes(g, g2, head, to) ==
  /\ \A x \in Fields : g2[x].type = IF x = head THEN "SNAKE" ELSE IF x = to THEN "SNAKE_HEAD" ELSE g[x].type
  /\ \A x \in Fields : x # to => g2[x].dir = g[x].dir
TailGoes(g, g2, tail) ==
  \A x \in Fields : g2[x].type = (IF x = tail THEN "EMPTY" ELSE g[x].type) /\ g2[x].dir = g[x].dir
BothGo(g, g2, tail, head, to) ==
  /\ \A x \in Fields : g2[x].type = IF x = to THEN "SNAKE_HEAD" ELSE IF x = tail THEN "EMPTY"
                                    ELSE IF x = head THEN "SNAKE" ELSE g[x].type
  /\ \A x \in Fields : x # to => g2[x].dir = g[x].dir

FoodAt(g, g1, food) ==
  \A x \in Fields : g1[x].type = (IF x = food THEN "FOOD" ELSE g[x].type) /\ g1[x].dir = g[x].dir

PlayTyped == play \in [score : Nat, over : BOOLEAN, stuck : BOOLEAN]
SnakeLives ==
  /\ grid \in Grids /\ snake \in [head : Fields, tail : Fields, newDir : Turns]
  /\ Around(grid)
  /\ Placed(grid, play.score, snake.tail, snake.head)
  /\ play.stuck => \A x \in Fields : grid[x].type # "EMPTY"

SnakeIInv == PlayTyped /\ (~play.over => SnakeLives)

\* A field that is not in the border has neighbours in every direction.
LEMMA Inside ==
  ASSUME NEW f \in Fields \ Border, NEW d \in Turns
  PROVE  f + d \in Fields
<1>1. PICK w \in Nat, h \in Nat : w = grid_width /\ h = grid_height /\ w >= 3 /\ h >= 3
  BY SnakeFits
<1>2. PICK n \in Nat : n = w * h
  BY <1>1
<1>3. f \in 0 .. n - 1
  BY <1>1, <1>2 DEF Fields
<1>4. PICK q \in Nat, r \in Nat : q = f \div w /\ r = f % w /\ r < w
  BY <1>1, <1>3
<1>5. PICK p \in Nat : p = w * q /\ f = p + r
  BY <1>1, <1>3, <1>4
<1>6. ~(q \in {0, h - 1}) /\ ~(r \in {0, w - 1})
  BY <1>1, <1>4 DEF Border
<1>7. p >= w
  BY <1>1, <1>5, <1>6
<1>8. p + 2 * w <= n
  <2>1. q < h
    <3>1. SUFFICES ASSUME q >= h PROVE FALSE
      BY <1>1
    <3>2. w * q >= w * h
      BY <1>1, <3>1
    <3>3. QED
      BY <1>2, <1>3, <1>5, <3>2
  <2>2. PICK e \in Nat : h = q + 2 + e
    <3>1. h - q - 2 \in Nat /\ h = q + 2 + (h - q - 2)
      BY <1>1, <1>6, <2>1
    <3>2. QED
      BY <3>1
  <2>3. w * h = w * q + 2 * w + w * e /\ w * e \in Nat
    BY <1>1, <2>2
  <2>4. PICK we \in Nat : we = w * e
    BY <2>3
  <2>5. QED
    BY <1>2, <1>5, <2>3, <2>4
<1>9. d \in {-w, w, -1, 1, 0}
  BY <1>1 DEF Turns, Directions
<1>10. f + d \in 0 .. n - 1
  BY <1>1, <1>2, <1>3, <1>4, <1>5, <1>7, <1>8, <1>9
<1>11. QED
  BY <1>1, <1>2, <1>10 DEF Fields

LEMMA MiddleInside == Middle \in Fields \ Border
<1>1. PICK w \in Nat, h \in Nat : w = grid_width /\ h = grid_height /\ w >= 3 /\ h >= 3
  BY SnakeFits
<1>2. PICK a \in 1 .. w - 2, b \in 1 .. h - 2 : a = w \div 2 /\ b = h \div 2
  BY <1>1
<1>3. Middle = a + b * w
  BY <1>1, <1>2 DEF Middle
<1>4. PICK m \in Nat : m = a + b * w
  BY <1>1, <1>2
<1>5. m \div w = b /\ m % w = a
  BY <1>1, <1>2, <1>4
<1>6. m \in 0 .. w * h - 1
  <2>1. PICK e \in Nat : h = b + 2 + e
    <3>1. h - b - 2 \in Nat /\ h = b + 2 + (h - b - 2)
      BY <1>1, <1>2
    <3>2. QED
      BY <3>1
  <2>2. w * h = b * w + 2 * w + w * e /\ w * e \in Nat /\ b * w \in Nat
    BY <1>1, <1>2, <2>1
  <2>3. PICK we \in Nat, bw \in Nat : we = w * e /\ bw = b * w
    BY <2>2
  <2>4. w * h = bw + 2 * w + we /\ m = a + bw
    BY <1>4, <2>2, <2>3
  <2>5. QED
    BY <1>1, <1>2, <2>3, <2>4
<1>7. QED
  BY <1>1, <1>2, <1>3, <1>4, <1>5, <1>6 DEF Fields, Border

(* The way. *)

\* A way that is laid is the only one.
LEMMA WayIs ==
  ASSUME PlayTyped, NEW way \in [0 .. play.score -> Fields], Lies(grid, way, play.score),
         way[0] = snake.tail
  PROVE  Way = way
<1>1. PICK k \in Nat : k = play.score
  BY DEF PlayTyped
<1> DEFINE Solves(p) == p = [n \in 0 .. k |-> IF n = 0 THEN snake.tail ELSE p[n - 1] + grid[p[n - 1]].dir]
<1>2. Way = CHOOSE p : Solves(p)
  BY <1>1 DEF Way
<1>3. \A n \in 0 .. k : n # 0 => way[n] = way[n - 1] + grid[way[n - 1]].dir
  <2> SUFFICES ASSUME NEW n \in 0 .. k, n # 0 PROVE way[n] = way[n - 1] + grid[way[n - 1]].dir
    OBVIOUS
  <2>1. n - 1 \in 0 .. k - 1 /\ (n - 1) + 1 = n
    BY <1>1
  <2>2. QED
    BY <1>1, <2>1 DEF Lies
<1>4. Solves(way)
  <2>1. way = [n \in 0 .. k |-> way[n]]
    BY <1>1
  <2>2. \A n \in 0 .. k : way[n] = IF n = 0 THEN snake.tail ELSE way[n - 1] + grid[way[n - 1]].dir
    BY <1>3
  <2>3. QED
    BY <2>1, <2>2
<1>5. ASSUME NEW p, Solves(p)
      PROVE  p = way
  <2> DEFINE Same == {n \in 0 .. k : p[n] = way[n]}
  <2>1. 0 \in Same
    BY <1>1, <1>5
  <2>2. ASSUME NEW n \in 0 .. k - 1, n \in Same
        PROVE  n + 1 \in Same
    <3>1. n + 1 \in 0 .. k /\ n + 1 # 0 /\ n + 1 - 1 = n
      BY <1>1
    <3>2. p[n + 1] = p[n] + grid[p[n]].dir
      BY <1>5, <3>1
    <3>3. way[n + 1] = way[n] + grid[way[n]].dir
      BY <1>3, <3>1
    <3>4. QED
      BY <2>2, <3>1, <3>2, <3>3
  <2>3. \A n \in 0 .. k : n \in Same
    BY <2>1, <2>2, UpTo
  <2>4. p = [n \in 0 .. k |-> p[n]] /\ way = [n \in 0 .. k |-> way[n]]
    BY <1>1, <1>5
  <2>5. QED
    BY <2>3, <2>4
<1>6. QED
  BY <1>2, <1>4, <1>5

\* As many fields as the snake is long.
LEMMA BodySize ==
  ASSUME NEW k \in Nat, NEW way \in [0 .. k -> Fields], \A m, n \in 0 .. k : way[m] = way[n] => m = n
  PROVE  Cardinality({way[n] : n \in 0 .. k}) = k + 1
<1> DEFINE body == {way[n] : n \in 0 .. k}
<1>1. IsFiniteSet(0 .. k) /\ Cardinality(0 .. k) = k + 1
  <2>1. 0 \in Int /\ k \in Int /\ ~(0 > k) /\ k - 0 + 1 = k + 1
    OBVIOUS
  <2>2. QED
    BY <2>1, FS_Interval
<1>2. way \in Bijection(0 .. k, body)
  <2>1. way \in [0 .. k -> body]
    OBVIOUS
  <2>2. way \in Injection(0 .. k, body)
    BY <2>1 DEF Injection, IsInjective
  <2>3. \A y \in body : \E n \in 0 .. k : way[n] = y
    OBVIOUS
  <2>4. QED
    BY <2>1, <2>2, <2>3 DEF Bijection, Surjection
<1>3. ExistsBijection(0 .. k, body)
  BY <1>2 DEF ExistsBijection
<1>4. Cardinality(body) = Cardinality(0 .. k)
  BY <1>1, <1>3, FS_Bijection
<1>5. QED
  BY <1>1, <1>4

\* The invariant of a game that goes on says that the snake is whole.
LEMMA RunningWhole ==
  ASSUME PlayTyped, SnakeLives
  PROVE  SnakeWhole
<1>1. PICK way \in [0 .. play.score -> Fields] :
        Lies(grid, way, play.score) /\ way[0] = snake.tail /\ way[play.score] = snake.head
  BY DEF SnakeLives, Placed
<1>2. PICK k \in Nat : k = play.score
  BY DEF PlayTyped
<1>3. Way = way
  BY <1>1, WayIs
<1>4. /\ \A m, n \in 0 .. k : way[m] = way[n] => m = n
      /\ \A x \in Fields : grid[x].type = "SNAKE" <=> \E n \in 0 .. k - 1 : way[n] = x
      /\ \A x \in Fields : grid[x].type = "SNAKE_HEAD" <=> x = way[k]
  BY <1>1, <1>2 DEF Lies
<1>5. Cardinality({way[n] : n \in 0 .. k}) = k + 1
  BY <1>1, <1>2, <1>4, BodySize, SMTT(30)
<1>6. way[k] \in Fields /\ \A n \in 0 .. k - 1 : way[n] \in Fields
  BY <1>1, <1>2
<1>7. {way[n] : n \in 0 .. k} = {way[n] : n \in 0 .. k - 1} \cup {way[k]}
  <2>1. 0 .. k = (0 .. k - 1) \cup {k}
    BY <1>2
  <2>2. QED
    BY <2>1
<1>8. Of(grid, "SNAKE") = {way[n] : n \in 0 .. k - 1}
  BY <1>4, <1>6 DEF Of
<1>9. Of(grid, "SNAKE_HEAD") = {way[k]}
  BY <1>4, <1>6 DEF Of
<1>10. Of(grid, "BORDER") = Border
  BY DEF SnakeLives, Around, Of, Border
<1>11. Cardinality(Of(grid, "FOOD")) = 1
  <2>1. PICK f \in Fields : \A x \in Fields : grid[x].type = "FOOD" <=> x = f
    BY DEF SnakeLives, Around
  <2>2. Of(grid, "FOOD") = {f}
    BY <2>1 DEF Of
  <2>3. QED
    BY <2>2, FS_Singleton
<1>12. play.stuck => Of(grid, "EMPTY") = {}
  BY DEF SnakeLives, Of
<1>13. QED
  BY <1>1, <1>2, <1>3, <1>5, <1>7, <1>8, <1>9, <1>10, <1>11, <1>12 DEF SnakeWhole

(* Moves. *)

\* The tail follows: the new head is on a field that is empty or the tail's.
LEMMA Follows ==
  ASSUME NEW k \in Nat, NEW g \in Grids, NEW tail, NEW head, Placed(g, k, tail, head), Around(g),
         NEW to \in Fields, to = head + g[head].dir,
         g[to].type = "EMPTY" \/ (g[to].type = "SNAKE" /\ to = tail),
         NEW g2 \in Grids, BothGo(g, g2, tail, head, to)
  PROVE  Around(g2) /\ Placed(g2, k, tail + g[tail].dir, to)
<1>0. PICK way \in [0 .. k -> Fields] : Lies(g, way, k) /\ way[0] = tail /\ way[k] = head
  BY DEF Placed
<1> USE <1>0
<1>1. /\ \A m, n \in 0 .. k : way[m] = way[n] => m = n
      /\ \A n \in 0 .. k - 1 : way[n + 1] = way[n] + g[way[n]].dir
      /\ \A x \in Fields : g[x].type = "SNAKE" <=> \E n \in 0 .. k - 1 : way[n] = x
      /\ \A x \in Fields : g[x].type = "SNAKE_HEAD" <=> x = way[k]
  BY DEF Lies
<1> USE DEF BothGo
<1>2. /\ 0 \in 0 .. k /\ k \in 0 .. k /\ way[0] \in Fields /\ way[k] \in Fields
      /\ \A n \in 0 .. k - 1 : n \in 0 .. k /\ n + 1 \in 0 .. k /\ way[n] \in Fields /\ way[n + 1] \in Fields
  <2>1. \A n \in 0 .. k - 1 : n \in 0 .. k /\ n + 1 \in 0 .. k
    OBVIOUS
  <2>2. 0 \in 0 .. k /\ k \in 0 .. k
    OBVIOUS
  <2>3. QED
    BY <2>1, <2>2
<1>3. g[way[0]].type \in {"SNAKE", "SNAKE_HEAD"} /\ g[way[k]].type = "SNAKE_HEAD" /\ to # way[k]
  <2>1. g[way[k]].type = "SNAKE_HEAD"
    BY <1>1, <1>2
  <2>2. CASE k = 0
    BY <2>1, <2>2
  <2>3. CASE k # 0
    <3>1. 0 \in 0 .. k - 1
      BY <2>3
    <3>2. QED
      BY <1>1, <1>2, <2>1, <3>1
  <2>4. QED
    BY <2>1, <2>2, <2>3
<1>4. Around(g2)
  <2>1. \A x \in Fields : g2[x].type = "BORDER" <=> g[x].type = "BORDER"
    BY <1>3
  <2>2. \A x \in Fields : g2[x].type = "FOOD" <=> g[x].type = "FOOD"
    BY <1>3
  <2>3. QED
    BY <2>1, <2>2, SMTT(30) DEF Around
\* The new head is on none of the fields that stay the snake's.
<1>5. \A n \in 0 .. k : n # 0 => way[n] # to
  <2> SUFFICES ASSUME NEW n \in 0 .. k, n # 0, way[n] = to PROVE FALSE
    OBVIOUS
  <2>1. CASE to = way[0]
    BY <1>1, <1>2, <2>1
  <2>2. CASE g[to].type = "EMPTY"
    <3>1. n = k \/ n \in 0 .. k - 1
      OBVIOUS
    <3>2. QED
      BY <1>1, <1>2, <1>3, <2>2, <3>1
  <2>3. QED
    BY <2>1, <2>2
<1>6. PICK way2 \in [0 .. k -> Fields] : \A n \in 0 .. k : way2[n] = IF n = k THEN to ELSE way[n + 1]
  <2> DEFINE a == [n \in 0 .. k |-> IF n = k THEN to ELSE way[n + 1]]
  <2>1. \A n \in 0 .. k : n # k => n \in 0 .. k - 1
    OBVIOUS
  <2>2. a \in [0 .. k -> Fields]
    BY <1>2, <2>1
  <2>3. QED
    BY <2>2
<1>7. way2[k] = to /\ \A n \in 0 .. k - 1 : way2[n] = way[n + 1]
  BY <1>2, <1>6
<1>8. way2[0] = way[0] + g[way[0]].dir
  <2>1. CASE k = 0
    BY <1>7, <2>1
  <2>2. CASE k # 0
    <3>1. 0 \in 0 .. k - 1 /\ 0 + 1 = 1
      BY <2>2
    <3>2. QED
      BY <1>1, <1>7, <3>1
  <2>3. QED
    BY <2>1, <2>2
<1>9. Lies(g2, way2, k)
  <2>1. \A m, n \in 0 .. k : way2[m] = way2[n] => m = n
    <3> SUFFICES ASSUME NEW m \in 0 .. k, NEW n \in 0 .. k, way2[m] = way2[n] PROVE m = n
      OBVIOUS
    <3>1. CASE m = k \/ n = k
      <4>1. \A i \in 0 .. k - 1 : way2[i] # to
        <5>1. \A i \in 0 .. k - 1 : i + 1 # 0
          OBVIOUS
        <5>2. QED
          BY <1>2, <1>5, <1>7, <5>1
      <4>2. (m = k \/ m \in 0 .. k - 1) /\ (n = k \/ n \in 0 .. k - 1)
        OBVIOUS
      <4>3. QED
        BY <1>7, <3>1, <4>1, <4>2
    <3>2. CASE m # k /\ n # k
      <4>1. m \in 0 .. k - 1 /\ n \in 0 .. k - 1
        BY <3>2
      <4>2. way[m + 1] = way[n + 1] /\ m + 1 \in 0 .. k /\ n + 1 \in 0 .. k
        BY <1>2, <1>7, <4>1
      <4>3. m + 1 = n + 1
        BY <1>1, <4>2
      <4>4. QED
        BY <4>3
    <3>3. QED
      BY <3>1, <3>2
  <2>2. \A n \in 0 .. k - 1 : way2[n + 1] = way2[n] + g2[way2[n]].dir
    <3> SUFFICES ASSUME NEW n \in 0 .. k - 1 PROVE way2[n + 1] = way2[n] + g2[way2[n]].dir
      OBVIOUS
    <3>1. way2[n] = way[n + 1] /\ way[n + 1] \in Fields /\ n + 1 \in 0 .. k /\ n + 1 # 0
      BY <1>2, <1>7
    <3>2. g2[way2[n]].dir = g[way[n + 1]].dir
      BY <1>5, <3>1
    <3>3. CASE n + 1 = k
      BY <1>7, <3>1, <3>2, <3>3
    <3>4. CASE n + 1 # k
      <4>1. n + 1 \in 0 .. k - 1
        BY <3>4
      <4>2. way2[n + 1] = way[n + 1 + 1] /\ way[n + 1 + 1] = way[n + 1] + g[way[n + 1]].dir
        BY <1>1, <1>7, <4>1
      <4>3. QED
        BY <3>1, <3>2, <4>2
    <3>5. QED
      BY <3>3, <3>4
  <2>3. \A x \in Fields : g2[x].type = "SNAKE" <=> \E n \in 0 .. k - 1 : way2[n] = x
    <3> TAKE x \in Fields
    <3>1. ASSUME g2[x].type = "SNAKE"
          PROVE  \E n \in 0 .. k - 1 : way2[n] = x
      <4>1. x # to /\ x # way[0] /\ (x = way[k] \/ g[x].type = "SNAKE")
        BY <3>1
      <4>2. PICK n \in 0 .. k : way[n] = x
        BY <1>1, <1>2, <4>1
      <4>3. n # 0
        BY <4>1, <4>2
      <4>4. n - 1 \in 0 .. k - 1 /\ n - 1 + 1 = n
        BY <4>3
      <4>5. way2[n - 1] = x
        BY <1>7, <4>2, <4>4
      <4>6. QED
        BY <4>4, <4>5
    <3>2. ASSUME NEW n \in 0 .. k - 1, way2[n] = x
          PROVE  g2[x].type = "SNAKE"
      <4>1. x = way[n + 1] /\ n + 1 \in 0 .. k /\ n + 1 # 0
        BY <1>2, <1>7, <3>2
      <4>2. x # to /\ x # way[0]
        BY <1>1, <1>2, <1>5, <4>1
      <4>3. x = way[k] \/ g[x].type = "SNAKE"
        <5>1. n + 1 = k \/ n + 1 \in 0 .. k - 1
          OBVIOUS
        <5>2. QED
          BY <1>1, <4>1, <5>1
      <4>4. QED
        BY <4>2, <4>3
    <3>3. QED
      BY <3>1, <3>2
  <2>4. \A x \in Fields : g2[x].type = "SNAKE_HEAD" <=> x = way2[k]
    BY <1>1, <1>3, <1>7
  <2>5. QED
    BY <2>1, <2>2, <2>3, <2>4 DEF Lies
<1>10. QED
  BY <1>4, <1>7, <1>8, <1>9 DEF Placed

\* The snake grows onto the food, and food comes to a field that was empty.
LEMMA Grows ==
  ASSUME NEW k \in Nat, NEW g \in Grids, NEW tail, NEW head, Placed(g, k, tail, head), Around(g),
         NEW to \in Fields, to = head + g[head].dir, g[to].type = "FOOD",
         NEW food \in Fields, g[food].type = "EMPTY",
         NEW g1 \in Grids, FoodAt(g, g1, food), NEW g2 \in Grids, HeadGoes(g1, g2, head, to)
  PROVE  Around(g2) /\ Placed(g2, k + 1, tail, to)
<1>0. PICK way \in [0 .. k -> Fields] : Lies(g, way, k) /\ way[0] = tail /\ way[k] = head
  BY DEF Placed
<1> USE <1>0 DEF FoodAt, HeadGoes
<1>1. /\ \A m, n \in 0 .. k : way[m] = way[n] => m = n
      /\ \A n \in 0 .. k - 1 : way[n + 1] = way[n] + g[way[n]].dir
      /\ \A x \in Fields : g[x].type = "SNAKE" <=> \E n \in 0 .. k - 1 : way[n] = x
      /\ \A x \in Fields : g[x].type = "SNAKE_HEAD" <=> x = way[k]
  BY DEF Lies
<1>2. /\ 0 \in 0 .. k /\ k \in 0 .. k
      /\ \A n \in 0 .. k - 1 : n \in 0 .. k /\ n + 1 \in 0 .. k /\ n # k
      /\ \A n \in 0 .. k : way[n] \in Fields /\ (n = k \/ n \in 0 .. k - 1)
  OBVIOUS
<1>3. /\ \A n \in 0 .. k : g[way[n]].type \in {"SNAKE", "SNAKE_HEAD"}
      /\ \A n \in 0 .. k : way[n] # to /\ way[n] # food
      /\ to # food
  <2>1. \A n \in 0 .. k : g[way[n]].type \in {"SNAKE", "SNAKE_HEAD"}
    BY <1>1, <1>2
  <2>2. g[to].type = "FOOD" /\ g[food].type = "EMPTY"
    OBVIOUS
  <2>3. QED
    BY <2>1, <2>2
<1>4. Around(g2)
  <2>1. \A x \in Fields : g2[x].type = "BORDER" <=> g[x].type = "BORDER"
    BY <1>1, <1>2
  <2>2. PICK f \in Fields : \A x \in Fields : g[x].type = "FOOD" <=> x = f
    BY DEF Around
  <2>3. f = to
    BY <2>2
  <2>4. \A x \in Fields : g2[x].type = "FOOD" <=> x = food
    BY <1>2, <1>3, <2>2, <2>3
  <2>5. QED
    BY <2>1, <2>4 DEF Around
<1>5. PICK way2 \in [0 .. k + 1 -> Fields] : way2[k + 1] = to /\ \A n \in 0 .. k : way2[n] = way[n]
  <2> DEFINE a == [n \in 0 .. k + 1 |-> IF n = k + 1 THEN to ELSE way[n]]
  <2>1. \A n \in 0 .. k + 1 : n # k + 1 => n \in 0 .. k
    OBVIOUS
  <2>2. a \in [0 .. k + 1 -> Fields]
    BY <1>2, <2>1
  <2>3. \A n \in 0 .. k : n # k + 1 /\ n \in 0 .. k + 1
    OBVIOUS
  <2>4. k + 1 \in 0 .. k + 1
    OBVIOUS
  <2>5. a[k + 1] = to /\ \A n \in 0 .. k : a[n] = way[n]
    BY <2>3, <2>4
  <2>6. QED
    BY <2>2, <2>5
<1>6. \A n \in 0 .. k + 1 : n = k + 1 \/ n \in 0 .. k
  OBVIOUS
<1>7. (k + 1) - 1 = k
  OBVIOUS
<1>8. Lies(g2, way2, k + 1)
  <2>1. \A m, n \in 0 .. k + 1 : way2[m] = way2[n] => m = n
    BY <1>1, <1>3, <1>5, <1>6
  <2>2. \A n \in 0 .. k : way2[n + 1] = way2[n] + g2[way2[n]].dir
    <3> SUFFICES ASSUME NEW n \in 0 .. k PROVE way2[n + 1] = way2[n] + g2[way2[n]].dir
      OBVIOUS
    <3>1. way2[n] = way[n] /\ g2[way2[n]].dir = g[way[n]].dir
      <4>1. PICK x \in Fields : x = way[n] /\ x # to
        BY <1>2, <1>3
      <4>2. g2[x].dir = g[x].dir
        BY <4>1
      <4>3. QED
        BY <1>5, <4>1, <4>2
    <3>2. CASE n = k
      BY <1>5, <3>1, <3>2
    <3>3. CASE n # k
      <4>1. n \in 0 .. k - 1 /\ n + 1 \in 0 .. k
        BY <1>2, <3>3
      <4>2. QED
        BY <1>1, <1>5, <3>1, <4>1
    <3>4. QED
      BY <3>2, <3>3
  <2>3. \A x \in Fields : g2[x].type = "SNAKE" <=> \E n \in 0 .. k : way2[n] = x
    <3> TAKE x \in Fields
    <3>1. ASSUME g2[x].type = "SNAKE"
          PROVE  \E n \in 0 .. k : way2[n] = x
      <4>1. x = way[k] \/ g[x].type = "SNAKE"
        BY <3>1
      <4>2. PICK n \in 0 .. k : way[n] = x
        BY <1>1, <1>2, <4>1
      <4>3. QED
        BY <1>5, <4>2
    <3>2. ASSUME NEW n \in 0 .. k, way2[n] = x
          PROVE  g2[x].type = "SNAKE"
      <4>1. x = way[n] /\ x # to /\ x # food
        BY <1>3, <1>5, <3>2
      <4>2. x = way[k] \/ g[x].type = "SNAKE"
        BY <1>1, <1>2, <4>1
      <4>3. QED
        BY <4>1, <4>2
    <3>3. QED
      BY <3>1, <3>2
  <2>4. \A x \in Fields : g2[x].type = "SNAKE_HEAD" <=> x = way2[k + 1]
    BY <1>1, <1>2, <1>3, <1>5
  <2>5. QED
    BY <1>7, <2>1, <2>2, <2>3, <2>4 DEF Lies
<1>9. way2[0] = way[0]
  BY <1>2, <1>5
<1>10. QED
  BY <1>4, <1>5, <1>8, <1>9 DEF Placed

\* A turn changes the direction in the head's field, which leads nowhere yet.
LEMMA TurnedLies ==
  ASSUME PlayTyped, SnakeLives
  PROVE  /\ Turned \in Grids /\ Around(Turned)
         /\ \A x \in Fields : Turned[x].type = grid[x].type
         /\ Placed(Turned, play.score, snake.tail, snake.head)
<1>1. PICK way \in [0 .. play.score -> Fields] :
        Lies(grid, way, play.score) /\ way[0] = snake.tail /\ way[play.score] = snake.head
  BY DEF SnakeLives, Placed
<1>2. PICK k \in Nat : k = play.score
  BY DEF PlayTyped
<1>3. PICK head \in Fields, turn \in Turns : head = snake.head /\ turn = snake.newDir
  BY DEF SnakeLives
<1>4. grid \in Grids /\ Around(grid)
  BY DEF SnakeLives
<1>5. PICK g \in Grids : /\ g = Turned
                         /\ \A x \in Fields : g[x].type = grid[x].type /\ (x # head => g[x].dir = grid[x].dir)
  <2>1. CASE turn = 0
    BY <1>3, <1>4, <2>1 DEF Turned
  <2>2. CASE turn # 0
    <3>1. PICK r \in [type : Types, dir : Turns] : r = [grid[head] EXCEPT !.dir = turn] /\ r.type = grid[head].type
      <4>1. PICK o \in [type : Types, dir : Turns] : o = grid[head]
        BY <1>3, <1>4 DEF Grids
      <4>2. PICK r : r = [o EXCEPT !.dir = turn]
        OBVIOUS
      <4>3. r \in [type : Types, dir : Turns] /\ r.type = o.type
        BY <4>2
      <4>4. QED
        BY <4>1, <4>2, <4>3
    <3>2. Turned = [grid EXCEPT ![head] = r]
      BY <1>3, <2>2, <3>1 DEF Turned
    <3>3. QED
      BY <1>4, <3>1, <3>2 DEF Grids
  <2>3. QED
    BY <2>1, <2>2
<1>6. Around(g)
  BY <1>4, <1>5 DEF Around
<1>7. Lies(g, way, k)
  <2>1. \A n \in 0 .. k - 1 : n \in 0 .. k /\ n # k
    OBVIOUS
  <2>2. k \in 0 .. k
    OBVIOUS
  <2>3. \A n \in 0 .. k - 1 : way[n] # head /\ way[n] \in Fields
    BY <1>1, <1>2, <1>3, <2>1, <2>2 DEF Lies
  <2>4. \A n \in 0 .. k - 1 : way[n + 1] = way[n] + g[way[n]].dir
    BY <1>1, <1>2, <1>5, <2>3 DEF Lies
  <2>5. QED
    BY <1>1, <1>2, <1>5, <2>4 DEF Lies
<1>8. QED
  BY <1>1, <1>2, <1>5, <1>6, <1>7 DEF Placed

\* What the move of the head does to the grid,
LEMMA HeadMovedIs ==
  ASSUME NEW g \in Grids, NEW head \in Fields, NEW to \in Fields, to # head,
         NEW h, h = HeadMoved(g, head, to)
  PROVE  h \in Grids /\ HeadGoes(g, h, head, to)
<1>1. PICK o \in [type : Types, dir : Turns] : o = g[head]
  BY DEF Grids
<1>2. PICK r \in [type : Types, dir : Turns] : r = [type |-> "SNAKE_HEAD", dir |-> o.dir]
  BY <1>1 DEF Types
<1>3. PICK g1 \in Grids : g1 = [g EXCEPT ![to] = r]
  BY <1>2 DEF Grids
<1>4. g1[head] = o /\ g1[to] = r /\ \A x \in Fields : x # to => g1[x] = g[x]
  BY <1>1, <1>3 DEF Grids
<1>5. PICK q : q = [o EXCEPT !.type = "SNAKE"]
  OBVIOUS
<1>6. q \in [type : Types, dir : Turns] /\ q.type = "SNAKE" /\ q.dir = o.dir
  BY <1>1, <1>5 DEF Types
<1>7. PICK g2 \in Grids : g2 = [g1 EXCEPT ![head] = q]
  BY <1>6 DEF Grids
<1>8. g2[head] = q /\ \A x \in Fields : x # head => g2[x] = g1[x]
  BY <1>7 DEF Grids
<1>9. HeadMoved(g, head, to) = g2
  BY <1>1, <1>2, <1>3, <1>4, <1>5, <1>7 DEF HeadMoved
<1>10. r.type = "SNAKE_HEAD"
  BY <1>2
<1>11. QED
  BY <1>1, <1>4, <1>6, <1>8, <1>9, <1>10 DEF HeadGoes

\* and what the move of the tail does.
LEMMA TailMovedIs ==
  ASSUME NEW g \in Grids, NEW tail \in Fields, NEW h, h = TailMoved(g, tail)
  PROVE  h \in Grids /\ TailGoes(g, h, tail)
<1>1. PICK o \in [type : Types, dir : Turns] : o = g[tail]
  BY DEF Grids
<1>2. PICK q : q = [o EXCEPT !.type = "EMPTY"]
  OBVIOUS
<1>3. q \in [type : Types, dir : Turns] /\ q.type = "EMPTY" /\ q.dir = o.dir
  BY <1>1, <1>2 DEF Types
<1>4. PICK g2 \in Grids : g2 = [g EXCEPT ![tail] = q]
  BY <1>3 DEF Grids
<1>5. g2[tail] = q /\ \A x \in Fields : x # tail => g2[x] = g[x]
  BY <1>4 DEF Grids
<1>6. TailMoved(g, tail) = g2
  BY <1>1, <1>2, <1>4 DEF TailMoved
<1>7. QED
  BY <1>1, <1>3, <1>5, <1>6 DEF TailGoes

\* What a move starts from, in the grid with the direction set.
LEMMA MovingFrom ==
  ASSUME PlayTyped, ~play.over => SnakeLives, Moving
  PROVE  /\ SnakeLives /\ ~play.over /\ ~play.stuck
         /\ snake.head \in Fields /\ snake.tail \in Fields
         /\ Turned \in Grids /\ Around(Turned) /\ \A x \in Fields : Turned[x].type = grid[x].type
         /\ NewHead \in Fields /\ NewHead # snake.head
         /\ NewTail \in Fields
         /\ Placed(Turned, play.score, snake.tail, snake.head)
<1>1. SnakeLives /\ ~play.over /\ ~play.stuck /\ Turned[snake.head].dir # 0
  BY DEF Moving
<1>2. PICK way \in [0 .. play.score -> Fields] :
        Lies(Turned, way, play.score) /\ way[0] = snake.tail /\ way[play.score] = snake.head
  BY <1>1, TurnedLies DEF Placed
<1>3. PICK g \in Grids : g = Turned /\ Around(g)
  BY <1>1, TurnedLies
<1>4. PICK k \in Nat : k = play.score
  BY DEF PlayTyped
<1>5. PICK head \in Fields, tail \in Fields : head = snake.head /\ tail = snake.tail
  BY <1>1 DEF SnakeLives
<1>6. \A n \in 0 .. k : g[way[n]].type \in {"SNAKE", "SNAKE_HEAD"} /\ way[n] \in Fields
  <2>1. \A n \in 0 .. k : n = k \/ n \in 0 .. k - 1
    OBVIOUS
  <2>2. QED
    BY <1>2, <1>3, <1>4, <2>1 DEF Lies
<1>7. 0 \in 0 .. k /\ k \in 0 .. k
  OBVIOUS
<1>8. head \in Fields \ Border /\ tail \in Fields \ Border
  <2>1. g[head].type # "BORDER" /\ g[tail].type # "BORDER"
    BY <1>2, <1>4, <1>5, <1>6, <1>7
  <2>2. QED
    BY <1>3, <2>1 DEF Around
<1>9. g[head].dir \in Turns /\ g[tail].dir \in Turns /\ g[head].dir # 0
  BY <1>1, <1>3, <1>5 DEF Grids
<1>10. head + g[head].dir \in Fields /\ tail + g[tail].dir \in Fields
  BY <1>8, <1>9, Inside
<1>11. head + g[head].dir # head
  <2>1. Turns \subseteq Int /\ Fields \subseteq Int
    BY SnakeFits DEF Turns, Directions, Fields
  <2>2. head \in Int /\ g[head].dir \in Int
    BY <1>5, <1>9, <2>1
  <2>3. QED
    BY <1>9, <2>2
<1>12. QED
  BY <1>1, <1>2, <1>3, <1>5, <1>10, <1>11, TurnedLies DEF NewHead, NewTail

LEMMA SnakeInitIInv ==
  ASSUME SnakeInit
  PROVE  SnakeIInv
<1>0. PICK empty :
        empty = [f \in Fields |-> [type |-> IF f \in Border THEN "BORDER"
                                            ELSE IF f = Middle THEN "SNAKE_HEAD" ELSE "EMPTY", dir |-> 0]]
  OBVIOUS
<1>1. PICK food \in Fields : empty[food].type = "EMPTY" /\ grid = [empty EXCEPT ![food].type = "FOOD"]
  BY <1>0 DEF SnakeInit, Of
<1>2. /\ snake = [head |-> Middle, tail |-> Middle, newDir |-> 0]
      /\ play = [score |-> 0, over |-> FALSE, stuck |-> FALSE]
  BY DEF SnakeInit
<1>3. Middle \in Fields /\ Middle \notin Border /\ 0 \in Turns
  BY MiddleInside DEF Turns
<1>4. PICK o \in [type : Types, dir : Turns] : o = empty[food]
  BY <1>0, <1>1, <1>3 DEF Types
<1>5. empty \in Grids
  BY <1>0, <1>3 DEF Grids, Types
<1>6. PICK q : q = [o EXCEPT !.type = "FOOD"]
  OBVIOUS
<1>7. q \in [type : Types, dir : Turns] /\ q.type = "FOOD"
  BY <1>6 DEF Types
<1>8. grid = [empty EXCEPT ![food] = q]
  BY <1>1, <1>4, <1>6
<1>9. grid \in Grids /\ \A x \in Fields : grid[x].type = IF x = food THEN "FOOD" ELSE empty[x].type
  BY <1>5, <1>7, <1>8 DEF Grids
<1>10. /\ \A x \in Fields : empty[x].type = IF x \in Border THEN "BORDER"
                                            ELSE IF x = Middle THEN "SNAKE_HEAD" ELSE "EMPTY"
       /\ food \notin Border /\ food # Middle
  BY <1>0, <1>1
<1>11. Around(grid)
  BY <1>9, <1>10 DEF Around
<1>12. PICK way \in [0 .. 0 -> Fields] : way[0] = Middle
  <2> DEFINE a == [n \in 0 .. 0 |-> Middle]
  <2>1. a \in [0 .. 0 -> Fields] /\ a[0] = Middle
    BY <1>3
  <2>2. QED
    BY <2>1
<1>13. Lies(grid, way, 0)
  <2>1. 0 .. 0 - 1 = {} /\ \A n \in 0 .. 0 : n = 0
    OBVIOUS
  <2>2. \A x \in Fields : grid[x].type # "SNAKE" /\ (grid[x].type = "SNAKE_HEAD" <=> x = Middle)
    BY <1>3, <1>9, <1>10
  <2>3. QED
    BY <1>12, <2>1, <2>2 DEF Lies
<1>14. snake \in [head : Fields, tail : Fields, newDir : Turns]
  BY <1>2, <1>3
<1>15. PlayTyped
  BY <1>2 DEF PlayTyped
<1>16. SnakeLives
  BY <1>2, <1>9, <1>11, <1>12, <1>13, <1>14 DEF SnakeLives, Placed
<1>17. QED
  BY <1>15, <1>16 DEF SnakeIInv

LEMMA SetDirIInv ==
  ASSUME SnakeIInv, SnakeSetDir
  PROVE  SnakeIInv'
<1>1. /\ PlayTyped /\ SnakeLives /\ grid' = grid /\ play' = play
      /\ \E d \in Turns : snake' = [snake EXCEPT !.newDir = d]
  BY DEF SnakeIInv, SnakeSetDir, Turns
<1>2. snake \in [head : Fields, tail : Fields, newDir : Turns]
  BY <1>1 DEF SnakeLives
<1>3. /\ snake' \in [head : Fields, tail : Fields, newDir : Turns]
      /\ snake'.head = snake.head /\ snake'.tail = snake.tail
  BY <1>1, <1>2
<1>4. QED
  BY <1>1, <1>3 DEF SnakeIInv, PlayTyped, SnakeLives

\* The head moves and the tail follows, on an empty field or where the tail was.
LEMMA FollowIInv ==
  ASSUME SnakeIInv, Moving, NEW g2 \in Grids,
         Turned[NewHead].type = "EMPTY" \/ (Turned[NewHead].type = "SNAKE" /\ NewHead = snake.tail),
         BothGo(Turned, g2, snake.tail, snake.head, NewHead),
         grid' = g2, snake' = [head |-> NewHead, tail |-> NewTail, newDir |-> 0], play' = play
  PROVE  SnakeIInv'
<1>1. PlayTyped /\ (~play.over => SnakeLives)
  BY DEF SnakeIInv
<1>2. /\ ~play.stuck /\ Turned \in Grids /\ Around(Turned)
      /\ NewHead \in Fields /\ NewTail \in Fields
  BY <1>1, MovingFrom
<1>3. PICK k \in Nat, tail \in Fields, head \in Fields, to \in Fields, g \in Grids :
        k = play.score /\ tail = snake.tail /\ head = snake.head /\ to = NewHead /\ g = Turned
  BY <1>1, <1>2, MovingFrom DEF PlayTyped
<1>4. to = head + g[head].dir /\ NewTail = tail + g[tail].dir
  BY <1>3 DEF NewHead, NewTail
<1>5. /\ g[to].type = "EMPTY" \/ (g[to].type = "SNAKE" /\ to = tail)
      /\ BothGo(g, g2, tail, head, to)
      /\ Around(g) /\ Placed(g, k, tail, head)
  BY <1>1, <1>2, <1>3, MovingFrom
<1>6. Around(g2) /\ Placed(g2, k, tail + g[tail].dir, to)
  BY <1>4, <1>5, Follows
<1>7. /\ snake' \in [head : Fields, tail : Fields, newDir : Turns]
      /\ snake'.head = to /\ snake'.tail = tail + g[tail].dir
  <2>1. 0 \in Turns
    BY DEF Turns
  <2>2. QED
    BY <1>2, <1>3, <1>4, <2>1
<1>8. play'.score = k /\ ~play'.stuck /\ PlayTyped'
  BY <1>1, <1>2, <1>3 DEF PlayTyped
<1>9. SnakeLives'
  BY <1>6, <1>7, <1>8 DEF SnakeLives
<1>10. QED
  BY <1>8, <1>9 DEF SnakeIInv

LEMMA ChaseIInv ==
  ASSUME SnakeIInv, Chase
  PROVE  SnakeIInv'
<1>1. /\ Moving /\ Turned[NewHead].type = "SNAKE" /\ NewHead = snake.tail
      /\ grid' = Chased(Turned) /\ snake' = [head |-> NewHead, tail |-> NewTail, newDir |-> 0]
      /\ play' = play
  BY DEF Chase
<1>2. PlayTyped /\ (~play.over => SnakeLives)
  BY DEF SnakeIInv
<1>3. PICK head \in Fields, tail \in Fields, to \in Fields, g \in Grids :
        head = snake.head /\ tail = snake.tail /\ to = NewHead /\ g = Turned /\ to # head
  BY <1>1, <1>2, MovingFrom
<1>4. PICK g1 : g1 = TailMoved(g, tail)
  OBVIOUS
<1>5. g1 \in Grids /\ TailGoes(g, g1, tail)
  BY <1>4, TailMovedIs
<1>6. PICK g2 : g2 = HeadMoved(g1, head, to)
  OBVIOUS
<1>7. g2 \in Grids /\ HeadGoes(g1, g2, head, to)
  BY <1>3, <1>5, <1>6, HeadMovedIs
<1>8. grid' = g2
  BY <1>1, <1>3, <1>4, <1>6 DEF Chased
<1>9. BothGo(g, g2, tail, head, to)
  BY <1>1, <1>3, <1>5, <1>7 DEF TailGoes, HeadGoes, BothGo
<1>10. BothGo(Turned, g2, snake.tail, snake.head, NewHead)
  BY <1>3, <1>9
<1>11. QED
  BY <1>1, <1>7, <1>8, <1>10, FollowIInv

LEMMA CrawlIInv ==
  ASSUME SnakeIInv, Crawl
  PROVE  SnakeIInv'
<1>1. /\ Moving /\ Turned[NewHead].type = "EMPTY"
      /\ grid' = TailMoved(HeadMoved(Turned, snake.head, NewHead), snake.tail)
      /\ snake' = [head |-> NewHead, tail |-> NewTail, newDir |-> 0]
      /\ play' = play
  BY DEF Crawl
<1>2. PlayTyped /\ (~play.over => SnakeLives)
  BY DEF SnakeIInv
<1>3. PICK head \in Fields, tail \in Fields, to \in Fields, g \in Grids :
        head = snake.head /\ tail = snake.tail /\ to = NewHead /\ g = Turned /\ to # head
  BY <1>1, <1>2, MovingFrom
<1>4. PICK g1 : g1 = HeadMoved(g, head, to)
  OBVIOUS
<1>5. g1 \in Grids /\ HeadGoes(g, g1, head, to)
  BY <1>3, <1>4, HeadMovedIs
<1>6. PICK g2 : g2 = TailMoved(g1, tail)
  OBVIOUS
<1>7. g2 \in Grids /\ TailGoes(g1, g2, tail)
  BY <1>5, <1>6, TailMovedIs
<1>8. grid' = g2
  BY <1>1, <1>3, <1>4, <1>6
\* The new head is not where the tail is.
<1>9. to # tail
  <2>1. PICK way \in [0 .. play.score -> Fields] :
          Lies(g, way, play.score) /\ way[0] = tail /\ way[play.score] = head
    BY <1>1, <1>2, <1>3, MovingFrom DEF Placed
  <2>2. PICK k \in Nat : k = play.score
    BY <1>2 DEF PlayTyped
  <2>3. CASE k = 0
    BY <1>3, <2>1, <2>2, <2>3
  <2>4. CASE k # 0
    <3>1. 0 \in 0 .. k - 1
      BY <2>4
    <3>2. g[tail].type = "SNAKE"
      BY <2>1, <2>2, <3>1 DEF Lies
    <3>3. QED
      BY <1>1, <1>3, <3>2
  <2>5. QED
    BY <2>3, <2>4
<1>10. BothGo(g, g2, tail, head, to)
  BY <1>3, <1>5, <1>7, <1>9 DEF TailGoes, HeadGoes, BothGo
<1>11. BothGo(Turned, g2, snake.tail, snake.head, NewHead)
  BY <1>3, <1>10
<1>12. QED
  BY <1>1, <1>7, <1>8, <1>11, FollowIInv

\* Food is placed before the head moves.
LEMMA FoodPlacedIs ==
  ASSUME NEW g \in Grids, NEW food \in Fields, NEW h, h = [g EXCEPT ![food].type = "FOOD"]
  PROVE  h \in Grids /\ FoodAt(g, h, food)
<1>1. PICK o \in [type : Types, dir : Turns] : o = g[food]
  BY DEF Grids
<1>2. PICK q : q = [o EXCEPT !.type = "FOOD"]
  OBVIOUS
<1>3. q \in [type : Types, dir : Turns] /\ q.type = "FOOD" /\ q.dir = o.dir
  BY <1>1, <1>2 DEF Types
<1>4. h = [g EXCEPT ![food] = q]
  BY <1>1, <1>2
<1>5. h \in Grids /\ h[food] = q /\ \A x \in Fields : x # food => h[x] = g[x]
  BY <1>3, <1>4 DEF Grids
<1>6. QED
  BY <1>1, <1>3, <1>5 DEF FoodAt

LEMMA EatIInv ==
  ASSUME SnakeIInv, Eat
  PROVE  SnakeIInv'
<1>1. /\ Moving /\ Turned[NewHead].type = "FOOD"
      /\ snake' = [snake EXCEPT !.head = NewHead, !.newDir = 0]
      /\ play' = [play EXCEPT !.score = play.score + 1]
  BY DEF Eat
<1>2. PICK food \in Fields :
        /\ Turned[food].type = "EMPTY"
        /\ grid' = HeadMoved([Turned EXCEPT ![food].type = "FOOD"], snake.head, NewHead)
  BY DEF Eat, Of
<1>3. PlayTyped /\ (~play.over => SnakeLives)
  BY DEF SnakeIInv
<1>4. SnakeLives /\ ~play.stuck /\ Around(Turned) /\ Placed(Turned, play.score, snake.tail, snake.head)
  BY <1>1, <1>3, MovingFrom
<1>5. PICK k \in Nat, tail \in Fields, head \in Fields, to \in Fields, g \in Grids :
        /\ k = play.score /\ tail = snake.tail /\ head = snake.head /\ to = NewHead /\ g = Turned
        /\ to # head
  BY <1>1, <1>3, MovingFrom DEF PlayTyped
<1>6. to = head + g[head].dir
  BY <1>5 DEF NewHead
<1>7. PICK g1 : g1 = [g EXCEPT ![food].type = "FOOD"]
  OBVIOUS
<1>8. g1 \in Grids /\ FoodAt(g, g1, food)
  BY <1>7, FoodPlacedIs
<1>9. PICK g2 : g2 = HeadMoved(g1, head, to)
  OBVIOUS
<1>10. g2 \in Grids /\ HeadGoes(g1, g2, head, to)
  BY <1>5, <1>8, <1>9, HeadMovedIs
<1>11. grid' = g2
  BY <1>2, <1>5, <1>7, <1>9
<1>12. /\ Placed(g, k, tail, head) /\ Around(g)
       /\ g[to].type = "FOOD" /\ g[food].type = "EMPTY"
  BY <1>1, <1>2, <1>4, <1>5
<1>13. Around(g2) /\ Placed(g2, k + 1, tail, to)
  BY <1>6, <1>8, <1>10, <1>12, Grows
<1>14. /\ snake' \in [head : Fields, tail : Fields, newDir : Turns]
       /\ snake'.head = to /\ snake'.tail = tail
  <2>1. snake \in [head : Fields, tail : Fields, newDir : Turns] /\ 0 \in Turns
    BY <1>4 DEF SnakeLives, Turns
  <2>2. QED
    BY <1>1, <1>5, <2>1
<1>15. PlayTyped' /\ play'.score = k + 1 /\ ~play'.stuck
  BY <1>1, <1>3, <1>4, <1>5 DEF PlayTyped
<1>16. SnakeLives'
  BY <1>10, <1>11, <1>13, <1>14, <1>15 DEF SnakeLives
<1>17. QED
  BY <1>15, <1>16 DEF SnakeIInv

LEMMA EatLastIInv ==
  ASSUME SnakeIInv, EatLast
  PROVE  SnakeIInv'
<1>1. /\ Moving /\ Of(Turned, "EMPTY") = {} /\ grid' = Turned
      /\ snake' = [snake EXCEPT !.newDir = 0]
      /\ play' = [play EXCEPT !.stuck = TRUE]
  BY DEF EatLast
<1>2. PlayTyped /\ (~play.over => SnakeLives)
  BY DEF SnakeIInv
<1>3. /\ SnakeLives /\ Turned \in Grids /\ Around(Turned)
      /\ Placed(Turned, play.score, snake.tail, snake.head)
  BY <1>1, <1>2, MovingFrom
<1>4. /\ snake' \in [head : Fields, tail : Fields, newDir : Turns]
      /\ snake'.head = snake.head /\ snake'.tail = snake.tail
  <2>1. snake \in [head : Fields, tail : Fields, newDir : Turns] /\ 0 \in Turns
    BY <1>3 DEF SnakeLives, Turns
  <2>2. QED
    BY <1>1, <2>1
<1>5. PlayTyped' /\ play'.score = play.score
  BY <1>1, <1>2 DEF PlayTyped
<1>6. \A x \in Fields : Turned[x].type # "EMPTY"
  BY <1>1 DEF Of
<1>7. SnakeLives'
  BY <1>1, <1>3, <1>4, <1>5, <1>6 DEF SnakeLives
<1>8. QED
  BY <1>5, <1>7 DEF SnakeIInv

LEMMA CollideIInv ==
  ASSUME SnakeIInv, Collide
  PROVE  SnakeIInv'
<1>1. PlayTyped /\ play' = [play EXCEPT !.over = TRUE]
  BY DEF SnakeIInv, Collide
<1>2. PlayTyped' /\ play'.over
  BY <1>1 DEF PlayTyped
<1>3. QED
  BY <1>2 DEF SnakeIInv

\* For grids of every size, wherever the food appears and whatever keys are
\* pressed: the directions kept in the grid lead from the tail over every field
\* of the snake to the head, and the game hangs only when no field is left.
THEOREM SnakeWholeHolds == SnakeSpec => []SnakeWhole
<1>1. SnakeInit => SnakeIInv
  BY SnakeInitIInv
<1>2. SnakeIInv /\ [SnakeNext]_snakeVars => SnakeIInv'
  <2>1. SnakeIInv /\ UNCHANGED snakeVars => SnakeIInv'
    BY DEF snakeVars, SnakeIInv, PlayTyped, SnakeLives
  <2>2. QED
    BY <2>1, SetDirIInv, ChaseIInv, CrawlIInv, EatIInv, EatLastIInv, CollideIInv DEF SnakeNext
<1>3. SnakeIInv => SnakeWhole
  BY RunningWhole DEF SnakeIInv, SnakeWhole
<1>4. QED
  BY <1>1, <1>2, <1>3, PTL DEF SnakeSpec

----------------------------------------------------------------------------
(* Tetris. *)

(* Clearing lines. *)

\* The board when the rows above row i have been looked at.
Rows(b) ==
  CHOOSE rows : rows = [i \in 0 .. Height |-> IF i = 0 THEN b ELSE ClearRow(rows[i - 1], i - 1)]

\* The recursive definition of the rows swept so far has a solution.
LEMMA RowsExist ==
  ASSUME NEW b
  PROVE  \E rows : rows = [i \in 0 .. Height |-> IF i = 0 THEN b ELSE ClearRow(rows[i - 1], i - 1)]
<1> DEFINE Solves(rows, k) == rows = [i \in 0 .. k |-> IF i = 0 THEN b ELSE ClearRow(rows[i - 1], i - 1)]
           Good == {k \in 0 .. Height : \E rows : Solves(rows, k)}
<1>1. PICK h \in Nat : h = Height
  BY TetrisAssumption
<1>2. 0 \in Good
  <2> DEFINE r == [i \in 0 .. 0 |-> b]
  <2>1. \A i \in 0 .. 0 : i = 0
    OBVIOUS
  <2>2. Solves(r, 0)
    BY <2>1
  <2>3. \E rows : Solves(rows, 0)
    BY <2>2
  <2>4. 0 \in 0 .. Height
    BY <1>1
  <2>5. QED
    BY <2>3, <2>4
<1>3. ASSUME NEW k \in 0 .. h - 1, k \in Good
      PROVE  k + 1 \in Good
  <2>1. PICK q : Solves(q, k)
    BY <1>3
  <2>2. k \in Nat /\ k + 1 \in 0 .. Height
    BY <1>1
  <2> HIDE DEF ClearRow
  <2> DEFINE r == [i \in 0 .. k + 1 |-> IF i = 0 THEN b ELSE ClearRow(q[i - 1], i - 1)]
  <2>3. \A i \in 0 .. k + 1 : i # 0 => r[i - 1] = q[i - 1]
    <3> SUFFICES ASSUME NEW i \in 0 .. k + 1, i # 0 PROVE r[i - 1] = q[i - 1]
      OBVIOUS
    <3>1. i - 1 \in 0 .. k /\ i - 1 \in 0 .. k + 1
      BY <2>2
    <3>2. q[i - 1] = IF i - 1 = 0 THEN b ELSE ClearRow(q[i - 1 - 1], i - 1 - 1)
      BY <2>1, <3>1
    <3>3. r[i - 1] = IF i - 1 = 0 THEN b ELSE ClearRow(q[i - 1 - 1], i - 1 - 1)
      BY <3>1
    <3>4. QED
      BY <3>2, <3>3
  <2>4. Solves(r, k + 1)
    BY <2>3
  <2>5. QED
    BY <2>2, <2>4
<1>4. h \in 0 .. h
  BY <1>1
<1>5. h \in Good
  BY <1>1, <1>2, <1>3, <1>4, UpTo
<1>6. QED
  BY <1>1, <1>5

\* The sweep looks at the rows one by one.
LEMMA RowsSteps ==
  ASSUME NEW b
  PROVE  /\ Rows(b)[0] = b /\ Swept(b) = Rows(b)[Height]
         /\ \A i \in 0 .. Height - 1 : Rows(b)[i + 1] = ClearRow(Rows(b)[i], i)
<1>1. PICK h \in Nat : h = Height
  BY TetrisAssumption
<1> DEFINE Solves(rows) == rows = [i \in 0 .. Height |-> IF i = 0 THEN b ELSE ClearRow(rows[i - 1], i - 1)]
<1>2. Solves(Rows(b))
  <2>1. \E rows : Solves(rows)
    BY RowsExist
  <2>2. Rows(b) = CHOOSE rows : Solves(rows)
    BY DEF Rows
  <2>3. QED
    BY <2>1, <2>2
<1>3. PICK rows : rows = Rows(b)
  OBVIOUS
<1>4. rows = [i \in 0 .. h |-> IF i = 0 THEN b ELSE ClearRow(rows[i - 1], i - 1)]
  BY <1>1, <1>2, <1>3
<1>5. rows[0] = b
  <2>1. 0 \in 0 .. h
    BY <1>1
  <2>2. QED
    BY <1>4, <2>1
<1>6. Swept(b) = rows[Height]
  BY <1>3 DEF Swept, Rows
<1>7. ASSUME NEW i \in 0 .. h - 1
      PROVE  rows[i + 1] = ClearRow(rows[i], i)
  <2>1. i + 1 \in 0 .. h /\ i + 1 # 0 /\ i + 1 - 1 = i
    BY <1>1
  <2>2. rows[i + 1] = IF i + 1 = 0 THEN b ELSE ClearRow(rows[i + 1 - 1], i + 1 - 1)
    BY <1>4, <2>1
  <2>3. QED
    BY <2>1, <2>2
<1>8. QED
  BY <1>1, <1>3, <1>5, <1>6, <1>7

\* The full rows of b.
FullIn(b) == {i \in 0 .. Height - 1 : Full(b, i)}
\* How many of them are below row y and above row i: so far does a cell in row y
\* fall until row i is looked at.
Between(b, y, i) == Cardinality({j \in FullIn(b) : y < j /\ j < i})

\* How the count of full rows between two rows grows with the second.
LEMMA BetweenIs ==
  ASSUME NEW b, NEW y \in 0 .. Height - 1, NEW i \in 0 .. Height
  PROVE  /\ Between(b, y, i) \in Nat
         /\ y < i => y + Between(b, y, i) < i
         /\ i <= y + 1 => Between(b, y, i) = 0
         /\ i < Height /\ i \notin FullIn(b) => Between(b, y, i + 1) = Between(b, y, i)
         /\ i < Height /\ i \in FullIn(b) /\ y < i => Between(b, y, i + 1) = Between(b, y, i) + 1
<1>1. PICK h \in Nat : h = Height
  BY TetrisAssumption
<1>2. y \in Nat /\ i \in Nat
  BY <1>1
<1> DEFINE J == {j \in FullIn(b) : y < j /\ j < i}
<1>3. J \subseteq (y + 1) .. (i - 1)
  BY <1>1, <1>2 DEF FullIn
<1>4. IsFiniteSet((y + 1) .. (i - 1)) /\ Cardinality((y + 1) .. (i - 1)) = IF y + 1 > i - 1 THEN 0 ELSE i - 1 - (y + 1) + 1
  <2>1. y + 1 \in Int /\ i - 1 \in Int
    BY <1>2
  <2>2. QED
    BY <2>1, FS_Interval
<1>5. IsFiniteSet(J) /\ Cardinality(J) \in Nat /\ Cardinality(J) <= Cardinality((y + 1) .. (i - 1))
  BY <1>3, <1>4, FS_Subset, FS_CardinalityType
<1>6. y < i => y + Cardinality(J) < i
  BY <1>2, <1>4, <1>5
<1>7. i <= y + 1 => Cardinality(J) = 0
  BY <1>2, <1>4, <1>5
<1> DEFINE J2 == {j \in FullIn(b) : y < j /\ j < i + 1}
<1>8. ASSUME i \notin FullIn(b)
      PROVE  J2 = J
  <2>1. \A j \in FullIn(b) : j \in Nat /\ (j < i + 1 <=> j < i \/ j = i)
    BY <1>1, <1>2 DEF FullIn
  <2>2. QED
    BY <1>8, <2>1
<1>9. ASSUME i \in FullIn(b), y < i
      PROVE  Cardinality(J2) = Cardinality(J) + 1
  <2>1. \A j \in FullIn(b) : j \in Nat /\ (j < i + 1 <=> j < i \/ j = i)
    BY <1>1, <1>2 DEF FullIn
  <2>2. i \in J2 /\ i \notin J
    BY <1>2, <1>9
  <2>3. J2 = J \cup {i}
    BY <2>1, <2>2
  <2>4. QED
    BY <1>5, <2>2, <2>3, FS_AddElement
<1>10. QED
  BY <1>5, <1>6, <1>7, <1>8, <1>9 DEF Between

\* A cell of the board that clearing row i keeps, or lets fall.
LEMMA ClearedCells ==
  ASSUME NEW b \in SUBSET Field, NEW i \in 0 .. Height - 1, Full(b, i), NEW d
  PROVE  d \in ClearRow(b, i) <=>
           \/ d \in b /\ (d[2] > i \/ d[2] = 0)
           \/ \E c \in b : c[2] < i /\ d = <<c[1], c[2] + 1>>
BY DEF ClearRow

\* Clearing a row leaves the pieces in the field,
LEMMA ClearRowField ==
  ASSUME NEW b \in SUBSET Field, NEW i \in 0 .. Height - 1
  PROVE  ClearRow(b, i) \in SUBSET Field
<1>1. PICK h \in Nat : h = Height
  BY TetrisAssumption
<1>2. CASE ~Full(b, i)
  BY <1>2 DEF ClearRow
<1>3. CASE Full(b, i)
  <2> SUFFICES ASSUME NEW d \in ClearRow(b, i) PROVE d \in Field
    OBVIOUS
  <2>1. CASE d \in b
    BY <2>1
  <2>2. ASSUME NEW c \in b, c[2] < i, d = <<c[1], c[2] + 1>>
        PROVE  d \in Field
    <3>1. c[1] \in 0 .. Columns - 1 /\ c[2] \in 0 .. h - 1 /\ c[2] + 1 \in 0 .. h - 1
      BY <1>1, <2>2 DEF Field
    <3>2. QED
      BY <1>1, <2>2, <3>1 DEF Field
  <2>3. QED
    BY <1>3, <2>1, <2>2, ClearedCells
<1>4. QED
  BY <1>2, <1>3

\* Until a row is looked at it and those below it are as they were; the top row
\* never changes.
LEMMA RowsKeep ==
  ASSUME NEW b \in SUBSET Field, NEW i \in 0 .. Height
  PROVE  /\ Rows(b)[i] \in SUBSET Field
         /\ \A c \in Field : c[2] >= i \/ c[2] = 0 => (c \in Rows(b)[i] <=> c \in b)
<1>1. PICK h \in Nat : h = Height
  BY TetrisAssumption
<1> DEFINE Holds(k) == /\ Rows(b)[k] \in SUBSET Field
                       /\ \A c \in Field : c[2] >= k \/ c[2] = 0 => (c \in Rows(b)[k] <=> c \in b)
           Good == {k \in 0 .. h : Holds(k)}
<1>2. 0 \in Good
  BY <1>1, RowsSteps
<1>3. ASSUME NEW k \in 0 .. h - 1, k \in Good
      PROVE  k + 1 \in Good
  <2>1. PICK r \in SUBSET Field : r = Rows(b)[k] /\ Rows(b)[k + 1] = ClearRow(r, k)
    BY <1>1, <1>3, RowsSteps
  <2>2. \A c \in Field : c[2] >= k \/ c[2] = 0 => (c \in r <=> c \in b)
    BY <1>3, <2>1
  <2>3. k + 1 \in 0 .. h /\ k \in 0 .. Height - 1 /\ k \in Nat
    BY <1>1
  <2>4. ClearRow(r, k) \in SUBSET Field
    BY <2>3, ClearRowField
  <2>5. ASSUME NEW c \in Field, c[2] >= k + 1 \/ c[2] = 0
        PROVE  c \in ClearRow(r, k) <=> c \in b
    <3>1. c[2] \in Nat /\ (c[2] > k \/ c[2] = 0) /\ (c \in r <=> c \in b)
      BY <1>1, <2>2, <2>3, <2>5 DEF Field
    <3>2. CASE ~Full(r, k)
      BY <3>1, <3>2 DEF ClearRow
    <3>3. CASE Full(r, k)
      <4>1. ~\E d \in r : d[2] < k /\ c = <<d[1], d[2] + 1>>
        <5>1. \A d \in r : d[2] \in Nat
          BY <1>1 DEF Field
        <5>2. SUFFICES ASSUME NEW d \in r, d[2] < k, c = <<d[1], d[2] + 1>> PROVE FALSE
          OBVIOUS
        <5>3. c[2] = d[2] + 1
          BY <5>2
        <5>4. QED
          BY <2>3, <3>1, <5>1, <5>2, <5>3
      <4>2. QED
        BY <2>3, <3>1, <3>3, <4>1, ClearedCells
    <3>4. QED
      BY <3>2, <3>3
  <2>6. QED
    BY <2>1, <2>3, <2>4, <2>5
<1>4. QED
  BY <1>1, <1>2, <1>3, UpTo

\* Where the cells are when the rows above row i have been looked at, if the top
\* row is empty or no row is full.
LEMMA RowsFall ==
  ASSUME NEW b \in SUBSET Field, FullIn(b) = {} \/ \A c \in b : c[2] # 0, NEW i \in 0 .. Height, NEW d
  PROVE  d \in Rows(b)[i] <=>
           \/ d \in b /\ d[2] >= i
           \/ \E c \in b : c[2] < i /\ c[2] \notin FullIn(b) /\ d = <<c[1], c[2] + Between(b, c[2], i)>>
<1>1. PICK h \in Nat : h = Height
  BY TetrisAssumption
<1> DEFINE Falls(k, x) == \/ x \in b /\ x[2] >= k
                          \/ \E c \in b : /\ c[2] < k /\ c[2] \notin FullIn(b)
                                          /\ x = <<c[1], c[2] + Between(b, c[2], k)>>
           Good == {k \in 0 .. h : \A x : x \in Rows(b)[k] <=> Falls(k, x)}
<1>2. \A c \in b : c \in Field /\ c[1] \in 0 .. Columns - 1 /\ c[2] \in 0 .. h - 1 /\ c = <<c[1], c[2]>>
  BY <1>1 DEF Field
<1>3. 0 \in Good
  <2>1. Rows(b)[0] = b
    BY RowsSteps
  <2>2. \A c \in b : c[2] >= 0 /\ ~(c[2] < 0)
    BY <1>2
  <2>3. QED
    BY <1>1, <2>1, <2>2
<1>4. ASSUME NEW k \in 0 .. h - 1, k \in Good
      PROVE  k + 1 \in Good
  <2>1. PICK r \in SUBSET Field : r = Rows(b)[k] /\ Rows(b)[k + 1] = ClearRow(r, k)
    BY <1>1, RowsKeep, RowsSteps
  <2>2. \A x : x \in r <=> Falls(k, x)
    BY <1>4, <2>1
  <2>3. k \in Nat /\ k + 1 \in 0 .. h /\ k \in 0 .. Height - 1 /\ k < Height /\ k \in 0 .. Height
    BY <1>1
  <2>4. \A c \in Field : c[2] >= k \/ c[2] = 0 => (c \in r <=> c \in b)
    BY <2>1, <2>3, RowsKeep
  <2>5. Full(r, k) <=> k \in FullIn(b)
    <3>1. \A x \in 0 .. Columns - 1 : <<x, k>> \in Field /\ <<x, k>>[2] = k
      BY <2>3 DEF Field
    <3>2. QED
      BY <2>3, <2>4, <3>1 DEF Full, FullIn
  <2>6. CASE k \notin FullIn(b)
    <3>1. Rows(b)[k + 1] = r
      BY <2>1, <2>5, <2>6 DEF ClearRow
    <3>2. \A y \in 0 .. h - 1 : Between(b, y, k + 1) = Between(b, y, k) /\ (y = k => Between(b, y, k) = 0)
      BY <1>1, <2>3, <2>6, BetweenIs
    <3>3. ASSUME NEW x
          PROVE  Falls(k, x) <=> Falls(k + 1, x)
      <4>1. ASSUME x \in b, x[2] = k
            PROVE  Falls(k + 1, x)
        <5>1. x[2] < k + 1 /\ x[2] \notin FullIn(b) /\ x[2] \in 0 .. h - 1 /\ x = <<x[1], x[2]>>
          BY <1>2, <2>3, <2>6, <4>1
        <5>2. Between(b, x[2], k + 1) = 0 /\ x[2] + 0 = x[2]
          BY <3>2, <4>1, <5>1
        <5>3. x = <<x[1], x[2] + Between(b, x[2], k + 1)>>
          BY <5>1, <5>2
        <5>4. QED
          BY <4>1, <5>1, <5>3
      <4>2. ASSUME NEW c \in b, c[2] < k + 1, ~(c[2] < k), x = <<c[1], c[2] + Between(b, c[2], k + 1)>>
            PROVE  x \in b /\ x[2] >= k
        <5>1. c[2] = k /\ c[2] \in 0 .. h - 1
          BY <1>2, <2>3, <4>2
        <5>2. Between(b, c[2], k + 1) = 0 /\ c[2] + 0 = c[2]
          BY <3>2, <5>1
        <5>3. x = c
          BY <1>2, <4>2, <5>2
        <5>4. QED
          BY <2>3, <5>1, <5>3
      <4>3. \A c \in b : /\ c[2] \in 0 .. h - 1
                         /\ c[2] < k => c[2] < k + 1
                         /\ c[2] >= k <=> c[2] = k \/ c[2] >= k + 1
        BY <1>2, <2>3
      <4>4. \A c \in b : Between(b, c[2], k + 1) = Between(b, c[2], k)
        BY <3>2, <4>3
      <4>5. ASSUME Falls(k, x)
            PROVE  Falls(k + 1, x)
        <5>1. CASE x \in b /\ x[2] >= k
          BY <4>1, <4>3, <5>1
        <5>2. ASSUME NEW c \in b, c[2] < k, c[2] \notin FullIn(b), x = <<c[1], c[2] + Between(b, c[2], k)>>
              PROVE  Falls(k + 1, x)
          BY <4>3, <4>4, <5>2
        <5>3. QED
          BY <4>5, <5>1, <5>2
      <4>6. ASSUME Falls(k + 1, x)
            PROVE  Falls(k, x)
        <5>1. CASE x \in b /\ x[2] >= k + 1
          BY <4>3, <5>1
        <5>2. ASSUME NEW c \in b, c[2] < k + 1, c[2] \notin FullIn(b), x = <<c[1], c[2] + Between(b, c[2], k + 1)>>
              PROVE  Falls(k, x)
          BY <4>2, <4>4, <5>2
        <5>3. QED
          BY <4>6, <5>1, <5>2
      <4>7. QED
        BY <4>5, <4>6
    <3>4. QED
      BY <2>2, <2>3, <3>1, <3>3
  <2>7. CASE k \in FullIn(b)
    <3>1. \A c \in b : c[2] # 0
      BY <2>7
    <3>2. \A y \in 0 .. h - 1 : /\ Between(b, y, k) \in Nat
                                /\ y < k => Between(b, y, k + 1) = Between(b, y, k) + 1 /\ y + Between(b, y, k) < k
      BY <1>1, <2>3, <2>7, BetweenIs
    <3>3. \A x : x \in ClearRow(r, k) <=>
                   \/ x \in r /\ (x[2] > k \/ x[2] = 0)
                   \/ \E e \in r : e[2] < k /\ x = <<e[1], e[2] + 1>>
      BY <2>3, <2>5, <2>7, ClearedCells
    <3>4. ASSUME NEW x
          PROVE  x \in ClearRow(r, k) <=> Falls(k + 1, x)
      <4>1. \A c \in b : c[2] \in Nat /\ c[2] \in 0 .. h - 1 /\ (c[2] > k <=> c[2] >= k + 1)
        BY <1>2, <2>3
      \* No cell that has fallen is in row k or below it, and none in the top row.
      <4>2. ASSUME x \in r, x[2] > k \/ x[2] = 0
            PROVE  Falls(k + 1, x)
        <5>1. x \in Field /\ x[2] \in Nat
          BY <1>1, <4>2 DEF Field
        <5>2. x \in b
          BY <2>3, <2>4, <4>2, <5>1
        <5>3. QED
          BY <3>1, <4>1, <4>2, <5>2
      <4>3. ASSUME NEW e \in r, e[2] < k, x = <<e[1], e[2] + 1>>
            PROVE  Falls(k + 1, x)
        <5>1. Falls(k, e)
          BY <2>2
        <5>2. PICK c \in b : c[2] < k /\ c[2] \notin FullIn(b) /\ e = <<c[1], c[2] + Between(b, c[2], k)>>
          BY <2>3, <4>1, <4>3, <5>1
        <5>3. c[2] \in Nat /\ c[2] \in 0 .. h - 1 /\ c[2] < k + 1
          BY <2>3, <4>1, <5>2
        <5>4. Between(b, c[2], k + 1) = Between(b, c[2], k) + 1 /\ Between(b, c[2], k) \in Nat
          BY <3>2, <5>2, <5>3
        <5>5. e[1] = c[1] /\ e[2] + 1 = c[2] + Between(b, c[2], k + 1)
          BY <5>2, <5>3, <5>4
        <5>6. x = <<c[1], c[2] + Between(b, c[2], k + 1)>>
          BY <4>3, <5>5
        <5>7. QED
          BY <5>2, <5>3, <5>6
      <4>4. ASSUME x \in b, x[2] >= k + 1
            PROVE  x \in r /\ x[2] > k
        BY <1>2, <2>3, <2>4, <4>1, <4>4
      <4>5. ASSUME NEW c \in b, c[2] < k + 1, c[2] \notin FullIn(b), x = <<c[1], c[2] + Between(b, c[2], k + 1)>>
            PROVE  \E e \in r : e[2] < k /\ x = <<e[1], e[2] + 1>>
        <5>1. c[2] < k /\ c[2] \in 0 .. h - 1 /\ c[2] \in Nat
          BY <2>3, <2>7, <4>1, <4>5
        <5>2. PICK n \in Nat : n = Between(b, c[2], k) /\ Between(b, c[2], k + 1) = n + 1 /\ c[2] + n < k
          BY <3>2, <5>1
        <5>3. PICK e : e = <<c[1], c[2] + n>>
          OBVIOUS
        <5>4. e \in r
          BY <2>2, <4>5, <5>1, <5>2, <5>3
        <5>5. e[2] < k /\ e[1] = c[1] /\ e[2] + 1 = c[2] + (n + 1)
          BY <5>1, <5>2, <5>3
        <5>6. QED
          BY <4>5, <5>2, <5>4, <5>5
      <4>6. QED
        BY <3>3, <4>2, <4>3, <4>4, <4>5
    <3>5. QED
      BY <2>1, <2>3, <3>4
  <2>8. QED
    BY <2>6, <2>7
<1>5. i \in Good
  BY <1>1, <1>3, <1>4, UpTo
<1>6. QED
  BY <1>5

\* What clearing the lines of the board with the piece locked leaves.
LEMMA SweptCompacted ==
  ASSUME merged \in SUBSET Field
  PROVE  Swept(merged) = Compacted <=> (FullRows = {} \/ \A c \in merged : c[2] # 0)
<1>1. PICK h \in Nat : h = Height /\ h > 0
  BY TetrisAssumption
<1>2. FullRows = FullIn(merged)
  BY DEF FullRows, FullIn
<1>3. \A c \in merged : c \in Field /\ c[2] \in 0 .. h - 1 /\ c[2] \in Nat /\ c[2] < h /\ ~(c[2] >= h)
  BY <1>1 DEF Field
<1>4. \A c \in merged : Cardinality({i \in FullRows : i > c[2]}) = Between(merged, c[2], h)
  <2> SUFFICES ASSUME NEW c \in merged
               PROVE  Cardinality({i \in FullRows : i > c[2]}) = Between(merged, c[2], h)
    OBVIOUS
  <2>1. \A i \in FullRows : i \in Nat /\ i < h /\ (i > c[2] <=> c[2] < i)
    BY <1>1, <1>3 DEF FullRows
  <2>2. {i \in FullRows : i > c[2]} = {j \in FullRows : c[2] < j /\ j < h}
    BY <2>1
  <2>3. QED
    BY <1>2, <2>2 DEF Between
<1>5. \A d : d \in Compacted <=>
        \E c \in merged : c[2] \notin FullRows /\ d = <<c[1], c[2] + Between(merged, c[2], h)>>
  BY <1>4 DEF Compacted
<1>6. h \in 0 .. Height
  BY <1>1
<1>7. ASSUME FullRows = {} \/ \A c \in merged : c[2] # 0
      PROVE  Swept(merged) = Compacted
  <2>1. \A d : d \in Rows(merged)[h] <=>
           \/ d \in merged /\ d[2] >= h
           \/ \E c \in merged : c[2] < h /\ c[2] \notin FullIn(merged) /\ d = <<c[1], c[2] + Between(merged, c[2], h)>>
    BY <1>2, <1>6, <1>7, RowsFall
  <2>2. \A d : d \in Rows(merged)[h] <=> d \in Compacted
    BY <1>2, <1>3, <1>5, <2>1
  <2>3. Swept(merged) = Rows(merged)[h]
    BY <1>1, RowsSteps
  <2>4. QED
    BY <2>2, <2>3, RowsKeep, <1>1, <1>6 DEF Compacted
\* A cell in the top row stays there, and a full row is below it.
<1>8. ASSUME NEW full \in FullRows, NEW c \in merged, c[2] = 0
      PROVE  Swept(merged) # Compacted
  <2>1. c \in Swept(merged)
    <3>1. Swept(merged) = Rows(merged)[h]
      BY <1>1, RowsSteps
    <3>2. QED
      BY <1>3, <1>6, <1>8, <3>1, RowsKeep
  <2>2. SUFFICES ASSUME c \in Compacted PROVE FALSE
    BY <2>1
  <2>3. PICK e \in merged : e[2] \notin FullRows /\ c = <<e[1], e[2] + Between(merged, e[2], h)>>
    BY <1>5, <2>2
  <2>4. e[2] \in 0 .. Height - 1 /\ e[2] \in Nat
    BY <1>1, <1>3
  <2>5. Between(merged, e[2], h) \in Nat
    BY <1>6, <2>4, BetweenIs
  <2>6. e[2] = 0 /\ Between(merged, e[2], h) = 0
    <3>1. c[2] = e[2] + Between(merged, e[2], h)
      BY <2>3
    <3>2. QED
      BY <1>8, <2>4, <2>5, <3>1
  <2>7. full # 0 /\ full \in 0 .. h - 1
    BY <1>1, <2>3, <2>6 DEF FullRows
  <2>8. full \in {j \in FullIn(merged) : e[2] < j /\ j < h}
    BY <1>2, <2>6, <2>7
  <2>9. Cardinality({j \in FullIn(merged) : e[2] < j /\ j < h}) = 0
    BY <2>6 DEF Between
  <2>10. IsFiniteSet({j \in FullIn(merged) : e[2] < j /\ j < h})
    <3>1. 0 \in Int /\ h - 1 \in Int
      OBVIOUS
    <3>2. IsFiniteSet(0 .. h - 1)
      BY <3>1, FS_Interval
    <3>3. {j \in FullIn(merged) : e[2] < j /\ j < h} \subseteq 0 .. h - 1
      BY <1>1 DEF FullIn
    <3>4. QED
      BY <3>2, <3>3, FS_Subset
  <2>11. QED
    BY <2>8, <2>9, <2>10, FS_EmptySet
<1>9. QED
  BY <1>7, <1>8

\* and so does a whole sweep,
LEMMA SweptField ==
  ASSUME NEW b \in SUBSET Field
  PROVE  Swept(b) \in SUBSET Field
<1>1. Height \in 0 .. Height
  BY TetrisAssumption
<1>2. QED
  BY <1>1, RowsSteps, RowsKeep

(* The pieces. *)

Piece == [cur : Pieces, x : Int, y : Int, rot : 0 .. 3]

TetrisIInv ==
  /\ merged \in SUBSET Field /\ board = Swept(merged)
  /\ next \in Pieces
  /\ PieceFalls => piece \in Piece
  /\ PieceFree

\* and it makes nothing of an empty field.
LEMMA SweptEmpty == Swept({}) = {}
<1>1. PICK h \in Nat : h = Height
  BY TetrisAssumption
<1>2. {} \in SUBSET Field /\ h \in 0 .. Height
  BY <1>1
<1>3. \A d : d \notin Rows({})[h]
  <2> SUFFICES ASSUME NEW d, d \in Rows({})[h] PROVE FALSE
    OBVIOUS
  <2>1. \A c \in {} : c[2] # 0
    OBVIOUS
  <2>2. \/ d \in {} /\ d[2] >= h
        \/ \E c \in {} : c[2] < h /\ c[2] \notin FullIn({}) /\ d = <<c[1], c[2] + Between({}, c[2], h)>>
    BY <1>2, <2>1, RowsFall
  <2>3. QED
    BY <2>2
<1>4. Rows({})[h] = {}
  <2>1. Rows({})[h] \in SUBSET Field
    BY <1>2, RowsKeep
  <2>2. QED
    BY <1>3, <2>1
<1>5. QED
  BY <1>1, <1>4, RowsSteps

LEMMA TetrisInitIInv ==
  ASSUME TetrisInit
  PROVE  TetrisIInv
<1>1. board = {} /\ merged = {} /\ piece = NoPiece /\ next = CHOOSE p \in Pieces : TRUE
  BY DEF TetrisInit
<1>2. next \in Pieces
  BY <1>1, TetrisAssumption
<1>3. QED
  BY <1>1, <1>2, SweptEmpty DEF TetrisIInv, PieceFalls, PieceFree

\* A piece that collides with nothing is locked inside the field.
LEMMA LockIInv ==
  ASSUME TetrisIInv, NEW p \in Piece, ~checkCollision(p), lockPiece(p)
  PROVE  TetrisIInv'
<1>1. /\ merged' = board \cup CellsOf(p) /\ board' = Swept(merged') /\ piece' = NoPiece
      /\ next' = next
  BY DEF lockPiece
<1>2. board \in SUBSET Field
  BY SweptField DEF TetrisIInv
<1>3. CellsOf(p) \subseteq Field
  BY DEF checkCollision
<1>4. QED
  BY <1>1, <1>2, <1>3 DEF TetrisIInv, PieceFalls, PieceFree

LEMMA TryIInv ==
  ASSUME TetrisIInv, GoesOn, PieceFalls, NEW p \in Piece, Try(p)
  PROVE  TetrisIInv'
<1>1. /\ piece' = IF checkCollision(p) THEN piece ELSE p
      /\ board' = board /\ next' = next /\ quit' = quit /\ merged' = merged
  BY DEF Try
<1>2. ~quit /\ piece \in Piece /\ ~checkCollision(piece)
  BY DEF TetrisIInv, GoesOn, PieceFree
<1>3. PICK q \in Piece : q = piece' /\ ~checkCollision(q)
  BY <1>1, <1>2
<1>4. ~checkCollision(piece)'
  BY <1>1, <1>3 DEF checkCollision, CellsOf
<1>5. QED
  BY <1>1, <1>3, <1>4 DEF TetrisIInv, PieceFalls, PieceFree

LEMMA NewPieceIInv ==
  ASSUME TetrisIInv, NewPiece
  PROVE  TetrisIInv'
<1>1. PICK p : p = [cur |-> next, x |-> StartColumn, y |-> -1, rot |-> 0]
  OBVIOUS
<1>2. /\ piece' = p /\ quit' = checkCollision(p) /\ next' \in Pieces
      /\ board' = board /\ merged' = merged
  BY <1>1 DEF NewPiece
<1>3. p \in Piece
  BY <1>1, TetrisAssumption DEF TetrisIInv, Piece
<1>4. checkCollision(piece)' <=> checkCollision(p)
  BY <1>2 DEF checkCollision, CellsOf
<1>5. PieceFree'
  BY <1>2, <1>4 DEF PieceFree
<1>6. QED
  BY <1>2, <1>3, <1>5 DEF TetrisIInv, PieceFalls

LEMMA SoftDropIInv ==
  ASSUME TetrisIInv, SoftDrop
  PROVE  TetrisIInv'
<1>1. GoesOn /\ PieceFalls /\ piece \in Piece /\ ~checkCollision(piece)
  BY DEF SoftDrop, TetrisIInv, PieceFree, GoesOn
<1>2. PICK p : p = [piece EXCEPT !.y = piece.y + 1]
  OBVIOUS
<1>3. p \in Piece
  BY <1>1, <1>2 DEF Piece
<1>4. IF checkCollision(p) THEN lockPiece(piece) ELSE Try(p)
  BY <1>2 DEF SoftDrop
<1>5. QED
  BY <1>1, <1>3, <1>4, LockIInv, TryIInv

\* A piece that falls meets the bottom or a cell at last: the loop ends.
LEMMA HardDropIInv ==
  ASSUME TetrisIInv, HardDrop
  PROVE  TetrisIInv'
<1> DEFINE Down(d) == [piece EXCEPT !.y = piece.y + d]
           Lands(d) == checkCollision(Down(d + 1)) /\ \A e \in 1 .. d : ~checkCollision(Down(e))
<1>1. GoesOn /\ PieceFalls /\ piece \in Piece /\ ~checkCollision(piece)
  BY DEF HardDrop, TetrisIInv, PieceFree, GoesOn
<1>2. lockPiece(Down(CHOOSE d \in 0 .. Height : Lands(d)))
  BY DEF HardDrop
<1>3. PICK h \in Nat : h = Height /\ h > 0
  BY TetrisAssumption
<1>4. \A d \in Int : Down(d) \in Piece /\ Down(d).y = piece.y + d
                     /\ Down(d).x = piece.x /\ Down(d).cur = piece.cur /\ Down(d).rot = piece.rot
  BY <1>1 DEF Piece
<1>5. checkCollision(Down(h))
  <2>1. PICK shape \in SUBSET ((0 .. 3) \X (0 .. 3)) : shape = Shape[piece.cur][piece.rot] /\ shape # {}
    <3>1. piece.cur \in Pieces /\ piece.rot \in 0 .. 3
      BY <1>1 DEF Piece
    <3>2. Shape[piece.cur] \in [0 .. 3 -> (SUBSET ((0 .. 3) \X (0 .. 3))) \ {{}}]
      BY <3>1, TetrisAssumption
    <3>3. Shape[piece.cur][piece.rot] \in (SUBSET ((0 .. 3) \X (0 .. 3))) \ {{}}
      BY <3>1, <3>2
    <3>4. QED
      BY <3>3
  <2>2. PICK c \in shape : TRUE
    BY <2>1
  <2>3. c[1] \in Int /\ c[2] \in Int
    BY <2>1, <2>2
  <2>4. <<piece.x + c[1], piece.y + c[2]>> \in Field
    BY <1>1, <2>1, <2>2 DEF checkCollision, CellsOf
  <2>5. piece.y \in Int /\ piece.y + c[2] \in 0 .. h - 1
    BY <1>1, <1>3, <2>4 DEF Field, Piece
  <2>6. PICK y \in Int : y = Down(h).y + c[2] /\ y >= h
    BY <1>3, <1>4, <2>3, <2>5
  <2>7. <<Down(h).x + c[1], y>> \notin Field
    BY <1>3, <2>6 DEF Field
  <2>8. Down(h).cur = piece.cur /\ Down(h).rot = piece.rot
    BY <1>3, <1>4
  <2>9. <<Down(h).x + c[1], y>> \in CellsOf(Down(h))
    BY <2>1, <2>2, <2>6, <2>8 DEF CellsOf
  <2>10. QED
    BY <2>7, <2>9 DEF checkCollision
<1> HIDE DEF Down
<1>6. PICK n \in 1 .. h : checkCollision(Down(n)) /\ \A e \in 1 .. h : checkCollision(Down(e)) => n <= e
  <2> DEFINE S == {e \in 1 .. h : checkCollision(Down(e))}
  <2>1. S \in SUBSET Nat /\ h \in S
    BY <1>3, <1>5
  <2>2. PICK n \in S : \A m \in S : n <= m
    BY <2>1, Lowest
  <2>3. QED
    BY <2>2
<1>7. n - 1 \in 0 .. Height /\ Lands(n - 1)
  <2>1. n - 1 \in 0 .. Height /\ n - 1 + 1 = n
    BY <1>3, <1>6
  <2>2. \A e \in 1 .. n - 1 : e \in 1 .. h /\ ~(n <= e)
    BY <1>3, <1>6
  <2>3. QED
    BY <1>6, <2>1, <2>2
<1>8. PICK landed \in 0 .. Height : /\ landed = CHOOSE d \in 0 .. Height : Lands(d)
                                    /\ Lands(landed)
  BY <1>7
<1>9. ~checkCollision(Down(landed)) /\ Down(landed) \in Piece
  <2>1. landed \in 0 .. h /\ landed \in Int
    BY <1>3, <1>8
  <2>2. Down(landed) \in Piece
    BY <1>4, <2>1
  <2>3. CASE landed = 0
    <3>1. piece.y \in Int /\ piece.y + 0 = piece.y
      BY <1>1 DEF Piece
    <3>2. Down(0) = piece
      BY <1>1, <3>1 DEF Down, Piece
    <3>3. QED
      BY <1>1, <2>2, <2>3, <3>2
  <2>4. CASE landed # 0
    <3>1. landed \in 1 .. landed
      BY <2>1, <2>4
    <3>2. QED
      BY <1>8, <2>2, <3>1
  <2>5. QED
    BY <2>3, <2>4
<1>10. QED
  BY <1>2, <1>8, <1>9, LockIInv

LEMMA KeyIInv ==
  ASSUME TetrisIInv, Move \/ Rotate
  PROVE  TetrisIInv'
<1>1. GoesOn /\ PieceFalls /\ piece \in Piece
  BY DEF Move, Rotate, TetrisIInv
<1>2. \E p \in Piece : Try(p)
  <2>1. CASE Move
    <3>1. PICK d \in {-1, 1} : Try([piece EXCEPT !.x = piece.x + d])
      BY <2>1 DEF Move
    <3>2. [piece EXCEPT !.x = piece.x + d] \in Piece
      BY <1>1 DEF Piece
    <3>3. QED
      BY <3>1, <3>2
  <2>2. CASE Rotate
    <3>1. Try([piece EXCEPT !.rot = (piece.rot + 1) % 4])
      BY <2>2 DEF Rotate
    <3>2. (piece.rot + 1) % 4 \in 0 .. 3
      BY <1>1 DEF Piece
    <3>3. [piece EXCEPT !.rot = (piece.rot + 1) % 4] \in Piece
      BY <1>1, <3>2 DEF Piece
    <3>4. QED
      BY <3>1, <3>3
  <2>3. QED
    BY <2>1, <2>2
<1>3. QED
  BY <1>1, <1>2, TryIInv

\* For boards of every size and pieces of every shape: no sequence of keys takes
\* a piece out of the field or over a taken cell, and locking a piece removes
\* the full rows and lets the others fall, unless something stands in the top row.
THEOREM TetrisWholeHolds == TetrisSpec => []TetrisWhole
<1>1. TetrisInit => TetrisIInv
  BY TetrisInitIInv
<1>2. TetrisIInv /\ [TetrisNext]_tetrisVars => TetrisIInv'
  <2>1. TetrisIInv /\ UNCHANGED tetrisVars => TetrisIInv'
    BY DEF tetrisVars, TetrisIInv, PieceFalls, PieceFree, checkCollision, CellsOf
  <2>2. QED
    BY <2>1, NewPieceIInv, SoftDropIInv, HardDropIInv, KeyIInv DEF TetrisNext
<1>3. TetrisIInv => TetrisWhole
  BY SweptCompacted DEF TetrisIInv, TetrisWhole
<1>4. QED
  BY <1>1, <1>2, <1>3, PTL DEF TetrisSpec

----------------------------------------------------------------------------
(* Mines: the counters of the program always agree with the board, so that a  *)
(* game is lost exactly when a mine is revealed and won exactly when nothing  *)
(* but mines is left.                                                         *)

USE MinesAssumption

Statuses == {"HIDDEN", "FLAGGED", "REVEALED"}

MinesTyped ==
  /\ cursor \in Board
  /\ boardStatus \in [Board -> Statuses]
  /\ mines \in SUBSET Board
  /\ hiddenFields \in Int /\ unflaggedMines \in Int /\ cleared \in Int

\* The mines are laid by the first field that is revealed.
MinesLaid ==
  /\ boardGenerated => Cardinality(mines) = totalMines
  /\ ~boardGenerated => With("REVEALED") = {} /\ mines = {} /\ cleared = 0 /\ ~gameOver

MinesIInv == MinesTyped /\ MinesLaid /\ MinesFair
----------------------------------------------------------------------------
(* The board. *)

\* The board has as many fields as its width times its height.
LEMMA BoardSize ==
  IsFiniteSet(Board) /\ Cardinality(Board) = boardWidth * boardHeight
<1>1. boardWidth * boardHeight \in Nat \ {0}
  OBVIOUS
<1> DEFINE n == boardWidth * boardHeight
<1> HIDE DEF n
<1>2. n \in Nat \ {0}
  BY <1>1 DEF n
<1>3. 0 \in Int /\ n - 1 \in Int /\ ~(0 > n - 1) /\ n - 1 - 0 + 1 = n
  BY <1>2
<1>4. IsFiniteSet(0 .. n - 1) /\ Cardinality(0 .. n - 1) = n
  BY <1>3, FS_Interval
<1>5. QED
  BY <1>4 DEF n, Board

\* Any fields of the board are finitely many.
LEMMA FieldsFinite ==
  ASSUME NEW S \in SUBSET Board
  PROVE  IsFiniteSet(S) /\ Cardinality(S) \in Nat
BY BoardSize, FS_Subset, FS_CardinalityType

\* SomeFields that are taken out of a set of fields.
LEMMA TakenOut ==
  ASSUME NEW S \in SUBSET Board, NEW T \in SUBSET S
  PROVE  Cardinality(S \ T) = Cardinality(S) - Cardinality(T)
<1>1. IsFiniteSet(S) /\ IsFiniteSet(T) /\ T \in SUBSET Board
  BY FieldsFinite
<1>2. Cardinality(S \ T) = Cardinality(S) - Cardinality(S \cap T)
  BY <1>1, FS_Difference
<1>3. S \cap T = T
  OBVIOUS
<1>4. QED
  BY <1>2, <1>3

\* The recursion of revealField starts at f and stays on hidden fields; it
\* never walks from a field without a mine onto one with a mine.
LEMMA ReachedSafe ==
  ASSUME NEW m \in SUBSET Board, NEW hidden \in SUBSET Board, NEW f \in hidden
  PROVE  /\ Reached(m, hidden, f) \subseteq hidden
         /\ f \in Reached(m, hidden, f)
         /\ Reached(m, hidden, f) \cap m # {} <=> f \in m
<1> DEFINE ClosedUp(S) == f \in S /\ \A a \in S, b \in hidden : Leads(m, a, b) => b \in S
<1>1. \A g : g \in Reached(m, hidden, f) <=>
               g \in hidden /\ \A S \in SUBSET hidden : ClosedUp(S) => g \in S
  BY DEF Reached
<1>2. Reached(m, hidden, f) \subseteq hidden /\ f \in Reached(m, hidden, f)
  BY <1>1
<1>3. ASSUME f \notin m PROVE Reached(m, hidden, f) \cap m = {}
  <2>1. ClosedUp(hidden \ m)
    <3>1. SUFFICES ASSUME NEW a \in hidden \ m, NEW b \in hidden, Leads(m, a, b), b \in m
                   PROVE  FALSE
      BY <1>3
    <3>2. b \in Board /\ a \in Board
      OBVIOUS
    <3>3. Adjacent(b, b)
      <4>1. b \in Int /\ boardWidth \in Nat \ {0}
        BY <3>2 DEF Board
      <4>2. Column(b) \in Int /\ Row(b) \in Int
        BY <4>1 DEF Column, Row
      <4>3. Column(b) - Column(b) = 0 /\ Row(b) - Row(b) = 0
        BY <4>2
      <4>4. 0 \in -1 .. 1
        OBVIOUS
      <4>5. QED
        BY <4>3, <4>4 DEF Adjacent
    <3>4. ~None(m, b) /\ ~None(m, a)
      BY <3>1, <3>3 DEF None, Leads
    <3>5. QED
      BY <3>1, <3>4 DEF Leads
  <2>2. hidden \ m \in SUBSET hidden
    OBVIOUS
  <2>3. QED
    BY <1>1, <2>1, <2>2
<1>4. QED
  BY <1>2, <1>3
----------------------------------------------------------------------------
(* What a key does to the counters. *)

\* While nothing is revealed but fields without mines, few fields are left
\* exactly when they are the mines.
LEMMA FewLeft ==
  ASSUME NEW left \in SUBSET Board, NEW m \in SUBSET left, Cardinality(m) = totalMines
  PROVE  Cardinality(left) <= totalMines <=> left = m
<1>1. /\ IsFiniteSet(left) /\ Cardinality(m) <= Cardinality(left)
      /\ Cardinality(left) = Cardinality(m) => left = m
  BY FieldsFinite, FS_Subset
<1>2. Cardinality(left) \in Nat /\ Cardinality(m) \in Nat
  BY FieldsFinite
<1>3. QED
  BY <1>1, <1>2

\* The sets of fields of a board.
LEMMA SomeFields ==
  ASSUME MinesTyped
  PROVE  /\ Unrevealed \in SUBSET Board /\ With("REVEALED") \in SUBSET Board
         /\ With("FLAGGED") \in SUBSET Board
         /\ Cardinality(Unrevealed) \in Nat /\ Cardinality(With("FLAGGED")) \in Nat
         /\ \A f \in Board : f \in Unrevealed <=> boardStatus[f] # "REVEALED"
<1>1. /\ Unrevealed \in SUBSET Board /\ With("REVEALED") \in SUBSET Board
      /\ With("FLAGGED") \in SUBSET Board
      /\ \A f \in Board : f \in Unrevealed <=> boardStatus[f] # "REVEALED"
  BY DEF Unrevealed, With
<1>2. QED
  BY <1>1, FieldsFinite

\* revealField on a board where no mine is revealed yet and the counters agree.
LEMMA RevealOnFair ==
  ASSUME MinesTyped, NEW status \in [Board -> Statuses], NEW m \in SUBSET Board,
         Cardinality(m) = totalMines,
         \A f \in m : status[f] # "REVEALED",
         hiddenFields = Cardinality({f \in Board : status[f] # "REVEALED"}), ~gameOver,
         RevealOn(m, status)
  PROVE  /\ boardStatus' \in [Board -> Statuses]
         /\ hiddenFields' \in Int /\ hiddenFields' = Cardinality(Unrevealed')
         /\ gameOver' <=> With("REVEALED")' \cap m # {}
         /\ ~gameOver' => (hiddenFields' <= totalMines <=> Unrevealed' = m)
         /\ \A f \in Board : boardStatus'[f] = "FLAGGED" <=> status[f] = "FLAGGED"
<1> DEFINE left == {f \in Board : status[f] # "REVEALED"}
<1>1. /\ boardStatus' \in [Board -> Statuses]
      /\ hiddenFields' = Cardinality(Unrevealed')
      /\ gameOver' <=> With("REVEALED")' \cap m # {}
      /\ \A f \in Board : boardStatus'[f] = "FLAGGED" <=> status[f] = "FLAGGED"
  <2>1. CASE status[cursor] # "HIDDEN"
    <3>1. boardStatus' = status /\ hiddenFields' = hiddenFields /\ gameOver' = gameOver
      BY <2>1 DEF RevealOn
    <3>2. Unrevealed' = left
      BY <3>1 DEF Unrevealed, With
    <3>3. With("REVEALED")' \cap m = {}
      BY <3>1 DEF With
    <3>4. ~gameOver'
      BY <3>1
    <3>5. hiddenFields' = Cardinality(Unrevealed')
      BY <3>1, <3>2
    <3>6. QED
      BY <3>1, <3>3, <3>4, <3>5
  <2>2. CASE status[cursor] = "HIDDEN"
    <3> DEFINE now == Reached(m, Hidden(status), cursor)
    <3>1. /\ boardStatus' = [f \in Board |-> IF f \in now THEN "REVEALED" ELSE status[f]]
          /\ hiddenFields' = hiddenFields - Cardinality(now)
          /\ gameOver' = (cursor \in m)
      BY <2>2 DEF RevealOn
    <3>2. Hidden(status) \in SUBSET Board /\ cursor \in Hidden(status)
      BY <2>2 DEF Hidden, MinesTyped
    <3>3. now \subseteq Hidden(status) /\ (now \cap m # {} <=> cursor \in m)
      BY <3>2, ReachedSafe
    <3> HIDE DEF now
    <3>4. \A f \in now : f \in Board /\ status[f] = "HIDDEN"
      BY <3>3 DEF Hidden
    <3>5. Unrevealed' = left \ now
      BY <3>1, <3>4 DEF Unrevealed, With
    <3>6. now \in SUBSET left /\ left \in SUBSET Board
      BY <3>4
    <3>7. Cardinality(left \ now) = Cardinality(left) - Cardinality(now)
      BY <3>6, TakenOut
    <3>8. With("REVEALED")' \cap m = now \cap m
      BY <3>1, <3>4 DEF With
    <3>9. boardStatus' \in [Board -> Statuses]
      BY <3>1 DEF Statuses
    <3>10. \A f \in Board : boardStatus'[f] = "FLAGGED" <=> status[f] = "FLAGGED"
      BY <3>1, <3>4
    <3>11. gameOver' <=> With("REVEALED")' \cap m # {}
      <4>1. gameOver' <=> cursor \in m
        BY <3>1
      <4>2. QED
        BY <3>3, <3>8, <4>1
    <3>12. hiddenFields' = Cardinality(Unrevealed')
      BY <3>1, <3>5, <3>7
    <3>13. QED
      BY <3>9, <3>10, <3>11, <3>12
  <2>3. QED
    BY <2>1, <2>2
<1>2. Unrevealed' \in SUBSET Board
  BY DEF Unrevealed
<1>3. hiddenFields' \in Int
  BY <1>1, <1>2, FieldsFinite
<1>4. ~gameOver' => (hiddenFields' <= totalMines <=> Unrevealed' = m)
  <2>1. SUFFICES ASSUME ~gameOver' PROVE hiddenFields' <= totalMines <=> Unrevealed' = m
    OBVIOUS
  <2>2. m \in SUBSET Unrevealed'
    BY <1>1, <2>1 DEF Unrevealed
  <2>3. QED
    BY <1>1, <1>2, <2>2, FewLeft
<1>5. QED
  BY <1>1, <1>3, <1>4
----------------------------------------------------------------------------
(* Every key preserves the invariant. *)

LEMMA MinesInitIInv ==
  ASSUME MinesInit
  PROVE  MinesIInv
<1>1. boardWidth * boardHeight \in Nat \ {0}
  OBVIOUS
<1>2. MinesTyped
  <2>1. 0 \in Board
    BY <1>1 DEF Board
  <2>2. boardWidth * boardHeight \in Int /\ totalMines \in Int
    BY <1>1
  <2>3. boardStatus \in [Board -> Statuses]
    BY DEF MinesInit, Statuses
  <2>4. hiddenFields \in Int
    BY <2>2 DEF MinesInit
  <2>5. unflaggedMines \in Int
    BY <2>2 DEF MinesInit
  <2>6. mines \in SUBSET Board /\ cleared \in Int
    BY DEF MinesInit
  <2>7. cursor \in Board
    BY <2>1 DEF MinesInit
  <2>8. QED
    BY <2>3, <2>4, <2>5, <2>6, <2>7 DEF MinesTyped
<1>3. With("REVEALED") = {} /\ With("FLAGGED") = {} /\ Unrevealed = Board
  BY DEF MinesInit, With, Unrevealed
<1>4. MinesLaid
  BY <1>3 DEF MinesInit, MinesLaid
<1>5. MinesFair
  BY <1>3, BoardSize, FS_EmptySet DEF MinesInit, MinesFair
<1>6. QED
  BY <1>2, <1>4, <1>5 DEF MinesIInv

LEMMA MoveIInv ==
  ASSUME MinesIInv, MoveCursor \/ UNCHANGED minesVars
  PROVE  MinesIInv'
<1>1. MinesTyped'
  BY DEF MinesIInv, MinesTyped, MoveCursor, minesVars
<1>2. UNCHANGED <<boardStatus, mines, boardGenerated, hiddenFields, unflaggedMines, gameOver, cleared>>
  BY DEF MoveCursor, minesVars
<1>3. \A status : With(status)' = With(status)
  BY <1>2 DEF With
<1>4. Unrevealed' = Unrevealed
  BY <1>2 DEF Unrevealed, With
<1>5. MinesLaid' /\ MinesFair'
  BY <1>2, <1>3, <1>4 DEF MinesIInv, MinesLaid, MinesFair
<1>6. QED
  BY <1>1, <1>5 DEF MinesIInv

\* One flag more, one fewer to set.
LEMMA SetFlagIInv ==
  ASSUME MinesIInv, SetFlag
  PROVE  MinesIInv'
<1>1. /\ MinesTyped /\ MinesLaid /\ MinesFair /\ boardStatus[cursor] = "HIDDEN"
      /\ boardStatus' = [boardStatus EXCEPT ![cursor] = "FLAGGED"]
      /\ unflaggedMines' = unflaggedMines - 1
      /\ UNCHANGED <<cursor, mines, boardGenerated, hiddenFields, gameOver, cleared>>
  BY DEF MinesIInv, SetFlag
<1>2. \A f \in Board : boardStatus'[f] = IF f = cursor THEN "FLAGGED" ELSE boardStatus[f]
  BY <1>1 DEF MinesTyped
<1>3. MinesTyped'
  BY <1>1 DEF MinesTyped, Statuses
<1>4. Unrevealed' = Unrevealed /\ With("REVEALED")' = With("REVEALED")
  BY <1>1, <1>2 DEF Unrevealed, With
<1>5. With("FLAGGED")' = With("FLAGGED") \cup {cursor} /\ cursor \notin With("FLAGGED")
  BY <1>1, <1>2 DEF With, MinesTyped
<1>6. Cardinality(With("FLAGGED")') = Cardinality(With("FLAGGED")) + 1
  BY <1>1, <1>5, SomeFields, FieldsFinite, FS_AddElement
<1>7. unflaggedMines' + Cardinality(With("FLAGGED")') + cleared' = totalMines
  <2>1. unflaggedMines + Cardinality(With("FLAGGED")) + cleared = totalMines
    BY <1>1 DEF MinesFair
  <2>2. Cardinality(With("FLAGGED")) \in Nat
    BY <1>1, SomeFields
  <2>3. QED
    BY <1>1, <1>6, <2>1, <2>2 DEF MinesTyped
<1>8. MinesLaid' /\ MinesFair'
  BY <1>1, <1>4, <1>7 DEF MinesLaid, MinesFair
<1>9. QED
  BY <1>3, <1>8 DEF MinesIInv

LEMMA ClearFlagIInv ==
  ASSUME MinesIInv, ClearFlag
  PROVE  MinesIInv'
<1>1. /\ MinesTyped /\ MinesLaid /\ MinesFair /\ boardStatus[cursor] = "FLAGGED"
      /\ boardStatus' = [boardStatus EXCEPT ![cursor] = "HIDDEN"]
      /\ unflaggedMines' = unflaggedMines + 1
      /\ UNCHANGED <<cursor, mines, boardGenerated, hiddenFields, gameOver, cleared>>
  BY DEF MinesIInv, ClearFlag
<1>2. \A f \in Board : boardStatus'[f] = IF f = cursor THEN "HIDDEN" ELSE boardStatus[f]
  BY <1>1 DEF MinesTyped
<1>3. MinesTyped'
  BY <1>1 DEF MinesTyped, Statuses
<1>4. Unrevealed' = Unrevealed /\ With("REVEALED")' = With("REVEALED")
  BY <1>1, <1>2 DEF Unrevealed, With
<1>5. With("FLAGGED")' = With("FLAGGED") \ {cursor} /\ cursor \in With("FLAGGED")
  BY <1>1, <1>2 DEF With, MinesTyped
<1>6. Cardinality(With("FLAGGED")') = Cardinality(With("FLAGGED")) - 1
  BY <1>1, <1>5, SomeFields, FieldsFinite, FS_RemoveElement
<1>7. unflaggedMines' + Cardinality(With("FLAGGED")') + cleared' = totalMines
  <2>1. unflaggedMines + Cardinality(With("FLAGGED")) + cleared = totalMines
    BY <1>1 DEF MinesFair
  <2>2. Cardinality(With("FLAGGED")) \in Nat
    BY <1>1, SomeFields
  <2>3. QED
    BY <1>1, <1>6, <2>1, <2>2 DEF MinesTyped
<1>8. MinesLaid' /\ MinesFair'
  BY <1>1, <1>4, <1>7 DEF MinesLaid, MinesFair
<1>9. QED
  BY <1>3, <1>8 DEF MinesIInv

\* The first field: mines are laid, flags go, and the mines still to flag do
\* not come back.
LEMMA RevealFirstIInv ==
  ASSUME MinesIInv, RevealFirst
  PROVE  MinesIInv'
<1> DEFINE status == [f \in Board |-> "HIDDEN"]
<1>1. PICK m \in SUBSET (Board \ {cursor}) :
        Cardinality(m) = totalMines /\ mines' = m /\ RevealOn(m, status)
  BY DEF RevealFirst
<1>2. /\ MinesTyped /\ MinesLaid /\ MinesFair /\ ~boardGenerated /\ boardGenerated' = TRUE
      /\ cleared' = Cardinality(With("FLAGGED")) /\ cursor' = cursor
      /\ unflaggedMines' = unflaggedMines
  BY DEF MinesIInv, RevealFirst
<1>3. m \in SUBSET Board /\ status \in [Board -> Statuses]
  BY DEF Statuses
<1>4. hiddenFields = Cardinality({f \in Board : status[f] # "REVEALED"})
  <2>1. Unrevealed = Board
    BY <1>2 DEF MinesLaid, Unrevealed
  <2>2. {f \in Board : status[f] # "REVEALED"} = Board
    OBVIOUS
  <2>3. QED
    BY <1>2, <2>1, <2>2 DEF MinesFair
<1>5. ~gameOver /\ \A f \in m : status[f] # "REVEALED"
  BY <1>2 DEF MinesLaid
<1> HIDE DEF status
<1>6. /\ boardStatus' \in [Board -> Statuses]
      /\ hiddenFields' \in Int /\ hiddenFields' = Cardinality(Unrevealed')
      /\ gameOver' <=> With("REVEALED")' \cap m # {}
      /\ ~gameOver' => (hiddenFields' <= totalMines <=> Unrevealed' = m)
      /\ \A f \in Board : boardStatus'[f] = "FLAGGED" <=> status[f] = "FLAGGED"
  BY <1>1, <1>2, <1>3, <1>4, <1>5, RevealOnFair
<1>7. Cardinality(With("FLAGGED")) \in Nat
  BY <1>2, SomeFields
<1>8. MinesTyped'
  BY <1>1, <1>2, <1>3, <1>6, <1>7 DEF MinesTyped
<1>9. With("FLAGGED")' = {}
  BY <1>6 DEF With, status
<1>10. unflaggedMines' + Cardinality(With("FLAGGED")') + cleared' = totalMines
  <2>1. unflaggedMines + Cardinality(With("FLAGGED")) + 0 = totalMines
    BY <1>2 DEF MinesFair, MinesLaid
  <2>2. Cardinality(With("FLAGGED")') = 0
    BY <1>9, FS_EmptySet
  <2>3. QED
    BY <1>2, <1>7, <2>1, <2>2 DEF MinesTyped
<1>11. MinesLaid' /\ MinesFair'
  BY <1>1, <1>2, <1>6, <1>10 DEF MinesLaid, MinesFair
<1>12. QED
  BY <1>8, <1>11 DEF MinesIInv

LEMMA RevealIInv ==
  ASSUME MinesIInv, Reveal
  PROVE  MinesIInv'
<1>1. /\ MinesTyped /\ MinesLaid /\ MinesFair /\ boardGenerated /\ ~gameOver /\ RevealOn(mines, boardStatus)
      /\ UNCHANGED <<cursor, mines, boardGenerated, unflaggedMines, cleared>>
  BY DEF MinesIInv, Reveal, Playing
<1>2. \A f \in mines : boardStatus[f] # "REVEALED"
  BY <1>1 DEF MinesFair, With, MinesTyped
<1>3. hiddenFields = Cardinality({f \in Board : boardStatus[f] # "REVEALED"})
  <2>1. Unrevealed = {f \in Board : boardStatus[f] # "REVEALED"}
    BY DEF Unrevealed, With
  <2>2. QED
    BY <1>1, <2>1 DEF MinesFair
<1>4. Cardinality(mines) = totalMines /\ mines \in SUBSET Board
      /\ boardStatus \in [Board -> Statuses]
  BY <1>1 DEF MinesLaid, MinesTyped
<1>5. /\ boardStatus' \in [Board -> Statuses]
      /\ hiddenFields' \in Int /\ hiddenFields' = Cardinality(Unrevealed')
      /\ gameOver' <=> With("REVEALED")' \cap mines # {}
      /\ ~gameOver' => (hiddenFields' <= totalMines <=> Unrevealed' = mines)
      /\ \A f \in Board : boardStatus'[f] = "FLAGGED" <=> boardStatus[f] = "FLAGGED"
  BY <1>1, <1>2, <1>3, <1>4, RevealOnFair
<1>6. MinesTyped'
  BY <1>1, <1>5 DEF MinesTyped
<1>7. With("FLAGGED")' = With("FLAGGED")
  BY <1>5 DEF With
<1>8. MinesLaid' /\ MinesFair'
  BY <1>1, <1>5, <1>7 DEF MinesLaid, MinesFair
<1>9. QED
  BY <1>6, <1>8 DEF MinesIInv

\* For every board, every number and place of mines and every order of keys:
\* the counters agree with the board, the game is lost exactly when a mine is
\* revealed and won exactly when the fields left are the mines.
THEOREM MinesFairHolds == MinesSpec => []MinesFair
<1>1. MinesInit => MinesIInv
  BY MinesInitIInv
<1>2. MinesIInv /\ [MinesNext]_minesVars => MinesIInv'
  BY MoveIInv, SetFlagIInv, ClearFlagIInv, RevealFirstIInv, RevealIInv DEF MinesNext
<1>3. MinesIInv => MinesFair
  BY DEF MinesIInv
<1>4. QED
  BY <1>1, <1>2, <1>3, PTL DEF MinesSpec
============================================================================
