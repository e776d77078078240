---- MODULE Threads ----
(* The preemptive threads of the C library (lib/src/preempt): thread table,
   round-robin scheduler and semaphores. The routines that touch shared state
   run with interrupts disabled, so that each is one step; a Tick, the interrupt
   that enters thread_manager, may come between any two of them. *)
EXTENDS Integers, FiniteSets

CONSTANTS
  MaxThreads,   \* MAX_THREADS, a power of two: 16 in the library
  Slice,        \* ticks per time slice, 2 when roundrobin_scheduler is given 0
  MaxLive,      \* bound: threads at a time, main included
  MaxValue      \* bound on the value of the semaphore

VARIABLES
  flags,     \* thread_flags of every slot: the bits that are set
  context,   \* what the saved stack of a slot stands for
  cpu,       \* what the processor runs, for which slot, and whether ticks come
  sched,     \* schedule_data: ticks left and the slot selected last
  sem,       \* a sem_t: value, waiters_num, and the slots in waiters
  reused     \* history: slots that were taken a second time

threadVars == <<flags, context, cpu, sched, sem, reused>>

Slots == 0 .. MaxThreads - 1
SLEEP == 0     \* the bits of thread_flags by their numbers
SYSTEM == 1
NoExit == 2
USED == 7
BitsOf(byte) == {k \in 0 .. 7 : (byte \div 2^k) % 2 = 1}

Used(t) == USED \in flags[t]
Asleep(t) == SLEEP \in flags[t]

(* The scheduler. *)

\* The slots in the order in which the scheduler looks at them, the last one not.
After(t, k) == (t + k) % MaxThreads
Ready(f, t) == USED \in f[t] /\ SLEEP \notin f[t]

\* Mutant: the search starts from the first slot every time.
Selected_FromFirst(f, last) ==
  LET ready == {t \in Slots : Ready(f, t)}
  IN IF ready = {} THEN 0 ELSE CHOOSE t \in ready : \A u \in ready : t <= u

\* roundrobin_loop: the next ready slot behind the one selected last, and slot
\* 0, asleep or not, when there is none but perhaps that one itself.
Selected(f, last) ==
  LET steps == {k \in 1 .. MaxThreads - 1 : Ready(f, After(last, k))}
  IN IF steps = {} THEN 0 ELSE After(last, CHOOSE k \in steps : \A j \in steps : k <= j)
Found(f, last) == \E k \in 1 .. MaxThreads - 1 : Ready(f, After(last, k))

\* Where a context goes on behind its halt: sem_wait tries again, and a thread
\* that has left returns to its caller.
Resumed(does) == CASE does = "halt" -> "again" [] does = "exit" -> "run" [] OTHER -> does

\* thread_manager saves the running context, lets the scheduler choose and goes
\* on with what the chosen slot holds.
Switch(f, saved) ==
  LET over == sched.count = 1
      to == IF over THEN Selected(f, sched.last) ELSE cpu.current
  IN /\ sched' = [count |-> IF over THEN Slice ELSE sched.count - 1,
                  last |-> IF over /\ Found(f, sched.last) THEN to ELSE sched.last]
     /\ context' = saved
     /\ cpu' = [started |-> TRUE, current |-> to, does |-> Resumed(saved[to])]

Saved == [context EXCEPT ![cpu.current] = cpu.does]

Tick ==
  /\ cpu.started /\ cpu.does # "again"
  /\ Switch(flags, Saved)
  /\ UNCHANGED <<flags, sem, reused>>

\* thread_manager_start makes the caller thread 0, whoever has that slot.
ThreadManagerStart ==
  /\ ~cpu.started
  /\ LET f == [flags EXCEPT ![0] = {USED, SYSTEM}]
     IN /\ flags' = f
        /\ Switch(f, [context EXCEPT ![0] = "run"])
  /\ UNCHANGED <<sem, reused>>

(* Calls of the running thread. *)

Running == cpu.does = "run"

\* The ldir that is to clear the entry spreads its first byte, the thread id of
\* the former owner, over the flags.
ThreadCreate ==
  /\ Running /\ Cardinality({t \in Slots : Used(t)}) < MaxLive
  /\ \E t \in Slots :
       /\ ~Used(t) /\ \A u \in Slots : u < t => Used(u)
       /\ LET pid == IF context[t] = "none" THEN 0 ELSE t
          IN flags' = [flags EXCEPT ![t] = BitsOf(pid) \cup {USED}]
       /\ context' = [context EXCEPT ![t] = "run"]
       /\ reused' = IF context[t] = "none" THEN reused ELSE reused \cup {t}
  /\ UNCHANGED <<cpu, sched, sem>>

\* Any thread but those with bit 2 set may exit; bit 1 is the one main has. The
\* halt that follows ends with the next tick.
ThreadExit ==
  /\ Running /\ cpu.started /\ NoExit \notin flags[cpu.current]
  /\ flags' = [flags EXCEPT ![cpu.current] = @ \ {USED}]
  /\ cpu' = [cpu EXCEPT !.does = "exit"]
  /\ UNCHANGED <<context, sched, sem, reused>>

\* sem_wait from label again on: take the semaphore, or register and halt.
Take ==
  /\ sem.value > 0
  /\ sem' = [sem EXCEPT !.value = @ - 1]
  /\ cpu' = [cpu EXCEPT !.does = "run"]
  /\ UNCHANGED flags

\* The array of waiters has MaxThreads places and its end is not checked; what
\* a further one overwrites is not followed.
Register ==
  /\ sem.value = 0
  /\ sem' = [sem EXCEPT !.num = @ + 1, !.waiters = @ \cup {cpu.current}]
  /\ flags' = [flags EXCEPT ![cpu.current] = @ \cup {SLEEP}]
  /\ cpu' = [cpu EXCEPT !.does = "halt"]

Fits == sem.num <= MaxThreads

SemWait ==
  /\ (Running \/ cpu.does = "again") /\ cpu.started /\ Fits
  /\ Take \/ Register
  /\ UNCHANGED <<context, sched, reused>>

\* Mutant: one waiter is woken, the list is emptied all the same.
Woken_One(f) ==
  IF sem.num = 0 THEN f
  ELSE LET t == CHOOSE u \in sem.waiters : TRUE IN [f EXCEPT ![t] = @ \ {SLEEP}]

Woken(f) == [t \in Slots |-> IF t \in sem.waiters THEN f[t] \ {SLEEP} ELSE f[t]]

SemPost ==
  /\ Running /\ cpu.started /\ sem.value < MaxValue
  /\ sem' = [value |-> sem.value + 1, num |-> 0, waiters |-> {}]
  /\ flags' = Woken(flags)
  /\ UNCHANGED <<context, cpu, sched, reused>>

ThreadsInit ==
  /\ flags = [t \in Slots |-> {}]
  /\ context = [t \in Slots |-> "none"]
  /\ cpu = [does |-> "run", current |-> 0, started |-> FALSE]
  /\ sched = [count |-> 1, last |-> 0]
  /\ sem = [value |-> 0, num |-> 0, waiters |-> {}]
  /\ reused = {}

ThreadsNext == \/ Tick \/ ThreadManagerStart \/ ThreadCreate \/ ThreadExit \/ SemWait \/ SemPost

ThreadsSpec == ThreadsInit /\ [][ThreadsNext]_threadVars

\* The timer interrupt keeps coming, and no routine keeps interrupts disabled:
\* a context between "di" and "ei" goes on.
ThreadsFairness == WF_threadVars(Fits /\ Tick) /\ WF_threadVars(cpu.does = "again" /\ SemWait)

(* Properties. *)

\* Who sleeps is listed by the semaphore, so that the next sem_post wakes it,
\* and nobody waits for a semaphore that could be taken. The exception are the
\* threads whose slot had an owner before: they start with the bits of their
\* number as flags, and with an odd number asleep.
SleepersListed ==
  /\ \A t \in Slots : Used(t) /\ Asleep(t) => t \in sem.waiters \/ (t \in reused /\ SLEEP \in BitsOf(t))
  /\ sem.value > 0 => sem.waiters = {}

\* Every thread that stays ready runs again and again, with one exception: a
\* thread that was selected last while all others, main included, sleep. The
\* scheduler does not look at that one and gives the time to main.
LastAlone(t) == sched.last = t /\ ~Found(flags, t)
ThreadsProgress ==
  \A t \in Slots : []<>(~cpu.started \/ cpu.current = t \/ ~Ready(flags, t) \/ LastAlone(t) \/ ~Fits)

====
