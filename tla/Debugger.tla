---- MODULE Debugger ----
(* The debugger of the emulator: the prompt (emulator/src/interpreter.c), the
   commands (luainterface.c) and the loops that execute instructions until there
   is a reason to stop (emulator.c). One step of the model is one instruction;
   SIGINT may come between any two. *)
EXTENDS Integers, Sequences

CONSTANTS
  Program,      \* address -> instruction [op, to]
  NewPoints,    \* points the user may set: [type, address, size, condition]
  Verdicts,     \* what a condition may come to
  MaxPoints,    \* bound on the points
  MaxArg,       \* bound on the number of steps asked for
  MaxDepth      \* bound on the nesting of calls in the program

VARIABLES
  mach,    \* PC and the return addresses on the stack
  points,  \* the points, in the order of their index
  lists,   \* the tables breakpoints and watchpoints, and bp->next
  flag,    \* interruptFlag and breakflag
  prompt,  \* where the interpreter is
  run,     \* the emu_run that goes on or was the last one
  owed     \* history: the run stood at a point right behind a watched write

debuggerVars == <<mach, points, lists, flag, prompt, run, owed>>

Places == DOMAIN Program
Covered(p) == p.address .. p.address + p.size - 1

ASSUME DebuggerFits ==
  /\ 0 \in Places /\ \A a \in Places \ {0} : a \in Nat /\ a - 1 \in Places
  /\ Program \in [Places -> [op : {"call", "ret", "jump", "store", "other"}, to : Places]]
  /\ \A p \in NewPoints : /\ p \in [type : {"break", "trace", "watch"}, address : Places, size : Nat \ {0},
                                    condition : BOOLEAN]
                          /\ Covered(p) \subseteq Places
  /\ Verdicts \subseteq {"true", "false", "error", "raise"}
  /\ MaxPoints \in Nat /\ MaxArg \in Nat

(* The lists of points. 0 is the null pointer. *)

\* The points met from head on, in a list that may run into a circle: the least
\* set with head that no successor leads out of.
Met(l, head) ==
  LET closed == {S \in SUBSET (0 .. MaxPoints) : head \in S /\ \A b \in S \ {0} : l.next[b] \in S}
  IN {x \in 0 .. MaxPoints : \A S \in closed : x \in S}
ListEnds(l, head) == 0 \in Met(l, head)

\* registerBreakpoint: the point loses its own successor and goes behind the
\* last one, or becomes its own successor when it is the last one.
Linked(l, table, b, a) ==
  LET cut == [l EXCEPT !.next[b] = 0]
      head == l[table][a]
      tail == CHOOSE x \in Met(cut, head) : x # 0 /\ cut.next[x] = 0
  IN IF head = 0 THEN [cut EXCEPT ![table][a] = b] ELSE [cut EXCEPT !.next[tail] = b]

\* Mutant: the loop over the bytes of a watchpoint runs once too often.
WatchedFrom_Beyond(l, p, b) ==
  LET at[k \in 0 .. p.size + 1] ==
        IF k = 0 THEN l
        ELSE IF p.address + k - 1 \in Places THEN Linked(at[k - 1], "watch", b, p.address + k - 1)
        ELSE at[k - 1]
  IN at[p.size + 1]

\* emu_registerWatchpoint; the point has one successor for all its addresses.
WatchedFrom(l, p, b) ==
  LET at[k \in 0 .. p.size] ==
        IF k = 0 THEN l ELSE Linked(at[k - 1], "watch", b, p.address + k - 1)
  IN at[p.size]

\* A search for the end of a list without end does not return. A trace point
\* goes to the list of the breakpoints.
CreateBreakpoint ==
  /\ prompt = "call" /\ ~run.going /\ Len(points) < MaxPoints
  /\ \E p \in NewPoints :
       LET b == Len(points) + 1
           ends == \A a \in Covered(p) : p.type = "watch" => ListEnds(lists, lists.watch[a])
       IN /\ points' = Append(points, p)
          /\ prompt' = IF ends THEN "call" ELSE "hung"
          /\ lists' = IF ~ends THEN lists
                      ELSE IF p.type = "watch" THEN WatchedFrom(lists, p, b)
                      ELSE Linked(lists, "break", b, p.address)
  /\ UNCHANGED <<mach, flag, run, owed>>

(* The machine. *)

\* The address behind the last one is the first.
Behind(a) == IF a + 1 \in Places THEN a + 1 ELSE 0

\* PC and stack behind the instruction; a nesting deeper than the bound does
\* not occur in the programs that are run.
Executed(m) ==
  LET ins == Program[m.pc]
  IN CASE ins.op = "call" -> [pc |-> ins.to, stack |-> <<Behind(m.pc)>> \o m.stack]
       [] ins.op = "ret" /\ m.stack # <<>> -> [pc |-> Head(m.stack), stack |-> Tail(m.stack)]
       [] ins.op = "jump" -> [m EXCEPT !.pc = ins.to]
       [] OTHER -> [m EXCEPT !.pc = Behind(@)]

\* The write callback: is a watchpoint set for the byte this instruction writes?
Watched(m) == Program[m.pc].op = "store" /\ lists.watch[Program[m.pc].to] # 0

PointsAt(pc) == Met(lists, lists.break[pc]) \ {0}

\* handleBreakpoint down the list of an address. icount and ecount, which no
\* command sets, are left out. "raise" is a Lua error that leaves through emu_run.
AtPoint(pc, verdict) ==
  LET at == PointsAt(pc)
      asked == {b \in at : points[b].condition}
      bad == {b \in asked : verdict[b] \in {"error", "raise"}}
      fires == {b \in at : points[b].type = "break" /\ (b \in asked => verdict[b] = "true")}
  IN IF bad # {} THEN verdict[CHOOSE b \in bad : \A c \in bad : b <= c]
     ELSE IF fires # {} THEN "break" ELSE "ok"

\* Mutant: breakflag stays set when it has ended a run.
DoStep_KeepsFlag(verdict) ==
  LET after == Executed(mach)
      marked == flag.break \/ Watched(mach)
      hit == AtPoint(after.pc, verdict)
  IN IF flag.interrupt THEN [ret |-> "interrupt", mach |-> mach, flag |-> [flag EXCEPT !.interrupt = FALSE]]
     ELSE [ret |-> IF hit = "ok" /\ marked THEN "break" ELSE hit, mach |-> after,
           flag |-> [flag EXCEPT !.break = marked]]

\* doStep. A stop at a breakpoint leaves breakflag for the next run.
DoStep(verdict) ==
  LET after == Executed(mach)
      marked == flag.break \/ Watched(mach)
      hit == AtPoint(after.pc, verdict)
  IN IF flag.interrupt THEN [ret |-> "interrupt", mach |-> mach, flag |-> [flag EXCEPT !.interrupt = FALSE]]
     ELSE [ret |-> IF hit = "ok" /\ marked THEN "break" ELSE hit, mach |-> after,
           flag |-> [flag EXCEPT !.break = marked /\ hit # "ok"]]

(* The loops of the run modes. *)

Stopped(r, ret) == [r EXCEPT !.going = FALSE, !.ret = ret, !.arg = 0, !.inner = FALSE]
Again(r, ret) == IF r.arg > 1 /\ ret = "ok" THEN [r EXCEPT !.arg = @ - 1, !.inner = FALSE] ELSE Stopped(r, ret)

\* What mode_finish and mode_next take for the instruction comes from zi28.ram
\* at PC, which is another place than the one readMem reads: any opcode.
Guesses == {"call", "ret", "other"}

\* How the loop goes on when doStep has returned ret. At the first instruction
\* of "next" mode_finish takes over, and ret is lost.
Looped(r, ret, guess, after) ==
  LET still == Len(after.stack) = Len(mach.stack)
      taken == guess # "call" /\ still
      finishing == ret = "ok" /\ guess # "ret" /\ still
  IN CASE r.mode = "run" -> IF ret = "ok" THEN r ELSE Stopped(r, ret)
       [] r.mode = "step" -> Again(r, ret)
       [] r.mode = "next" /\ r.inner -> IF finishing THEN r ELSE Again(r, ret)
       [] r.mode = "next" /\ ~r.inner -> IF taken THEN [r EXCEPT !.inner = TRUE] ELSE Again(r, ret)
       [] r.mode = "until" -> IF ret = "ok" /\ after.pc # r.arg THEN r ELSE Stopped(r, ret)

Started(mode, arg, inner) == [mode |-> mode, arg |-> arg, inner |-> inner, ret |-> "ok", going |-> TRUE]

\* emu_run. "continue" is "run", "finish" is the second half of a "next", and
\* "advance" and "out" run until PC has a value, perhaps not at all.
EmuRun ==
  /\ prompt = "call" /\ ~run.going
  /\ \/ run' = Started("run", 0, FALSE)
     \/ \E n \in 1 .. MaxArg, mode \in {"step", "next"} : run' = Started(mode, n, FALSE)
     \/ run' = Started("next", 1, TRUE)
     \/ \E a \in Places :
          run' = IF mach.pc = a THEN Stopped(run, "ok") ELSE Started("until", a, FALSE)
  /\ UNCHANGED <<mach, points, lists, flag, prompt, owed>>

\* A Lua error in a condition ends the whole chunk.
Execute ==
  /\ run.going /\ (Program[mach.pc].op = "call" => Len(mach.stack) < MaxDepth)
  /\ \E verdict \in [{b \in PointsAt(Executed(mach).pc) : points[b].condition} -> Verdicts] :
     \E guess \in IF run.mode = "next" THEN Guesses ELSE {"other"} :
       LET s == DoStep(verdict)
       IN /\ mach' = s.mach /\ flag' = s.flag
          /\ run' = IF s.ret = "raise" THEN Stopped(run, "raise") ELSE Looped(run, s.ret, guess, s.mach)
          /\ prompt' = IF s.ret = "raise" THEN "prompt" ELSE prompt
  /\ owed' = IF flag.interrupt THEN owed ELSE (owed \/ Watched(mach)) /\ PointsAt(Executed(mach).pc) # {}
  /\ UNCHANGED <<points, lists>>

\* The reset command: the processor starts from address 0; the flags stay.
EmuReset ==
  /\ prompt = "call" /\ ~run.going
  /\ mach' = [mach EXCEPT !.pc = 0]
  /\ UNCHANGED <<points, lists, flag, prompt, run, owed>>

EmuBreak ==
  /\ flag' = [flag EXCEPT !.interrupt = TRUE]
  /\ UNCHANGED <<mach, points, lists, prompt, run, owed>>

(* The prompt. *)

\* A line is tried as an expression and then, with the lines before it, as a
\* statement; one that is not finished asks for another line.
PushLine ==
  /\ prompt \in {"prompt", "more"}
  /\ \E status \in {"ok", "incomplete", "error"} :
       prompt' = CASE status = "ok" -> "call" [] status = "error" -> "prompt" [] OTHER -> "more"
  /\ UNCHANGED <<mach, points, lists, flag, run, owed>>

\* The end of the input ends the program, or only an unfinished statement.
EndOfInput ==
  /\ prompt \in {"prompt", "more"}
  /\ prompt' = IF prompt = "more" THEN "prompt" ELSE "closed"
  /\ UNCHANGED <<mach, points, lists, flag, run, owed>>

\* docall returns; the chunk may have called quit.
ChunkEnds ==
  /\ prompt = "call" /\ ~run.going
  /\ prompt' \in {"prompt", "closed"}
  /\ UNCHANGED <<mach, points, lists, flag, run, owed>>

DebuggerInit ==
  /\ mach = [pc |-> 0, stack |-> <<>>]
  /\ points = <<>>
  /\ lists = [break |-> [a \in Places |-> 0], watch |-> [a \in Places |-> 0],
              next |-> [b \in 1 .. MaxPoints |-> 0]]
  /\ flag = [interrupt |-> FALSE, break |-> FALSE]
  /\ prompt = "prompt"
  /\ run = [mode |-> "run", arg |-> 0, inner |-> FALSE, ret |-> "ok", going |-> FALSE]
  /\ owed = FALSE

DebuggerNext == \/ CreateBreakpoint \/ EmuRun \/ Execute \/ EmuReset \/ EmuBreak
                \/ PushLine \/ EndOfInput \/ ChunkEnds

DebuggerSpec == DebuggerInit /\ [][DebuggerNext]_debuggerVars

(* Properties. *)

OfType(types) == {b \in 1 .. Len(points) : points[b].type \in types}
LastByte(b) == points[b].address + points[b].size - 1

\* A watchpoint covers the last two addresses of b and was set before it.
LastTwoTaken(b) ==
  /\ points[b].size >= 2
  /\ \E c \in OfType({"watch"}) : c < b /\ {LastByte(b) - 1, LastByte(b)} \subseteq Covered(points[c])

\* Every point is in the lists of its addresses, an address that no watchpoint
\* covers has no list to stop at, and the lists end, with one exception: a point
\* has one successor for all the lists it is in, and where an older watchpoint
\* covers the last two addresses of another one, the younger is linked behind
\* itself. Of the lists that lead to it none ends, and the next point that is set
\* at such an address never returns.
DebuggerListsEnd ==
  prompt # "hung" =>
    /\ \A b \in OfType({"break", "trace"}) : b \in Met(lists, lists.break[points[b].address])
    /\ \A a \in Places : ListEnds(lists, lists.break[a])
    /\ \A b \in OfType({"watch"}), a \in Places : a \in Covered(points[b]) => b \in Met(lists, lists.watch[a])
    /\ \A a \in Places : lists.watch[a] # 0 => \E b \in OfType({"watch"}) : a \in Covered(points[b])
    /\ \A a \in Places :
         ~ListEnds(lists, lists.watch[a]) <=>
           \E b \in OfType({"watch"}) : b \in Met(lists, lists.watch[a]) /\ LastTwoTaken(b)

\* A run that ends with a break stands at a breakpoint or has just written a
\* watched byte, unless breakflag was left over from a run that stood at a point
\* when it had written one: then the next run ends too early. And a watched
\* write ends the run it happens in, but for the first instruction of "next".
DebuggerStopsJustified ==
  [][run.going =>
       /\ ~run'.going /\ run'.ret = "break" =>
            \/ Watched(mach) \/ owed
            \/ \E b \in 1 .. Len(points) : points[b].type = "break" /\ points[b].address = mach'.pc
       /\ Watched(mach) /\ ~flag.interrupt => ~run'.going \/ (run.mode = "next" /\ ~run.inner)
    ]_mach
====
