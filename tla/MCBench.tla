------------------------------ MODULE MCBench ------------------------------
(* The components that do not share state with the others, each explored for  *)
(* itself in one run: bench names the one whose steps are taken, the others   *)
(* stay in their initial states.                                              *)
EXTENDS Kbc, Threads, Debugger, Stdio, Vga, Snake, Mines, Tetris, Regex, Cpu, TicTacToe

VARIABLE bench

----------------------------------------------------------------------------
(* Values for constants that a configuration cannot write.                   *)

BenchBusWrites == {<<0, 13>>, <<1, 13>>}

Instruction(op, to) == [op |-> op, to |-> to]
Point(type, address, size, condition) ==
    [type |-> type, address |-> address, size |-> size, condition |-> condition]
BenchProgram == (0 :> Instruction("call", 3)) @@ (1 :> Instruction("store", 1))
                @@ (2 :> Instruction("jump", 0)) @@ (3 :> Instruction("ret", 0))
BenchPoints == {Point("break", 2, 1, FALSE), Point("watch", 0, 2, FALSE),
                Point("watch", 0, 3, FALSE), Point("trace", 2, 1, TRUE)}

BenchContents == <<2, 0, 10>>
VideoBytes == {<<0, 0>>, <<1, 0>>}

\* The pieces I, O and J of the code
Upright == {<<2, y>> : y \in 0 .. 3}
Sideways == {<<x, 1>> : x \in 0 .. 3}
Square == {<<1, 1>>, <<2, 1>>, <<1, 2>>, <<2, 2>>}
Jay == <<{<<1, 1>>, <<2, 1>>, <<3, 1>>, <<3, 2>>}, {<<2, 0>>, <<2, 1>>, <<1, 2>>, <<2, 2>>},
         {<<1, 0>>, <<1, 1>>, <<2, 1>>, <<3, 1>>}, {<<2, 0>>, <<3, 0>>, <<2, 1>>, <<2, 2>>}>>
PieceShape ==
    [p \in {"I", "O", "J"} |-> [rot \in 0 .. 3 |->
        CASE p = "O" -> Square
          [] p = "I" -> IF rot \in {0, 2} THEN Sideways ELSE Upright
          [] p = "J" -> Jay[rot + 1]]]

----------------------------------------------------------------------------
(* The expressions: atoms, short bodies of one or two pieces with and without *)
(* an alternative, groups of them under every multiplier, groups in groups.   *)

In(text, set) == [kind |-> "in", text |-> text, set |-> set]
NotIn(text, set) == [kind |-> "notin", text |-> text, set |-> set]
Piece(atom, mult) == [atom |-> atom, mult |-> mult]
Single(atom) == Piece(atom, <<>>)
A == In(<<"a">>, {"a"})
B == In(<<"b">>, {"b"})
Bol == [kind |-> "bol", text |-> <<"^">>]
Eol == [kind |-> "eol", text |-> <<"$">>]
Multiples == {<<>>, <<"*">>, <<"+">>, <<"?">>}

Inner == {Single(A), Single(B), Single(Bol), Piece(A, <<"*">>)}
Outer == {Single(B), Single(Eol), Piece(A, <<"?">>), Single(In(<<"\\", "a">>, {"a"})),
          Piece(NotIn(<<"[", "^", "a", "]">>, {"a"}), <<"+">>),
          Piece(In(<<"[", "a", "-", "b", "]">>, {"a", "b"}), <<"*">>)}
Bodies == {<<<<p, q>>>> : p, q \in Inner} \union {<<<<p>>, <<>>>> : p \in Inner}
            \union {<<<<p>>, <<Single(B)>>>> : p \in Inner} \union {<<<<Single(A)>>>>}
Grouped(bodies) == {Piece([kind |-> "group", body |-> b], m) : b \in bodies, m \in Multiples}
BenchExpressions ==
    {<<<<p, q>>>> : p \in Outer, q \in Inner \union Outer}
      \union {<<<<g>>>> : g \in Grouped(Bodies)}
      \union {<<<<g, p>>>> : g \in Grouped(Bodies), p \in Outer}
      \union {<<<<Single(A), g>>>> : g \in Grouped(Bodies)}
      \union {<<<<h>>>> : h \in Grouped({<<<<g, Single(B)>>>> : g \in Grouped({<<<<Single(A)>>, <<Single(B)>>>>})}
                                  \union {<<<<g>>, <<Single(B)>>>> : g \in Grouped({<<<<Single(A)>>>>})})}
      \union {<<<<g, g, g>>>> : g \in Grouped({<<<<Single(A)>>>>})}

TextsOver(chars, lengths) == UNION {[1 .. n -> chars] : n \in lengths}

BenchRawTexts == TextsOver({"a", "*", "(", ")", "[", "-", "]"}, 1 .. 4)
BenchSubjects == TextsOver({"a", "b"}, 0 .. 3)
BenchTemplates == {<<"&">>, <<"\\", "1", "a">>, <<"\\", "2", "\\", "&">>}
\* The order of the character codes
BenchOrder == <<"$", "(", ")", "*", "+", "-", ".", "?", "[", "\\", "]", "^", "a", "b", "|">>

----------------------------------------------------------------------------
benchVars == <<bench, kbcVars, threadVars, debuggerVars, stdioVars, vgaVars, snakeVars,
               minesVars, tetrisVars, regexVars, cpuVars, game>>

\* The first food of a snake that does not move is where it does not matter.
BenchInit ==
    /\ bench \in {"kbc", "threads", "debugger", "stdio", "vga", "snake",
                  "mines", "tetris", "regex", "cpu", "ttt"}
    /\ KbcInit
    /\ ThreadsInit
    /\ DebuggerInit
    /\ StdioInit
    /\ VgaInit
    /\ SnakeInit
    /\ bench # "snake" => \A f \in Of(grid, "FOOD"), g \in Of(grid, "EMPTY") : f < g
    /\ MinesInit
    /\ TetrisInit
    /\ RegexInit
    /\ CpuInit
    /\ TttInit

\* The components that are not on the bench stay as they are.
OthersStay ==
    /\ UNCHANGED bench
    /\ bench # "kbc" => UNCHANGED kbcVars
    /\ bench # "threads" => UNCHANGED threadVars
    /\ bench # "debugger" => UNCHANGED debuggerVars
    /\ bench # "stdio" => UNCHANGED stdioVars
    /\ bench # "vga" => UNCHANGED vgaVars
    /\ bench # "snake" => UNCHANGED snakeVars
    /\ bench # "mines" => UNCHANGED minesVars
    /\ bench # "tetris" => UNCHANGED tetrisVars
    /\ bench # "regex" => UNCHANGED regexVars
    /\ bench # "cpu" => UNCHANGED cpuVars
    /\ bench # "ttt" => UNCHANGED game

BenchNext ==
    \/ bench = "kbc" /\ KbcNext /\ OthersStay
    \/ bench = "threads" /\ ThreadsNext /\ OthersStay
    \/ bench = "debugger" /\ DebuggerNext /\ OthersStay
    \/ bench = "stdio" /\ StdioNext /\ OthersStay
    \/ bench = "vga" /\ VgaNext /\ OthersStay
    \/ bench = "snake" /\ SnakeNext /\ OthersStay
    \/ bench = "mines" /\ MinesNext /\ OthersStay
    \/ bench = "tetris" /\ TetrisNext /\ OthersStay
    \/ bench = "regex" /\ RegexNext /\ OthersStay
    \/ bench = "cpu" /\ CpuNext /\ OthersStay
    \/ bench = "ttt" /\ TttNext /\ OthersStay

\* The fairness of the component that promises to go on
BenchFairness ==
    /\ WF_threadVars(bench = "threads" /\ Fits /\ Tick /\ OthersStay)
    /\ WF_threadVars(bench = "threads" /\ cpu.does = "again" /\ SemWait /\ OthersStay)

BenchSpec == BenchInit /\ [][BenchNext]_benchVars /\ BenchFairness

=============================================================================
