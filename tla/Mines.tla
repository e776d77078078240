---- MODULE Mines ----
(* The mines game (user/games/mines/src): the board, the counters the program
   keeps beside it, and the keys. *)
EXTENDS Integers, FiniteSets

CONSTANTS boardWidth, boardHeight, totalMines

VARIABLES
  cursor,
  boardStatus,      \* HIDDEN, FLAGGED or REVEALED for every field
  mines,            \* the fields whose boardContent is MINE
  boardGenerated,
  hiddenFields, unflaggedMines, gameOver,
  cleared           \* history: flags that generateBoard took away

minesVars == <<cursor, boardStatus, mines, boardGenerated, hiddenFields, unflaggedMines, gameOver, cleared>>

Board == 0 .. boardWidth * boardHeight - 1

ASSUME MinesAssumption ==
  boardWidth \in Nat \ {0} /\ boardHeight \in Nat \ {0} /\ totalMines \in 0 .. boardWidth * boardHeight - 1

Column(f) == f % boardWidth
Row(f) == f \div boardWidth
Adjacent(f, g) == Column(g) - Column(f) \in -1 .. 1 /\ Row(g) - Row(f) \in -1 .. 1
With(status) == {f \in Board : boardStatus[f] = status}
Unrevealed == Board \ With("REVEALED")

\* boardContent[f] == NONE: no mine here and none around.
None(m, f) == \A g \in m : ~Adjacent(f, g)

\* Mutant: the recursion goes on to every field around.
Leads_All(m, f, g) == Adjacent(f, g)

\* revealField goes on from f to g.
Leads(m, f, g) == Adjacent(f, g) /\ (None(m, g) \/ None(m, f))

\* The fields revealField(f) reveals when the fields of hidden are HIDDEN: what
\* its recursion reaches, the least set with f that it does not lead out of.
Reached(m, hidden, f) ==
  LET closed == {S \in SUBSET hidden : f \in S /\ \A a \in S, b \in hidden : Leads(m, a, b) => b \in S}
  IN {g \in hidden : \A S \in closed : g \in S}

Playing == ~gameOver /\ hiddenFields > totalMines

MoveCursor ==
  /\ Playing
  /\ cursor' \in {f \in Board : \/ f = cursor - boardWidth \/ f = cursor + boardWidth
                                \/ f = cursor - 1 /\ Column(cursor) > 0
                                \/ f = cursor + 1 /\ Column(cursor) < boardWidth - 1}
  /\ UNCHANGED <<boardStatus, mines, boardGenerated, hiddenFields, unflaggedMines, gameOver, cleared>>

SetFlag ==
  /\ Playing /\ boardStatus[cursor] = "HIDDEN"
  /\ boardStatus' = [boardStatus EXCEPT ![cursor] = "FLAGGED"]
  /\ unflaggedMines' = unflaggedMines - 1
  /\ UNCHANGED <<cursor, mines, boardGenerated, hiddenFields, gameOver, cleared>>

ClearFlag ==
  /\ Playing /\ boardStatus[cursor] = "FLAGGED"
  /\ boardStatus' = [boardStatus EXCEPT ![cursor] = "HIDDEN"]
  /\ unflaggedMines' = unflaggedMines + 1
  /\ UNCHANGED <<cursor, mines, boardGenerated, hiddenFields, gameOver, cleared>>

Hidden(status) == {f \in Board : status[f] = "HIDDEN"}

\* The space key once the board is m and status.
RevealOn(m, status) ==
  \/ /\ status[cursor] # "HIDDEN"
     /\ boardStatus' = status
     /\ UNCHANGED <<hiddenFields, gameOver>>
  \/ /\ status[cursor] = "HIDDEN"
     /\ \E now \in {Reached(m, Hidden(status), cursor)} :
          /\ boardStatus' = [f \in Board |-> IF f \in now THEN "REVEALED" ELSE status[f]]
          /\ hiddenFields' = hiddenFields - Cardinality(now)
     /\ gameOver' = (cursor \in m)

\* The first one: generateBoard puts the mines anywhere but under the cursor and
\* hides all fields, those with flags too; unflaggedMines is not reset.
RevealFirst ==
  /\ Playing /\ ~boardGenerated
  /\ \E m \in SUBSET (Board \ {cursor}) :
       /\ Cardinality(m) = totalMines
       /\ mines' = m
       /\ RevealOn(m, [f \in Board |-> "HIDDEN"])
  /\ boardGenerated' = TRUE
  /\ cleared' = Cardinality(With("FLAGGED"))
  /\ UNCHANGED <<cursor, unflaggedMines>>

Reveal ==
  /\ Playing /\ boardGenerated
  /\ RevealOn(mines, boardStatus)
  /\ UNCHANGED <<cursor, mines, boardGenerated, unflaggedMines, cleared>>

MinesInit ==
  /\ cursor = 0
  /\ boardStatus = [f \in Board |-> "HIDDEN"]
  /\ mines = {} /\ boardGenerated = FALSE
  /\ hiddenFields = boardWidth * boardHeight
  /\ unflaggedMines = totalMines
  /\ gameOver = FALSE /\ cleared = 0

MinesNext == MoveCursor \/ SetFlag \/ ClearFlag \/ RevealFirst \/ Reveal
MinesSpec == MinesInit /\ [][MinesNext]_minesVars

(* Properties. *)

\* The counters agree with the board, whatever is flagged and however far the
\* recursion runs, so that the game ends as it should: lost exactly when a mine
\* is revealed, won exactly when the fields left are the mines. The number of
\* mines to flag is off by the flags that were set before the first field.
MinesFair ==
  /\ hiddenFields = Cardinality(Unrevealed)
  /\ gameOver <=> With("REVEALED") \cap mines # {}
  /\ boardGenerated /\ ~gameOver => (hiddenFields <= totalMines <=> Unrevealed = mines)
  /\ unflaggedMines + Cardinality(With("FLAGGED")) + cleared = totalMines
====
