------------------------------- MODULE Tetris -------------------------------
(* Tetris (user/games/tetris/src/game.c): the board, the piece that falls,    *)
(* the keys that move it, and the lines that are cleared when it is locked.   *)
(* Colours, the score and the clock are left out.                             *)
EXTENDS Integers, FiniteSets

CONSTANTS Columns, Height,  \* 10 and 20 in the code
          StartColumn,          \* the column a piece appears at, 3 in the code
          Pieces,         \* the kinds of pieces
          Shape,          \* the cells of a piece in each of its four rotations
          MaxLines        \* bound: lines cleared

ASSUME TetrisAssumption ==
    /\ Columns \in Nat \ {0} /\ Height \in Nat \ {0} /\ MaxLines \in Nat
    /\ Pieces # {} /\ StartColumn \in Int
    /\ Shape \in [Pieces -> [0 .. 3 -> (SUBSET ((0 .. 3) \X (0 .. 3))) \ {{}}]]

VARIABLES board,   \* the cells that are taken, as <<x, y>>, y = 0 the top row
          piece,   \* [cur, x, y, rot]; cur = "none" between two pieces
          next,    \* the piece that comes next
          quit,
          merged,  \* history: the board with the last piece locked, lines not yet cleared
          lines    \* lines cleared so far

tetrisVars == <<board, piece, next, quit, merged, lines>>

Field == (0 .. Columns - 1) \X (0 .. Height - 1)
NoPiece == [cur |-> "none", x |-> 0, y |-> 0, rot |-> 0]
PieceFalls == piece # NoPiece

CellsOf(p) == {<<p.x + c[1], p.y + c[2]>> : c \in Shape[p.cur][p.rot]}
checkCollision(p) == \E c \in CellsOf(p) : c \notin Field \/ c \in board

----------------------------------------------------------------------------
Full(b, i) == \A x \in 0 .. Columns - 1 : <<x, i>> \in b

\* The rows above a full one move down by one; the top row stays as well.
ClearRow(b, i) ==
    IF ~Full(b, i) THEN b
    ELSE {c \in b : c[2] > i \/ c[2] = 0} \union {<<c[1], c[2] + 1>> : c \in {d \in b : d[2] < i}}

\* Mutant: the rows are looked at from the bottom up, each of them once.
Swept_Upwards(b) ==
    LET rows[i \in 0 .. Height] == IF i = 0 THEN b ELSE ClearRow(rows[i - 1], Height - i)
    IN  rows[Height]

\* From the top row down
Swept(b) ==
    LET rows[i \in 0 .. Height] == IF i = 0 THEN b ELSE ClearRow(rows[i - 1], i - 1)
    IN  rows[Height]

lockPiece(p) ==
    /\ merged' = board \union CellsOf(p)
    /\ board' = Swept(merged')
    /\ lines' = lines + Cardinality({i \in 0 .. Height - 1 : Full(merged', i)})
    /\ piece' = NoPiece
    /\ UNCHANGED <<next, quit>>

Try(p) ==
    /\ piece' = IF checkCollision(p) THEN piece ELSE p
    /\ UNCHANGED <<board, next, quit, merged, lines>>

----------------------------------------------------------------------------
(* The actions: a key, or the clock, which drops the piece one row.  Keys     *)
(* pressed between two pieces set what the next piece sets again.             *)

GoesOn == ~quit /\ lines < MaxLines

NewPiece ==
    /\ GoesOn /\ ~PieceFalls
    /\ LET p == [cur |-> next, x |-> StartColumn, y |-> -1, rot |-> 0]
       IN  /\ piece' = p
           /\ quit' = checkCollision(p)
    /\ next' \in Pieces
    /\ UNCHANGED <<board, merged, lines>>

SoftDrop ==
    /\ GoesOn /\ PieceFalls
    /\ LET p == [piece EXCEPT !.y = @ + 1]
       IN  IF checkCollision(p) THEN lockPiece(piece) ELSE Try(p)

HardDrop ==
    /\ GoesOn /\ PieceFalls
    /\ LET Down(d) == [piece EXCEPT !.y = @ + d]
           landed == CHOOSE d \in 0 .. Height : /\ checkCollision(Down(d + 1))
                                              /\ \A e \in 1 .. d : ~checkCollision(Down(e))
       IN  lockPiece(Down(landed))

Move == GoesOn /\ PieceFalls /\ \E d \in {-1, 1} : Try([piece EXCEPT !.x = @ + d])

Rotate == GoesOn /\ PieceFalls /\ Try([piece EXCEPT !.rot = (@ + 1) % 4])

TetrisInit ==
    /\ board = {} /\ merged = {} /\ lines = 0 /\ quit = FALSE
    /\ piece = NoPiece
    /\ next = CHOOSE p \in Pieces : TRUE

TetrisNext == NewPiece \/ SoftDrop \/ HardDrop \/ Move \/ Rotate

TetrisSpec == TetrisInit /\ [][TetrisNext]_tetrisVars

----------------------------------------------------------------------------
\* A piece that falls is inside the field and covers nothing that is taken.
PieceFree == PieceFalls /\ ~quit => ~checkCollision(piece)

\* The rows that are full, and what is left without them: each cell as many rows lower
\* as full rows were below it.
FullRows == {i \in 0 .. Height - 1 : Full(merged, i)}
Compacted ==
    {<<c[1], c[2] + Cardinality({i \in FullRows : i > c[2]})>> :
        c \in {d \in merged : d[2] \notin FullRows}}

\* Locking a piece (game.c:153) takes away exactly the full rows and lets the others fall,
\* several at once too; only when something stands in the top row does clearing a line
\* leave a copy of it there, because memmove does not empty the row it moves from.  And
\* no sequence of keys takes a piece out of the field or over a taken cell.
TetrisWhole ==
    /\ PieceFree
    /\ board = Compacted <=> (FullRows = {} \/ \A c \in merged : c[2] # 0)
=============================================================================
