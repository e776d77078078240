---- MODULE Snake ----
(* The snake game (user/games/snake/src/game.c): the grid, whose fields keep the
   direction in which the snake left them, and the two ends of the snake. Keys
   are polled between two moves. *)
EXTENDS Integers, FiniteSets

CONSTANTS grid_width, grid_height   \* 32 and 16 in the game

ASSUME SnakeFits == grid_width \in Nat /\ grid_width >= 3 /\ grid_height \in Nat /\ grid_height >= 3

VARIABLES
  grid,    \* type and direction of every field
  snake,   \* snake_head, snake_tail and snake_newDir
  play     \* score, gameOver, and whether placeFood searches in vain

snakeVars == <<grid, snake, play>>

Fields == 0 .. grid_width * grid_height - 1
Border == {f \in Fields : f \div grid_width \in {0, grid_height - 1} \/ f % grid_width \in {0, grid_width - 1}}
Directions == {-grid_width, grid_width, -1, 1}
Of(g, type) == {f \in Fields : g[f].type = type}

HeadMoved(g, head, to) ==
  [g EXCEPT ![to] = [type |-> "SNAKE_HEAD", dir |-> g[head].dir], ![head].type = "SNAKE"]
TailMoved(g, tail) == [g EXCEPT ![tail].type = "EMPTY"]

\* A key sets the direction of the next move, unless it is opposite to the last.
SnakeSetDir ==
  /\ ~play.over /\ ~play.stuck
  /\ \E d \in Directions :
       /\ grid[snake.head].dir # -d
       /\ snake' = [snake EXCEPT !.newDir = d]
  /\ UNCHANGED <<grid, play>>

\* The grid once the new direction is in the head's field.
Turned == IF snake.newDir = 0 THEN grid ELSE [grid EXCEPT ![snake.head].dir = snake.newDir]
NewHead == snake.head + Turned[snake.head].dir
NewTail == snake.tail + Turned[snake.tail].dir
Moving == ~play.over /\ ~play.stuck /\ Turned[snake.head].dir # 0

\* Mutant: the field of the tail is cleared after the head has moved there.
Chased_HeadFirst(g) == TailMoved(HeadMoved(g, snake.head, NewHead), snake.tail)

\* The head goes where the tail has been: the tail moves first.
Chased(g) == HeadMoved(TailMoved(g, snake.tail), snake.head, NewHead)

Chase ==
  /\ Moving /\ Turned[NewHead].type = "SNAKE" /\ NewHead = snake.tail
  /\ grid' = Chased(Turned)
  /\ snake' = [head |-> NewHead, tail |-> NewTail, newDir |-> 0]
  /\ UNCHANGED play

Collide ==
  /\ Moving /\ Turned[NewHead].type \in {"SNAKE", "BORDER"} /\ NewHead # snake.tail
  /\ grid' = TailMoved([Turned EXCEPT ![NewHead].type = "COLLISION", ![snake.head].type = "SNAKE"], snake.tail)
  /\ snake' = [snake EXCEPT !.tail = NewTail, !.newDir = 0]
  /\ play' = [play EXCEPT !.over = TRUE]

\* placeFood draws fields until one is empty, before the head moves.
Eat ==
  /\ Moving /\ Turned[NewHead].type = "FOOD"
  /\ \E f \in Of(Turned, "EMPTY") :
       grid' = HeadMoved([Turned EXCEPT ![f].type = "FOOD"], snake.head, NewHead)
  /\ snake' = [snake EXCEPT !.head = NewHead, !.newDir = 0]
  /\ play' = [play EXCEPT !.score = @ + 1]

\* There may be none.
EatLast ==
  /\ Moving /\ Turned[NewHead].type = "FOOD" /\ Of(Turned, "EMPTY") = {}
  /\ grid' = Turned
  /\ snake' = [snake EXCEPT !.newDir = 0]
  /\ play' = [play EXCEPT !.stuck = TRUE]

Crawl ==
  /\ Moving /\ Turned[NewHead].type = "EMPTY"
  /\ grid' = TailMoved(HeadMoved(Turned, snake.head, NewHead), snake.tail)
  /\ snake' = [head |-> NewHead, tail |-> NewTail, newDir |-> 0]
  /\ UNCHANGED play

Middle == grid_width \div 2 + (grid_height \div 2) * grid_width

\* initGame.
SnakeInit ==
  LET empty == [f \in Fields |-> [type |-> IF f \in Border THEN "BORDER"
                                            ELSE IF f = Middle THEN "SNAKE_HEAD" ELSE "EMPTY", dir |-> 0]]
  IN /\ \E f \in Of(empty, "EMPTY") : grid = [empty EXCEPT ![f].type = "FOOD"]
     /\ snake = [head |-> Middle, tail |-> Middle, newDir |-> 0]
     /\ play = [score |-> 0, over |-> FALSE, stuck |-> FALSE]

SnakeNext == \/ SnakeSetDir \/ Chase \/ Collide \/ Eat \/ EatLast \/ Crawl

SnakeSpec == SnakeInit /\ [][SnakeNext]_snakeVars

(* Properties. *)

\* The fields from the tail on, each in the direction kept in the one before.
Way ==
  LET way[n \in 0 .. play.score] == IF n = 0 THEN snake.tail ELSE way[n - 1] + grid[way[n - 1]].dir
  IN  way

\* The directions lead from the tail over every field of the snake once, to the
\* head, and there is one field more than the score; the border is whole and
\* there is exactly one piece of food. The game hangs exactly when the snake
\* eats the food that fills the last field.
SnakeWhole ==
  ~play.over =>
    LET body == {Way[n] : n \in 0 .. play.score}
    IN /\ Way[play.score] = snake.head
       /\ Cardinality(body) = play.score + 1
       /\ body = Of(grid, "SNAKE") \cup Of(grid, "SNAKE_HEAD")
       /\ Of(grid, "SNAKE_HEAD") = {snake.head}
       /\ Of(grid, "BORDER") = Border
       /\ Cardinality(Of(grid, "FOOD")) = 1
       /\ play.stuck => Of(grid, "EMPTY") = {}
====
