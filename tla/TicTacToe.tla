----------------------------- MODULE TicTacToe -----------------------------
(* Tic Tac Toe (user/games/tictactoe/src): the turns of a game and the        *)
(* search of the computer, which is to move.  X is -1, O is 1, NONE is 0.     *)
EXTENDS Integers, FiniteSets, FiniteSetsExt

CONSTANTS Players,  \* how many people play: 0, 1 or 2
          Levels    \* the difficulties the player chooses from, of 0 .. 3

VARIABLE game  \* game_t, with who began and whether the game is over

PLAYER_X == -1
PLAYER_O == 1
NONE == 0
BoardFields == 0 .. 8
Corners == {0, 2, 6, 8}
Depths == [level \in 0 .. 3 |-> <<0, 2, 5, 5>>[level + 1]]

Lines == {{3 * i, 3 * i + 1, 3 * i + 2} : i \in 0 .. 2}
            \union {{i, i + 3, i + 6} : i \in 0 .. 2} \union {{0, 4, 8}, {2, 4, 6}}
Has(board, player) == \E line \in Lines : \A f \in line : board[f] = player
checkWinner(board) == CASE Has(board, PLAYER_X) -> PLAYER_X
                        [] Has(board, PLAYER_O) -> PLAYER_O
                        [] OTHER -> NONE
FreeFields(board) == {f \in BoardFields : board[f] = NONE}

\* How good the last move of player was.  The answers of the other are not weighed
\* against each other as in a minimax search: if one of them lets the player win, that
\* one counts, and the worst one only when none does.
RECURSIVE testMove(_, _, _)

\* Mutant: a win is worth the same however far it is.
testMove_AnyWin(board, player, depth) ==
    LET winner == checkWinner(board)
        scores == {-testMove([board EXCEPT ![f] = -player], -player, depth - 1) : f \in FreeFields(board)}
    IN  CASE depth = 0 -> 0
          [] depth > 0 /\ winner # NONE -> winner * player
          [] OTHER -> IF Max(scores \union {0}) # 0 THEN 1 ELSE Min(scores \union {0})

testMove(board, player, depth) ==
    LET winner == checkWinner(board)
        scores == {-testMove([board EXCEPT ![f] = -player], -player, depth - 1) : f \in FreeFields(board)}
        bestScore == Max(scores \union {0})
        worstScore == Min(scores \union {0})
    IN  CASE depth = 0 -> 0
          [] depth > 0 /\ winner = player -> depth
          [] depth > 0 /\ winner = -player -> -depth
          [] OTHER -> IF bestScore # 0 THEN bestScore ELSE worstScore

\* The moves the computer may make: the first field with the best score, or a random one
getBestMove(g) ==
    LET Score(f) == testMove([g.board EXCEPT ![f] = g.currentPlayer], g.currentPlayer,
                             Depths[g.difficulty])
        scores == [f \in FreeFields(g.board) |-> Score(f)]
        best == {f \in FreeFields(g.board) : \A h \in FreeFields(g.board) : scores[h] <= scores[f]}
    IN  CASE g.difficulty = 3 /\ g.turn = 0 -> Corners
          [] g.difficulty = 3 /\ g.turn = 1 -> IF g.board[4] # NONE THEN Corners ELSE {4}
          [] g.difficulty > 0 /\ g.turn > 1 -> {Min(best)}
          [] OTHER -> FreeFields(g.board)

\* The end of a turn, in playGame
Moved(g, f) ==
    LET board == [g.board EXCEPT ![f] = g.currentPlayer]
        over == checkWinner(board) # NONE \/ g.turn = 8
    IN  [g EXCEPT !.board = board, !.over = over,
                  !.currentPlayer = IF over THEN @ ELSE -@, !.turn = IF over THEN @ ELSE @ + 1]

Computer == (game.players = 1 /\ game.currentPlayer = PLAYER_O) \/ game.players = 0

ComputerMove ==
    /\ ~game.over /\ Computer
    /\ \E f \in getBestMove(game) : game' = Moved(game, f)

\* The keys take the cursor to any field; enter takes a free one
PlayerMove ==
    /\ ~game.over /\ ~Computer
    /\ \E f \in FreeFields(game.board) : game' = Moved(game, f)

resetGame(g) == [g EXCEPT !.board = [f \in BoardFields |-> NONE], !.turn = 0, !.over = FALSE,
                      !.currentPlayer = g.first]

Chosen == game.players # -1

\* Two computers play at level 3.
BeginGame(players, level) ==
    /\ ~Chosen
    /\ game' = resetGame([game EXCEPT !.players = players, !.first = PLAYER_X,
                                  !.difficulty = IF players = 0 THEN 3 ELSE level])

\* The other side begins the next game, unless two computers play.
PlayAgain ==
    /\ Chosen /\ game.over
    /\ game' = resetGame([game EXCEPT !.first = IF game.players = 0 THEN @ ELSE -@])

TttInit ==
    game = [board |-> [f \in BoardFields |-> NONE], currentPlayer |-> PLAYER_X, first |-> PLAYER_X,
            turn |-> 0, players |-> -1, difficulty |-> 0, over |-> TRUE]

TttNext ==
    \/ \E players \in Players, level \in Levels : BeginGame(players, level)
    \/ PlayAgain \/ ComputerMove \/ PlayerMove

TttSpec == TttInit /\ [][TttNext]_game

Completes(board, player) == {f \in FreeFields(board) : Has([board EXCEPT ![f] = player], player)}

\* What the search of ai.c is for: once it searches, the computer never passes up a move
\* that wins, and at level 1 it takes the only field where the player would win next.
\* At levels 2 and 3 it does not always: an answer that loses is forgotten when another
\* one wins (ai.c:69).
TttTakesAndBlocks ==
    [][Computer /\ ~game.over /\ game.difficulty > 0 /\ game.turn > 1 =>
         LET me == game.currentPlayer
             wins == Completes(game.board, me)
             threats == Completes(game.board, -me)
         IN  /\ wins # {} => checkWinner(game'.board) = me
             /\ wins = {} /\ Cardinality(threats) = 1 /\ game.difficulty = 1 =>
                  \A f \in threats : game'.board[f] = me]_game
=============================================================================
