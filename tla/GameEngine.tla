---------------------------- MODULE GameEngine ----------------------------
(***************************************************************************)
(* The rules of one game: the board, its players and their bombs, as       *)
(* src/src/game/{game,player,bomb}.c compute them.                         *)
(*                                                                         *)
(* The board is the flat array of the code, b->grid[y*b->w + x]: a         *)
(* coordinate one step beyond a side border names the end of a             *)
(* neighbouring row, one beyond the top or the bottom names memory outside *)
(* the array.                                                              *)
(*                                                                         *)
(* The game thread alternates player_handle_input for its players with     *)
(* update_game.  An update is one step per player (the body of its loop),  *)
(* taken in the order of players_list; `turn' is the loop index, and 0     *)
(* also stands for "between two updates", when inputs are applied.         *)
(*                                                                         *)
(* `undefined' records that the C program has left its defined behaviour   *)
(* (a write outside the array, the use of a freed bomb): nothing is known  *)
(* of the program afterwards and the model stops there.                    *)
(***************************************************************************)
EXTENDS Integers

CONSTANTS
  BOARD_WIDTH,   \* 30 in src/src/headers/globals.h
  BOARD_HEIGHT,  \* 15
  PLAYER_COUNT,  \* g->player_count once the players are added: 4 for 4, if it started
                 \* from 0; but setup_game leaves it as malloc gave it
  Actors,        \* indices of the players whose client sends actions
  STACKED,       \* whether a player may get several actions per update, as it
                 \* does when its client holds several seats of the game
  DIFF_SIZE,     \* bytes of the array update_game lists its changes in, 450
  FUSE,          \* updates a bomb waits, 100 in create_bomb
  BLAST          \* updates an explosion lasts, 33 in explode_bomb

Players == 0 .. PLAYER_COUNT - 1

ASSUME BoardAssumption ==
  /\ BOARD_WIDTH  \in Nat /\ BOARD_WIDTH  >= 2
  /\ BOARD_HEIGHT \in Nat /\ BOARD_HEIGHT >= 2

ASSUME PlayersAssumption ==
  /\ PLAYER_COUNT \in 1 .. 4
  /\ Actors \subseteq Players
  /\ STACKED \in BOOLEAN

\* A player's turn lists its changes in 24 bytes at most; one more ends the list.
ASSUME DiffAssumption == DIFF_SIZE \in Nat /\ 24 * PLAYER_COUNT < DIFF_SIZE

ASSUME TimersAssumption == FUSE \in Nat /\ BLAST \in Nat

VARIABLES
  grid,        \* b->grid
  players,     \* players_list
  bomb_list,   \* bomb_list: the bomb each of its four pointers leads to
  turn,        \* the index i of update_game's loop
  diff_count,  \* bytes of diff written by the update under way, at most
  undefined    \* the program has left its defined behaviour

vars == <<grid, players, bomb_list, turn, diff_count, undefined>>

-----------------------------------------------------------------------------
(* The board *)

FREE      == 0
WALL      == 1
BOMB_TILE == 3
FIRE      == 4
PlayerTile(i) == 5 + i
Tiles == 0 .. 8

Cells == 0 .. BOARD_WIDTH * BOARD_HEIGHT - 1

\* The index get_grid and set_grid compute.
Cell(x, y) == y * BOARD_WIDTH + x

InBoard(x, y) == x \in 0 .. BOARD_WIDTH - 1 /\ y \in 0 .. BOARD_HEIGHT - 1

\* Every second cell of every second row, the first and last rows excepted.
Walls ==
  { c \in Cells : \E x \in 0 .. BOARD_WIDTH - 1, y \in 1 .. BOARD_HEIGHT - 2 :
                    c = Cell(x, y) /\ x % 2 = 0 /\ y % 2 = 0 }

\* The four indices an explosion in cell c looks at.
Cross(c) == { c + 1, c - 1, c + BOARD_WIDTH, c - BOARD_WIDTH }

-----------------------------------------------------------------------------
(* Players and bombs *)

Here(p)  == Cell(p.pos_x, p.pos_y)
Ahead(p) == Cell(p.next_x, p.next_y)

Spawn(i) ==
  [ x |-> IF i \in {1, 3} THEN BOARD_WIDTH - 1 ELSE 0,
    y |-> IF i \in {2, 3} THEN BOARD_HEIGHT - 1 ELSE 0 ]

\* setup_player clears the record and never sets its id.
SetupPlayer(i) ==
  [ pos_x  |-> Spawn(i).x, pos_y  |-> Spawn(i).y,
    next_x |-> Spawn(i).x, next_y |-> Spawn(i).y,
    id |-> 0, has_bomb |-> 1, is_placing_bomb |-> 0, state |-> "ALIVE" ]

\* Mutant: the bomb is out as soon as it is asked for.
Handled_ClearsBomb(p, action) ==
  CASE action = 0 -> [p EXCEPT !.next_y = p.pos_y - 1]
    [] action = 1 -> [p EXCEPT !.next_x = p.pos_x - 1]
    [] action = 2 -> [p EXCEPT !.next_y = p.pos_y + 1]
    [] action = 3 -> [p EXCEPT !.next_x = p.pos_x + 1]
    [] action = 4 -> [p EXCEPT !.is_placing_bomb = 1, !.has_bomb = 0]
    [] OTHER      -> p

\* player_handle_input: UP 0, LEFT 1, DOWN 2, RIGHT 3, SPACE 4 of enum ACTION;
\* REVERT 5 and the two values left in the three bits of an action do nothing.
Handled(p, action) ==
  CASE action = 0 -> [p EXCEPT !.next_y = p.pos_y - 1]
    [] action = 1 -> [p EXCEPT !.next_x = p.pos_x - 1]
    [] action = 2 -> [p EXCEPT !.next_y = p.pos_y + 1]
    [] action = 3 -> [p EXCEPT !.next_x = p.pos_x + 1]
    [] action = 4 -> [p EXCEPT !.is_placing_bomb = IF p.has_bomb = 1 THEN 1 ELSE @]
    [] OTHER      -> p

NoBomb == [pos_x |-> 0, pos_y |-> 0, time_remaining |-> 0, state |-> "GONE"]

CreateBomb(p) ==
  [pos_x |-> p.pos_x, pos_y |-> p.pos_y, time_remaining |-> FUSE, state |-> "BOMB"]

UpdateBomb(b) ==
  CASE b.time_remaining > 0  -> [b EXCEPT !.time_remaining = @ - 1]
    [] b.time_remaining = 0 /\ b.state = "BOMB" ->
         [b EXCEPT !.state = "EXPLOSION", !.time_remaining = BLAST]
    [] OTHER -> [b EXCEPT !.state = "REMOVE"]

-----------------------------------------------------------------------------
(* The body of update_game's loop: three stages, each from one             *)
(* [player, grid, bomb] to the next.                                       *)

\* What get_grid may return for the cell a player heads for: anything, when
\* that is outside the array.
TilesAhead(p) == IF Ahead(p) \in Cells THEN {grid[Ahead(p)]} ELSE Tiles

\* Mutant: the flat index is checked, the coordinates are not.
CanStep_Flat(p) == Ahead(p) \in Cells /\ grid[Ahead(p)] = FREE

CanStep(p) == InBoard(p.next_x, p.next_y) /\ grid[Ahead(p)] = FREE

\* Mutant: the cell a player leaves, or dies in, keeps its tile.
Vacated_Not(p) == grid

Vacated(p) == [grid EXCEPT ![Here(p)] = FREE]

Moved(i, ahead) ==
  LET p == players[i]
      bomb == bomb_list[p.id]
  IN IF CanStep(p)
     THEN [ player |-> [p EXCEPT !.pos_x = p.next_x, !.pos_y = p.next_y],
            grid   |-> [Vacated(p) EXCEPT ![Ahead(p)] = PlayerTile(i)],
            bomb   |-> bomb ]
     ELSE IF ahead = FIRE
     THEN [ player |-> [p EXCEPT !.state = "DEAD"],
            grid   |-> Vacated(p),
            bomb   |-> bomb ]
     ELSE [ player |-> [p EXCEPT !.next_x = p.pos_x, !.next_y = p.pos_y],
            grid   |-> grid,
            bomb   |-> bomb ]

\* The bomb of a player that asked for one, even if it has just died.
Placed(w) ==
  IF w.player.is_placing_bomb = 0 THEN w
  ELSE [ player |-> [w.player EXCEPT !.is_placing_bomb = 0, !.has_bomb = 0],
         grid   |-> [w.grid EXCEPT ![Here(w.player)] = BOMB_TILE],
         bomb   |-> CreateBomb(w.player) ]

\* Mutant: the dead act.
Acted_Dead(i, ahead) == Placed(Moved(i, ahead))

\* A player found dead skips the two stages above.
Acted(i, ahead) ==
  IF players[i].state = "DEAD"
  THEN [player |-> players[i], grid |-> grid, bomb |-> bomb_list[players[i].id]]
  ELSE Placed(Moved(i, ahead))

\* Mutant: fire takes whatever the neighbouring cells hold.
Lit_All(g, c) == [ n \in Cells |-> IF n = c \/ n \in Cross(c) THEN FIRE ELSE g[n] ]

Lit(g, c) ==
  [ n \in Cells |-> IF n = c \/ (n \in Cross(c) /\ g[n] = FREE) THEN FIRE ELSE g[n] ]

\* Mutant: only the bomb's own cell is cleared.
Cleared_Centre(g, c) == [g EXCEPT ![c] = FREE]

Cleared(g, c) ==
  [ n \in Cells |-> IF n = c \/ (n \in Cross(c) /\ g[n] = FIRE) THEN FREE ELSE g[n] ]

\* The board once bomb b is drawn in the state its timer has reached.
Drawn(g, b) ==
  CASE b.state = "BOMB"      -> [g EXCEPT ![Here(b)] = BOMB_TILE]
    [] b.state = "EXPLOSION" -> Lit(g, Here(b))
    [] b.state = "REMOVE"    -> Cleared(g, Here(b))

\* Mutant: the bombs of the dead wait.
Out_Alive(w) ==
  w.player.has_bomb = 0 /\ w.bomb.state # "GONE" /\ w.player.state = "ALIVE"

Out(w) == w.player.has_bomb = 0 /\ w.bomb.state # "GONE"

\* Mutant: a bomb that is removed is not given back.
Ticked_KeepsOut(w) ==
  LET b == UpdateBomb(w.bomb)
  IN IF ~Out(w) THEN w
     ELSE [ player |-> w.player,
            grid   |-> Drawn(w.grid, b),
            bomb   |-> IF b.state = "REMOVE" THEN NoBomb ELSE b ]

\* One step of the player's bomb while it is out, the player alive or dead.
Ticked(w) ==
  LET b == UpdateBomb(w.bomb)
  IN IF ~Out(w) THEN w
     ELSE [ player |-> [w.player EXCEPT !.has_bomb = IF b.state = "REMOVE" THEN 1 ELSE 0],
            grid   |-> Drawn(w.grid, b),
            bomb   |-> IF b.state = "REMOVE" THEN NoBomb ELSE b ]

\* Whether the step leaves defined behaviour: it does when it uses a bomb already
\* freed, and it may when the cross of the bomb reaches outside the array, where
\* what is found decides whether it is written.
Damage(w) ==
  LET b == UpdateBomb(w.bomb)
  IN CASE w.player.has_bomb = 1     -> {FALSE}
       [] w.player.has_bomb = 0 /\ w.bomb.state = "GONE" -> {TRUE}
       [] w.player.has_bomb = 0 /\ w.bomb.state # "GONE" ->
            IF b.state = "BOMB" \/ Cross(Here(b)) \subseteq Cells
            THEN {FALSE} ELSE BOOLEAN

-----------------------------------------------------------------------------
(* The list of changes: three bytes for each, and one or two that a change *)
(* below or above an explosion adds.                                       *)

\* A cell outside the array may hold the tile looked for.
BytesAt(g, n, tile, bytes) == IF n \in Cells THEN (IF g[n] = tile THEN bytes ELSE 0) ELSE bytes

DrawnBytes(g, b) ==
  LET c == Here(b)
  IN CASE b.state = "BOMB" -> 3
       [] b.state = "EXPLOSION" ->
            3 + BytesAt(g, c + 1, FREE, 3) + BytesAt(g, c - 1, FREE, 3)
              + BytesAt(g, c + BOARD_WIDTH, FREE, 4) + BytesAt(g, c - BOARD_WIDTH, FREE, 5)
       [] b.state = "REMOVE" ->
            3 + BytesAt(g, c + 1, FIRE, 3) + BytesAt(g, c - 1, FIRE, 3)
              + BytesAt(g, c + BOARD_WIDTH, FIRE, 3) + BytesAt(g, c - BOARD_WIDTH, FIRE, 3)

ActedBytes(i, ahead) ==
  IF players[i].state = "DEAD" THEN 0
  ELSE (IF CanStep(players[i]) \/ ahead = FIRE THEN 3 ELSE 0)
       + (IF players[i].is_placing_bomb = 1 THEN 3 ELSE 0)

\* The most a turn writes.
Written(i, ahead) ==
  LET w == Acted(i, ahead)
  IN ActedBytes(i, ahead) + (IF Out(w) THEN DrawnBytes(w.grid, UpdateBomb(w.bomb)) ELSE 0)

\* Mutant: an update starts where the last one ended.
Counted_On(i, written) == diff_count + written

\* An update starts from 0; what it wrote is given back with nb_diff at its end.
Counted(i, written) == IF i + 1 = PLAYER_COUNT THEN 0 ELSE diff_count + written

-----------------------------------------------------------------------------

Init ==
  /\ grid      = [c \in Cells |-> IF c \in Walls THEN WALL ELSE FREE]
  /\ players   = [i \in Players |-> SetupPlayer(i)]
  /\ bomb_list = [k \in 0 .. 3 |-> NoBomb]
  /\ turn      = 0
  /\ diff_count = 0
  /\ undefined = FALSE

\* No action has been applied to p since the last update.
Unasked(p) ==
  /\ p.is_placing_bomb = 0
  /\ p.state = "DEAD" \/ Ahead(p) = Here(p)

HandleInput(i, action) ==
  /\ ~undefined
  /\ turn = 0
  /\ STACKED \/ Unasked(players[i])
  /\ players' = [players EXCEPT ![i] = Handled(@, action)]
  /\ UNCHANGED <<grid, bomb_list, turn, diff_count, undefined>>

PlayerTurn(i) ==
  /\ ~undefined
  /\ turn = i
  /\ \E ahead \in TilesAhead(players[i]) : \E w \in {Acted(i, ahead)} : \E v \in {Ticked(w)} :
       /\ players'   = [players EXCEPT ![i] = v.player]
       /\ grid'      = v.grid
       /\ bomb_list' = [bomb_list EXCEPT ![players[i].id] = v.bomb]
       /\ diff_count' = Counted(i, Written(i, ahead))
       /\ undefined' \in Damage(w)
  /\ turn' = IF i + 1 = PLAYER_COUNT THEN 0 ELSE i + 1

Next ==
  \/ \E i \in Actors, action \in 0 .. 7 : HandleInput(i, action)
  \/ \E i \in Players : PlayerTurn(i)

Spec == Init /\ [][Next]_vars

-----------------------------------------------------------------------------
(* Properties *)

BombType ==
  [ pos_x : 0 .. BOARD_WIDTH - 1, pos_y : 0 .. BOARD_HEIGHT - 1,
    time_remaining : Nat, state : {"BOMB", "EXPLOSION", "GONE"} ]

PlayerType ==
  [ pos_x : 0 .. BOARD_WIDTH - 1, pos_y : 0 .. BOARD_HEIGHT - 1,
    next_x : Int, next_y : Int, id : 0 .. 3,
    has_bomb : {0, 1}, is_placing_bomb : {0, 1}, state : {"ALIVE", "DEAD"} ]

\* Every variable has its type; in particular a player's position, and a bomb's,
\* stays within the board whatever the client asks for.
TypeOK ==
  /\ grid \in [Cells -> Tiles]
  /\ players \in [Players -> PlayerType]
  /\ bomb_list \in [0 .. 3 -> BombType]
  /\ turn \in Players
  /\ diff_count \in 0 .. 24 * turn
  /\ undefined \in BOOLEAN

\* Nothing the players and their bombs do raises or destroys a wall, although
\* update_game paints cells without asking what they held (the cell a player
\* leaves, the cell of a bomb).
WallsStand == \A c \in Cells : grid[c] = WALL <=> c \in Walls

\* A tile naming player i is under player i, alive: a player leaves no copy of
\* itself behind, on the board sent to the clients, when it moves, plants, burns.
NoGhosts ==
  \A c \in Cells, i \in Players :
    grid[c] = PlayerTile(i) => players[i].state = "ALIVE" /\ c = Here(players[i])

\* The dead neither move nor plant, whatever input their client still sends: a
\* dead player's bomb only comes back to it.
DeadDoNotAct ==
  [][ \A i \in Players : players[i].state = "DEAD" =>
        /\ players'[i].state = "DEAD"
        /\ Here(players[i])' = Here(players[i])
        /\ players'[i].has_bomb >= players[i].has_bomb ]_vars

\* Whatever the next player's turn changes fits in the list, the byte that ends it
\* included, although the array was sized for one byte per cell.
DiffFits ==
  ~undefined =>
    \A ahead \in TilesAhead(players[turn]) :
      diff_count + Written(turn, ahead) < DIFF_SIZE

\* update_game is to follow the pointer of a bomb already freed at player i's turn.
Stale(i) == players[i].has_bomb = 0 /\ bomb_list[players[i].id].state = "GONE"

\* Whatever its client sends, a player's own turns never leave it with a freed bomb to
\* follow: only the turn of another planter does, the one that removes the bomb both
\* lead to and gives it back to that other alone.
StaleByAnother ==
  [][ \A i \in Players :
        ~Stale(i) /\ Stale(i)' =>
          \E j \in Players \ {i} :
            /\ turn = j
            /\ players[j].has_bomb = 0 /\ players'[j].has_bomb = 1
            /\ players[i].has_bomb = 0 ]_vars

(* With one acting player; two of them share bomb_list[0], see TileNamesId. *)

\* What the board shows of bombs is the bomb that is out: tile 3 is where it
\* waits and nowhere else, and no fire burns away from its explosion.
TilesMatchBomb ==
  LET b == bomb_list[0]
  IN \A c \in Cells :
       /\ grid[c] = BOMB_TILE <=> b.state = "BOMB" /\ c = Here(b)
       /\ grid[c] = FIRE => b.state = "EXPLOSION" /\ c \in {Here(b)} \cup Cross(Here(b))

\* update_game reaches a bomb exactly through players that have theirs out: it
\* never follows the pointer of a bomb already freed.
BombOutIsLive ==
  \A i \in Players :
    players[i].has_bomb = 0 => bomb_list[players[i].id].state # "GONE"

\* update_game may leave the array only from an explosion on the first or the last row:
\* on the side columns it wraps into the neighbouring rows, and a bomb that still waits,
\* or is out no more, does no harm.
BreaksOnlyAtEdge ==
  [][ undefined' # undefined =>
        LET b == bomb_list[0]
        IN /\ b.state = "EXPLOSION" \/ (b.state = "BOMB" /\ b.time_remaining = 0)
           /\ b.pos_y \in {0, BOARD_HEIGHT - 1} ]_vars

\* Nobody dies but by heading for, or staying in, a cell of the explosion under way: no
\* fire is left behind or drawn elsewhere.  Beyond a side of the board that cell is one of
\* the next row, and beyond the first or last row whatever the memory holds.
DiesOfExplosion ==
  [][ \A i \in Players :
        players[i].state = "ALIVE" /\ players'[i].state = "DEAD" =>
          LET b == bomb_list[0]
              c == Ahead(players[i])
          IN c \in Cells => b.state = "EXPLOSION" /\ c \in {Here(b)} \cup Cross(Here(b)) ]_vars

(* The countdown of BombLife, for the player p that plants *)

\* A bomb leaves BOMB, and EXPLOSION, in the update that finds its timer at 0.
Left(b) ==
  CASE b.state = "BOMB"      -> b.time_remaining + BLAST + 2
    [] b.state = "EXPLOSION" -> b.time_remaining + 1
    [] b.state = "GONE"      -> 0

Where(b) == IF b.state = "GONE" THEN -1 ELSE Here(b)

Life(p) ==
  INSTANCE BombLife WITH
    LIFE <- FUSE + BLAST + 2, Cells <- Cells, Nowhere <- -1,
    mine <- turn = p,
    owner <- Here(players[p]),
    life <- Left(bomb_list[0]),
    cell <- Where(bomb_list[0])

\* The planter's bomb explodes and comes back after as many of its turns as the timers
\* say, where it was planted, whatever the planter asks for meanwhile, and although the
\* others' turns go through the same pointer and the planter may be dead.
BombKeepsTime ==
  /\ \A p \in Actors : Life(p)!Init
  /\ [][ \A p \in Actors : [Life(p)!Next]_(Life(p)!vars) ]_vars

(* A statement of the protocol's documentation *)

\* protocol_server_messages.h: a tile holds "5 + i if PLAYER with player.id == i".
TileNamesId ==
  \A c \in Cells, i \in Players : grid[c] = PlayerTile(i) => players[i].id = i
=============================================================================
