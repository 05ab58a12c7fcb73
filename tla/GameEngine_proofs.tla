------------------------- MODULE GameEngine_proofs -------------------------
(***************************************************************************)
(* What GameEngine keeps true for every board, number of players and pair  *)
(* of timers.                                                              *)
(*                                                                         *)
(* An update of a player is a chain of stages, Moved, Placed and Ticked,   *)
(* from one [player, grid, bomb] to the next.  Each invariant has a lemma  *)
(* per stage; the chain and the two actions follow from them.              *)
(***************************************************************************)
EXTENDS GameEngine, TLAPS

StageType == [player : PlayerType, grid : [Cells -> Tiles], bomb : BombType]

-----------------------------------------------------------------------------
(* Type correctness *)

\* What update_game paints is a tile.
LEMMA PaintIsTile ==
  /\ {FREE, WALL, BOMB_TILE, FIRE} \subseteq Tiles
  /\ \A i \in Players : PlayerTile(i) \in Tiles
  BY PlayersAssumption DEF FREE, WALL, BOMB_TILE, FIRE, PlayerTile, Players, Tiles

\* A step or a death leaves a player on the board and a board of tiles.
LEMMA MovedType ==
  ASSUME TypeOK, NEW i \in Players, NEW ahead \in Tiles
  PROVE  Moved(i, ahead) \in StageType
<1> DEFINE p == players[i]
<1>1. p \in PlayerType /\ p.id \in 0 .. 3 /\ bomb_list[p.id] \in BombType
  BY DEF TypeOK, PlayerType
<1>2. Vacated(p) \in [Cells -> Tiles]
  BY PaintIsTile DEF TypeOK, Vacated
<1>3. PlayerTile(i) \in Tiles
  BY PaintIsTile
<1>4. CASE CanStep(p)
  <2>1. [p EXCEPT !.pos_x = p.next_x, !.pos_y = p.next_y] \in PlayerType
    BY <1>1, <1>4 DEF PlayerType, CanStep, InBoard
  <2>2. [Vacated(p) EXCEPT ![Ahead(p)] = PlayerTile(i)] \in [Cells -> Tiles]
    BY <1>2, <1>3
  <2> QED BY <1>1, <1>4, <2>1, <2>2 DEF Moved, StageType
<1>5. CASE ~CanStep(p) /\ ahead = FIRE
  <2>1. [p EXCEPT !.state = "DEAD"] \in PlayerType
    BY <1>1 DEF PlayerType
  <2> QED BY <1>1, <1>2, <1>5, <2>1 DEF Moved, StageType
<1>6. CASE ~CanStep(p) /\ ahead # FIRE
  <2>1. [p EXCEPT !.next_x = p.pos_x, !.next_y = p.pos_y] \in PlayerType
    <3>1. p \in PlayerType /\ p.pos_x \in Int /\ p.pos_y \in Int
      BY <1>1, BoardAssumption DEF PlayerType
    <3> HIDE DEF p
    <3> QED BY <3>1 DEF PlayerType
  <2> QED BY <1>1, <1>6, <2>1 DEF Moved, StageType, TypeOK
<1> QED BY <1>4, <1>5, <1>6

\* Planting leaves the bomb where its player stands.
LEMMA PlacedType ==
  ASSUME NEW w \in StageType
  PROVE  Placed(w) \in StageType
<1> DEFINE p == w.player
<1>1. p \in PlayerType /\ w.grid \in [Cells -> Tiles]
  BY DEF StageType
<1>2. [p EXCEPT !.is_placing_bomb = 0, !.has_bomb = 0] \in PlayerType
  BY <1>1 DEF PlayerType
<1>3. [w.grid EXCEPT ![Here(p)] = BOMB_TILE] \in [Cells -> Tiles]
  BY <1>1, PaintIsTile
<1>4. CreateBomb(p) \in BombType
  BY <1>1, TimersAssumption DEF CreateBomb, BombType, PlayerType
<1> QED BY <1>2, <1>3, <1>4 DEF Placed, StageType

LEMMA ActedType ==
  ASSUME TypeOK, NEW i \in Players, NEW ahead \in Tiles
  PROVE  Acted(i, ahead) \in StageType
<1>1. players[i] \in PlayerType /\ bomb_list[players[i].id] \in BombType
  BY DEF TypeOK, PlayerType
<1> QED BY <1>1, MovedType, PlacedType DEF Acted, StageType, TypeOK

\* The timer of a bomb that is out counts down within its type, or ends.
LEMMA UpdateBombType ==
  ASSUME NEW b \in BombType, b.state # "GONE"
  PROVE  /\ UpdateBomb(b).state = "REMOVE" \/ UpdateBomb(b) \in BombType
         /\ UpdateBomb(b).state # "GONE"
         /\ UpdateBomb(b).state \in {"BOMB", "EXPLOSION", "REMOVE"}
         /\ UpdateBomb(b).pos_x = b.pos_x /\ UpdateBomb(b).pos_y = b.pos_y
<1>1. b.time_remaining \in Nat
  BY DEF BombType
<1>2. CASE b.time_remaining > 0
  BY <1>1, <1>2 DEF UpdateBomb, BombType
<1>3. CASE b.time_remaining = 0 /\ b.state = "BOMB"
  <2>1. UpdateBomb(b) = [b EXCEPT !.state = "EXPLOSION", !.time_remaining = BLAST]
    BY <1>3 DEF UpdateBomb
  <2> QED BY <2>1, TimersAssumption DEF BombType
<1>4. CASE b.time_remaining = 0 /\ b.state # "BOMB"
  <2>1. UpdateBomb(b) = [b EXCEPT !.state = "REMOVE"]
    BY <1>4 DEF UpdateBomb
  <2> QED BY <2>1 DEF BombType
<1> QED BY <1>1, <1>2, <1>3, <1>4

LEMMA DrawnType ==
  ASSUME NEW g \in [Cells -> Tiles], NEW b,
         b.state \in {"BOMB", "EXPLOSION", "REMOVE"}
  PROVE  Drawn(g, b) \in [Cells -> Tiles]
<1>1. [g EXCEPT ![Here(b)] = BOMB_TILE] \in [Cells -> Tiles]
  BY PaintIsTile
<1>2. \A c : Lit(g, c) \in [Cells -> Tiles]
  BY PaintIsTile DEF Lit
<1>3. \A c : Cleared(g, c) \in [Cells -> Tiles]
  BY PaintIsTile DEF Cleared
<1> QED BY <1>1, <1>2, <1>3 DEF Drawn

LEMMA TickedType ==
  ASSUME NEW w \in StageType
  PROVE  Ticked(w) \in StageType
<1> DEFINE b == UpdateBomb(w.bomb)
<1>1. w.player \in PlayerType /\ w.grid \in [Cells -> Tiles] /\ w.bomb \in BombType
  BY DEF StageType
<1>2. CASE ~Out(w)
  BY <1>2 DEF Ticked
<1>3. CASE Out(w)
  <2>1. /\ b.state \in {"BOMB", "EXPLOSION", "REMOVE"}
        /\ b.state = "REMOVE" \/ b \in BombType
    BY <1>1, <1>3, UpdateBombType DEF Out
  <2>2. Drawn(w.grid, b) \in [Cells -> Tiles]
    BY <1>1, <2>1, DrawnType
  <2>3. NoBomb \in BombType
    BY BoardAssumption DEF NoBomb, BombType
  <2>4. [w.player EXCEPT !.has_bomb = IF b.state = "REMOVE" THEN 1 ELSE 0] \in PlayerType
    BY <1>1 DEF PlayerType
  <2> QED BY <1>3, <2>1, <2>2, <2>3, <2>4 DEF Ticked, StageType
<1> QED BY <1>2, <1>3

LEMMA HandledType ==
  ASSUME NEW p \in PlayerType, NEW action \in 0 .. 7
  PROVE  Handled(p, action) \in PlayerType
  BY DEF Handled, PlayerType

\* What TilesAhead offers is a tile.
LEMMA TilesAheadType ==
  ASSUME TypeOK, NEW p, NEW ahead \in TilesAhead(p)
  PROVE  ahead \in Tiles
  BY DEF TilesAhead, TypeOK

-----------------------------------------------------------------------------
(* The list of changes *)

\* A neighbouring cell costs what it costs, or nothing.
LEMMA BytesAtType ==
  ASSUME NEW g, NEW n, NEW tile, NEW bytes \in Nat
  PROVE  BytesAt(g, n, tile, bytes) \in 0 .. bytes
  BY DEF BytesAt

LEMMA DrawnBytesType ==
  ASSUME NEW g, NEW b, b.state \in {"BOMB", "EXPLOSION", "REMOVE"}
  PROVE  DrawnBytes(g, b) \in 0 .. 18
<1> DEFINE c == Here(b)
<1>1. /\ BytesAt(g, c + 1, FREE, 3) \in 0 .. 3 /\ BytesAt(g, c - 1, FREE, 3) \in 0 .. 3
      /\ BytesAt(g, c + BOARD_WIDTH, FREE, 4) \in 0 .. 4
      /\ BytesAt(g, c - BOARD_WIDTH, FREE, 5) \in 0 .. 5
  BY BytesAtType
<1>2. /\ BytesAt(g, c + 1, FIRE, 3) \in 0 .. 3 /\ BytesAt(g, c - 1, FIRE, 3) \in 0 .. 3
      /\ BytesAt(g, c + BOARD_WIDTH, FIRE, 3) \in 0 .. 3
      /\ BytesAt(g, c - BOARD_WIDTH, FIRE, 3) \in 0 .. 3
  BY BytesAtType
<1> QED BY <1>1, <1>2 DEF DrawnBytes

LEMMA WrittenType ==
  ASSUME TypeOK, NEW i \in Players, NEW ahead \in Tiles
  PROVE  Written(i, ahead) \in 0 .. 24
<1> DEFINE w == Acted(i, ahead)
<1>1. ActedBytes(i, ahead) \in 0 .. 6
  BY DEF ActedBytes
<1>2. w \in StageType
  BY ActedType
<1>3. Out(w) => DrawnBytes(w.grid, UpdateBomb(w.bomb)) \in 0 .. 18
  BY <1>2, UpdateBombType, DrawnBytesType DEF Out, StageType
<1> QED BY <1>1, <1>3 DEF Written

LEMMA CountedType ==
  ASSUME TypeOK, NEW i \in Players, turn = i, NEW ahead \in Tiles
  PROVE  Counted(i, Written(i, ahead)) \in 0 .. 24 * (IF i + 1 = PLAYER_COUNT THEN 0 ELSE i + 1)
<1>1. Written(i, ahead) \in 0 .. 24
  BY WrittenType
<1>2. i \in Nat /\ diff_count \in 0 .. 24 * i
  BY DEF TypeOK, Players
<1> QED BY <1>1, <1>2 DEF Counted

-----------------------------------------------------------------------------
(* Types, in every state *)

\* The state variables always have their types: neither a player nor a bomb
\* leaves the board, whatever actions the clients send.
THEOREM TypeCorrect == Spec => []TypeOK
<1>1. Init => TypeOK
  <2> SUFFICES ASSUME Init PROVE TypeOK
    OBVIOUS
  <2>1. grid \in [Cells -> Tiles]
    BY PaintIsTile DEF Init
  <2>2. \A i \in Players : SetupPlayer(i) \in PlayerType
    BY BoardAssumption DEF SetupPlayer, Spawn, PlayerType
  <2>3. bomb_list \in [0 .. 3 -> BombType]
    BY BoardAssumption DEF Init, NoBomb, BombType
  <2>4. turn \in Players
    BY PlayersAssumption DEF Init, Players
  <2>5. diff_count \in 0 .. 24 * turn
    BY DEF Init
  <2> QED BY <2>1, <2>2, <2>3, <2>4, <2>5 DEF Init, TypeOK
<1>2. TypeOK /\ [Next]_vars => TypeOK'
  <2> SUFFICES ASSUME TypeOK, [Next]_vars PROVE TypeOK'
    OBVIOUS
  <2>1. ASSUME NEW i \in Actors, NEW action \in 0 .. 7, HandleInput(i, action)
        PROVE  TypeOK'
    <3>1. i \in Players /\ players[i] \in PlayerType
      BY PlayersAssumption DEF TypeOK
    <3>2. players' \in [Players -> PlayerType]
      BY <2>1, <3>1, HandledType DEF HandleInput, TypeOK
    <3> QED BY <2>1, <3>2 DEF HandleInput, TypeOK
  <2>2. ASSUME NEW i \in Players, PlayerTurn(i) PROVE TypeOK'
    <3>1. PICK ahead \in TilesAhead(players[i]) :
            LET v == Ticked(Acted(i, ahead))
            IN /\ players'   = [players EXCEPT ![i] = v.player]
               /\ grid'      = v.grid
               /\ bomb_list' = [bomb_list EXCEPT ![players[i].id] = v.bomb]
               /\ diff_count' = Counted(i, Written(i, ahead))
               /\ undefined' \in Damage(Acted(i, ahead))
      BY <2>2 DEF PlayerTurn
    <3>2. Acted(i, ahead) \in StageType
      BY <3>1, TilesAheadType, ActedType
    <3>3. Ticked(Acted(i, ahead)) \in StageType
      BY <3>2, TickedType
    <3>4. players' \in [Players -> PlayerType] /\ grid' \in [Cells -> Tiles]
      BY <3>1, <3>3 DEF StageType, TypeOK
    <3>5. bomb_list' \in [0 .. 3 -> BombType]
      BY <3>1, <3>3 DEF StageType, TypeOK
    <3>6. turn' \in Players
      BY <2>2, PlayersAssumption DEF PlayerTurn, Players
    <3>7. undefined' \in BOOLEAN
      <4> DEFINE w == Acted(i, ahead)
      <4>1. w.player.has_bomb = 0 \/ w.player.has_bomb = 1
        BY <3>2 DEF StageType, PlayerType
      <4> HIDE DEF w
      <4>2. Damage(w) \subseteq BOOLEAN
        BY <4>1 DEF Damage
      <4> QED BY <3>1, <4>2 DEF w
    <3>8. diff_count' \in 0 .. 24 * turn'
      BY <2>2, <3>1, TilesAheadType, CountedType DEF PlayerTurn
    <3> QED BY <3>4, <3>5, <3>6, <3>7, <3>8 DEF TypeOK
  <2>3. CASE UNCHANGED vars
    BY <2>3 DEF vars, TypeOK
  <2> QED BY <2>1, <2>2, <2>3 DEF Next
<1> QED BY <1>1, <1>2, PTL DEF Spec

\* No update writes past the end of its list of changes (DiffFits), whatever the board
\* and the timers, for any array of more than 24 bytes per player.
THEOREM DiffAlwaysFits == Spec => []DiffFits
<1>1. TypeOK => DiffFits
  <2> SUFFICES ASSUME TypeOK, NEW ahead \in TilesAhead(players[turn])
               PROVE  diff_count + Written(turn, ahead) < DIFF_SIZE
    BY DEF DiffFits
  <2>1. turn \in Players /\ Written(turn, ahead) \in 0 .. 24
    BY TilesAheadType, WrittenType DEF TypeOK
  <2>2. turn \in Nat /\ turn + 1 <= PLAYER_COUNT /\ PLAYER_COUNT \in Nat
    BY <2>1, PlayersAssumption DEF Players
  <2>3. diff_count \in 0 .. 24 * turn
    BY DEF TypeOK
  <2> QED BY <2>1, <2>2, <2>3, DiffAssumption
<1> QED BY <1>1, TypeCorrect, PTL

-----------------------------------------------------------------------------
(* The dead *)

\* A dead player stays where and as it is, but for its bomb coming back.
THEOREM DeadRest == Spec => DeadDoNotAct
<1> DEFINE Rest ==
      \A i \in Players : players[i].state = "DEAD" =>
        /\ players'[i].state = "DEAD"
        /\ Here(players[i])' = Here(players[i])
        /\ players'[i].has_bomb >= players[i].has_bomb
<1>1. TypeOK /\ [Next]_vars => Rest
  <2> SUFFICES ASSUME TypeOK, [Next]_vars,
                      NEW j \in Players, players[j].state = "DEAD"
               PROVE  /\ players'[j].state = "DEAD"
                      /\ Here(players'[j]) = Here(players[j])
                      /\ players'[j].has_bomb >= players[j].has_bomb
    BY DEF Here
  <2>0. players[j] \in PlayerType /\ players[j].has_bomb \in {0, 1}
    BY DEF TypeOK, PlayerType
  <2>1. ASSUME NEW i \in Actors, NEW action \in 0 .. 7, HandleInput(i, action)
        PROVE  /\ players'[j].state = "DEAD"
               /\ Here(players'[j]) = Here(players[j])
               /\ players'[j].has_bomb >= players[j].has_bomb
    <3>1. CASE i # j
      BY <2>0, <2>1, <3>1 DEF HandleInput, TypeOK
    <3>2. CASE i = j
      <4>1. players'[j] = Handled(players[j], action)
        BY <2>1, <3>2 DEF HandleInput, TypeOK
      <4> QED BY <2>0, <4>1 DEF Handled, Here, PlayerType
    <3> QED BY <3>1, <3>2
  <2>2. ASSUME NEW i \in Players, PlayerTurn(i)
        PROVE  /\ players'[j].state = "DEAD"
               /\ Here(players'[j]) = Here(players[j])
               /\ players'[j].has_bomb >= players[j].has_bomb
    <3>1. PICK ahead \in TilesAhead(players[i]) :
            players' = [players EXCEPT ![i] = Ticked(Acted(i, ahead)).player]
      BY <2>2 DEF PlayerTurn
    <3>2. CASE i # j
      BY <2>0, <3>1, <3>2 DEF TypeOK
    <3>3. CASE i = j
      <4>1. players'[j] = Ticked(Acted(j, ahead)).player
        BY <3>1, <3>3 DEF TypeOK
      <4>2. Acted(j, ahead).player = players[j]
        BY DEF Acted
      <4>3. players'[j] = players[j] \/
            \E n \in {0, 1} : /\ players[j].has_bomb = 0
                             /\ players'[j] = [players[j] EXCEPT !.has_bomb = n]
        BY <4>1, <4>2 DEF Ticked, Out
      <4> QED BY <2>0, <4>3 DEF Here, PlayerType
    <3> QED BY <3>2, <3>3
  <2>3. CASE UNCHANGED vars
    BY <2>0, <2>3 DEF vars
  <2> QED BY <2>1, <2>2, <2>3 DEF Next
<1>2. TypeOK /\ [Next]_vars => [Rest]_vars
  BY <1>1
<1> QED BY <1>2, TypeCorrect, PTL DEF Spec, DeadDoNotAct

-----------------------------------------------------------------------------
(* No copies of players *)

\* A stage of player i's update draws no other player's tile, and i's only under i.
Ghostless(i, w) ==
  \A c \in Cells :
    /\ \A j \in Players \ {i} : w.grid[c] = PlayerTile(j) => grid[c] = PlayerTile(j)
    /\ w.grid[c] = PlayerTile(i) => w.player.state = "ALIVE" /\ c = Here(w.player)

\* No player's tile is one of those that stand for something else.
LEMMA TilesDiffer ==
  /\ \A i \in Players : /\ PlayerTile(i) # FREE /\ PlayerTile(i) # WALL
                       /\ PlayerTile(i) # BOMB_TILE /\ PlayerTile(i) # FIRE
  /\ \A i, j \in Players : PlayerTile(i) = PlayerTile(j) => i = j
  BY PlayersAssumption DEF Players, PlayerTile, FREE, WALL, BOMB_TILE, FIRE

LEMMA MovedGhostless ==
  ASSUME TypeOK, NoGhosts, NEW i \in Players, players[i].state # "DEAD", NEW ahead
  PROVE  Ghostless(i, Moved(i, ahead))
<1> DEFINE p == players[i]
<1>0. p \in PlayerType /\ p.state = "ALIVE" /\ grid \in [Cells -> Tiles]
  BY DEF TypeOK, PlayerType
<1>1. \A c \in Cells : Vacated(p)[c] = IF c = Here(p) THEN FREE ELSE grid[c]
  BY <1>0 DEF Vacated
<1>2. \A c \in Cells : grid[c] = PlayerTile(i) => c = Here(p)
  BY DEF NoGhosts
<1>3. \A c \in Cells, j \in Players :
        Vacated(p)[c] = PlayerTile(j) => grid[c] = PlayerTile(j) /\ j # i
  BY <1>1, <1>2, TilesDiffer
<1>4. CASE CanStep(p)
  <2> DEFINE g == [Vacated(p) EXCEPT ![Ahead(p)] = PlayerTile(i)]
             q == [p EXCEPT !.pos_x = p.next_x, !.pos_y = p.next_y]
  <2>1. Moved(i, ahead).grid = g /\ Moved(i, ahead).player = q
    BY <1>4 DEF Moved
  <2>2. q.state = "ALIVE" /\ Here(q) = Ahead(p)
    BY <1>0 DEF Here, Ahead, PlayerType
  <2>3. \A c \in Cells : g[c] = IF c = Ahead(p) THEN PlayerTile(i) ELSE Vacated(p)[c]
    BY <1>0 DEF Vacated
  <2> QED BY <1>3, <2>1, <2>2, <2>3, TilesDiffer DEF Ghostless
<1>5. CASE ~CanStep(p) /\ ahead = FIRE
  <2>1. Moved(i, ahead).grid = Vacated(p)
    BY <1>5 DEF Moved
  <2> QED BY <1>3, <2>1 DEF Ghostless
<1>6. CASE ~CanStep(p) /\ ahead # FIRE
  <2> DEFINE q == [p EXCEPT !.next_x = p.pos_x, !.next_y = p.pos_y]
  <2>1. Moved(i, ahead).grid = grid /\ Moved(i, ahead).player = q
    BY <1>6 DEF Moved
  <2>2. q.state = "ALIVE" /\ Here(q) = Here(p)
    BY <1>0 DEF Here, PlayerType
  <2> QED BY <1>2, <2>1, <2>2 DEF Ghostless
<1> QED BY <1>4, <1>5, <1>6

LEMMA PlacedGhostless ==
  ASSUME NEW i \in Players, NEW w \in StageType, Ghostless(i, w)
  PROVE  Ghostless(i, Placed(w))
<1>1. CASE w.player.is_placing_bomb = 0
  BY <1>1 DEF Placed
<1>2. CASE w.player.is_placing_bomb # 0
  <2> DEFINE q == [w.player EXCEPT !.is_placing_bomb = 0, !.has_bomb = 0]
             g == [w.grid EXCEPT ![Here(w.player)] = BOMB_TILE]
  <2>1. Placed(w).player = q /\ Placed(w).grid = g
    BY <1>2 DEF Placed
  <2>2. q.state = w.player.state /\ Here(q) = Here(w.player)
    BY DEF StageType, PlayerType, Here
  <2>3. \A c \in Cells : g[c] = w.grid[c] \/ g[c] = BOMB_TILE
    BY DEF StageType
  <2> QED BY <2>1, <2>2, <2>3, TilesDiffer DEF Ghostless
<1> QED BY <1>1, <1>2

\* Drawing a bomb paints no player.
LEMMA DrawnPaint ==
  ASSUME NEW g \in [Cells -> Tiles], NEW b,
         b.state \in {"BOMB", "EXPLOSION", "REMOVE"}, NEW c \in Cells
  PROVE  Drawn(g, b)[c] \in {g[c], FREE, BOMB_TILE, FIRE}
<1>1. CASE b.state = "BOMB"
  BY <1>1 DEF Drawn
<1>2. CASE b.state = "EXPLOSION"
  BY <1>2 DEF Drawn, Lit
<1>3. CASE b.state = "REMOVE"
  BY <1>3 DEF Drawn, Cleared
<1> QED BY <1>1, <1>2, <1>3

LEMMA TickedGhostless ==
  ASSUME NEW i \in Players, NEW w \in StageType, Ghostless(i, w)
  PROVE  Ghostless(i, Ticked(w))
<1>1. CASE ~Out(w)
  BY <1>1 DEF Ticked
<1>2. CASE Out(w)
  <2> DEFINE b == UpdateBomb(w.bomb)
             q == [w.player EXCEPT !.has_bomb = IF b.state = "REMOVE" THEN 1 ELSE 0]
  <2>1. Ticked(w).player = q /\ Ticked(w).grid = Drawn(w.grid, b)
    BY <1>2 DEF Ticked
  <2>2. q.state = w.player.state /\ Here(q) = Here(w.player)
    BY DEF StageType, PlayerType, Here
  <2>3. b.state \in {"BOMB", "EXPLOSION", "REMOVE"}
    BY <1>2, UpdateBombType DEF Out, StageType
  <2> HIDE DEF b
  <2>4. \A c \in Cells : Drawn(w.grid, b)[c] \in {w.grid[c], FREE, BOMB_TILE, FIRE}
    BY <2>3, DrawnPaint DEF StageType
  <2> QED BY <2>1, <2>2, <2>4, TilesDiffer DEF Ghostless
<1> QED BY <1>1, <1>2

LEMMA ActedGhostless ==
  ASSUME TypeOK, NoGhosts, NEW i \in Players, NEW ahead \in Tiles
  PROVE  Ghostless(i, Acted(i, ahead))
<1>1. CASE players[i].state = "DEAD"
  BY <1>1 DEF Acted, Ghostless, NoGhosts
<1>2. CASE players[i].state # "DEAD"
  BY <1>2, MovedType, MovedGhostless, PlacedGhostless DEF Acted
<1> QED BY <1>1, <1>2

\* The board never shows a player where it is not, nor a dead one.
THEOREM NeverGhosts == Spec => []NoGhosts
<1>1. Init => NoGhosts
  <2> SUFFICES ASSUME Init, NEW c \in Cells, NEW i \in Players
               PROVE  grid[c] # PlayerTile(i)
    BY DEF NoGhosts
  <2>1. grid[c] \in {FREE, WALL}
    BY DEF Init
  <2> QED BY <2>1, TilesDiffer
<1>2. TypeOK /\ NoGhosts /\ [Next]_vars => NoGhosts'
  <2> SUFFICES ASSUME TypeOK, NoGhosts, [Next]_vars PROVE NoGhosts'
    OBVIOUS
  <2>1. ASSUME NEW i \in Actors, NEW action \in 0 .. 7, HandleInput(i, action)
        PROVE  NoGhosts'
    <3>1. \A j \in Players : /\ players'[j].state = players[j].state
                            /\ Here(players'[j]) = Here(players[j])
      <4>1. i \in Players /\ players[i] \in PlayerType
        BY PlayersAssumption DEF TypeOK
      <4>2. /\ Handled(players[i], action).state = players[i].state
            /\ Here(Handled(players[i], action)) = Here(players[i])
        BY <4>1 DEF Handled, Here, PlayerType
      <4> QED BY <2>1, <4>1, <4>2 DEF HandleInput, TypeOK
    <3>2. grid' = grid
      BY <2>1 DEF HandleInput
    <3> QED BY <3>1, <3>2 DEF NoGhosts, Here
  <2>2. ASSUME NEW i \in Players, PlayerTurn(i) PROVE NoGhosts'
    <3>1. PICK ahead \in TilesAhead(players[i]) :
            /\ players' = [players EXCEPT ![i] = Ticked(Acted(i, ahead)).player]
            /\ grid'    = Ticked(Acted(i, ahead)).grid
      BY <2>2 DEF PlayerTurn
    <3> DEFINE v == Ticked(Acted(i, ahead))
    <3>2. Ghostless(i, v)
      BY <3>1, TilesAheadType, ActedType, ActedGhostless, TickedGhostless
    <3>3. players'[i] = v.player /\ \A j \in Players \ {i} : players'[j] = players[j]
      BY <3>1 DEF TypeOK
    <3>4. ASSUME NEW c \in Cells, NEW j \in Players, grid'[c] = PlayerTile(j)
          PROVE  players'[j].state = "ALIVE" /\ c = Here(players'[j])
      <4> HIDE DEF v
      <4>1. CASE j = i
        BY <3>1, <3>2, <3>3, <3>4, <4>1 DEF Ghostless, v
      <4>2. CASE j # i
        BY <3>1, <3>2, <3>3, <3>4, <4>2 DEF Ghostless, NoGhosts, v
      <4> QED BY <4>1, <4>2
    <3> QED BY <3>4 DEF NoGhosts, Here
  <2>3. CASE UNCHANGED vars
    BY <2>3 DEF vars, NoGhosts, Here
  <2> QED BY <2>1, <2>2, <2>3 DEF Next
<1> QED BY <1>1, <1>2, TypeCorrect, PTL DEF Spec

-----------------------------------------------------------------------------
(* Walls *)

\* WallsStand alone is not inductive: update_game paints the cell of a player and
\* the cell of a bomb without asking what they hold.  No player and no bomb that
\* is out is inside a wall.
NobodyInWalls ==
  /\ \A i \in Players : Here(players[i]) \notin Walls
  /\ \A k \in 0 .. 3 : bomb_list[k].state # "GONE" => Here(bomb_list[k]) \notin Walls

WallsInv == TypeOK /\ WallsStand /\ NobodyInWalls

\* Two coordinates within the width name the same cell only on the same row.
LEMMA RowsApart ==
  ASSUME NEW x \in 0 .. BOARD_WIDTH - 1, NEW u \in 0 .. BOARD_WIDTH - 1,
         NEW y \in Int, NEW v \in Int, Cell(x, y) = Cell(u, v)
  PROVE  y = v
<1> DEFINE W == BOARD_WIDTH
<1>1. W \in Int /\ W > 0 /\ y * W - v * W = u - x
  BY BoardAssumption DEF Cell
<1>2. u - x < W /\ u - x > 0 - W
  BY <1>1
<1> HIDE DEF W
<1>3. (y - v) * W = y * W - v * W
  BY <1>1
<1>4. ASSUME y - v >= 1 PROVE FALSE
  <2>1. (y - v) * W >= W
    BY <1>1, <1>4
  <2> QED BY <1>1, <1>2, <1>3, <2>1
<1>5. ASSUME v - y >= 1 PROVE FALSE
  <2>1. (v - y) * W >= W
    BY <1>1, <1>5
  <2>2. (y - v) * W = 0 - (v - y) * W
    BY <1>1
  <2> QED BY <1>1, <1>2, <1>3, <2>1, <2>2
<1> QED BY <1>4, <1>5

\* The corners where players start are on the first and last rows, which have
\* no wall.
LEMMA SpawnOutsideWalls ==
  ASSUME NEW i \in Players
  PROVE  Here(SetupPlayer(i)) \notin Walls
<1>1. /\ Spawn(i).x \in 0 .. BOARD_WIDTH - 1
      /\ Spawn(i).y \in {0, BOARD_HEIGHT - 1}
      /\ Here(SetupPlayer(i)) = Cell(Spawn(i).x, Spawn(i).y)
  BY BoardAssumption DEF Spawn, SetupPlayer, Here
<1>2. ASSUME NEW x \in 0 .. BOARD_WIDTH - 1, NEW y \in 1 .. BOARD_HEIGHT - 2,
             Cell(Spawn(i).x, Spawn(i).y) = Cell(x, y)
      PROVE  FALSE
  <2>1. Spawn(i).y \in Int /\ y \in Int
    BY <1>1, BoardAssumption
  <2>2. Spawn(i).y = y
    BY <1>1, <1>2, <2>1, RowsApart
  <2> QED BY <1>1, <2>2, BoardAssumption
<1> QED BY <1>1, <1>2 DEF Walls

\* After a stage: the walls stand, its player and its bomb are outside them.
Sound(w) ==
  /\ \A c \in Cells : w.grid[c] = WALL <=> c \in Walls
  /\ Here(w.player) \notin Walls
  /\ w.bomb.state # "GONE" => Here(w.bomb) \notin Walls

LEMMA MovedSound ==
  ASSUME WallsInv, NEW i \in Players, NEW ahead
  PROVE  Sound(Moved(i, ahead))
<1> DEFINE p == players[i]
           b == bomb_list[p.id]
<1>0. /\ p \in PlayerType /\ grid \in [Cells -> Tiles]
      /\ Here(p) \notin Walls
      /\ b.state # "GONE" => Here(b) \notin Walls
      /\ \A c \in Cells : grid[c] = WALL <=> c \in Walls
  BY DEF WallsInv, TypeOK, WallsStand, NobodyInWalls, PlayerType
<1>1. FREE # WALL /\ PlayerTile(i) # WALL
  BY TilesDiffer DEF FREE, WALL
<1>2. \A c \in Cells : Vacated(p)[c] = IF c = Here(p) THEN FREE ELSE grid[c]
  BY <1>0 DEF Vacated
<1>3. \A c \in Cells : Vacated(p)[c] = WALL <=> c \in Walls
  BY <1>0, <1>1, <1>2
<1>4. CASE CanStep(p)
  <2> DEFINE g == [Vacated(p) EXCEPT ![Ahead(p)] = PlayerTile(i)]
             q == [p EXCEPT !.pos_x = p.next_x, !.pos_y = p.next_y]
  <2>1. /\ Moved(i, ahead).grid = g /\ Moved(i, ahead).player = q
        /\ Moved(i, ahead).bomb = b
    BY <1>4 DEF Moved
  <2>2. Ahead(p) \notin Walls
    BY <1>0, <1>1, <1>4 DEF CanStep, Walls
  <2>3. Here(q) = Ahead(p)
    BY <1>0 DEF Here, Ahead, PlayerType
  <2>4. \A c \in Cells : g[c] = IF c = Ahead(p) THEN PlayerTile(i) ELSE Vacated(p)[c]
    BY <1>0 DEF Vacated
  <2> HIDE DEF g, q
  <2> QED BY <1>0, <1>1, <1>3, <2>1, <2>2, <2>3, <2>4 DEF Sound
<1>5. CASE ~CanStep(p) /\ ahead = FIRE
  <2> DEFINE q == [p EXCEPT !.state = "DEAD"]
  <2>1. /\ Moved(i, ahead).grid = Vacated(p) /\ Moved(i, ahead).player = q
        /\ Moved(i, ahead).bomb = b
    BY <1>5 DEF Moved
  <2>2. Here(q) = Here(p)
    BY <1>0 DEF Here, PlayerType
  <2> HIDE DEF q
  <2> QED BY <1>0, <1>3, <2>1, <2>2 DEF Sound
<1>6. CASE ~CanStep(p) /\ ahead # FIRE
  <2> DEFINE q == [p EXCEPT !.next_x = p.pos_x, !.next_y = p.pos_y]
  <2>1. /\ Moved(i, ahead).grid = grid /\ Moved(i, ahead).player = q
        /\ Moved(i, ahead).bomb = b
    BY <1>6 DEF Moved
  <2>2. Here(q) = Here(p)
    BY <1>0 DEF Here, PlayerType
  <2> HIDE DEF q
  <2> QED BY <1>0, <2>1, <2>2 DEF Sound
<1> QED BY <1>4, <1>5, <1>6

LEMMA PlacedSound ==
  ASSUME NEW w \in StageType, Sound(w)
  PROVE  Sound(Placed(w))
<1>1. CASE w.player.is_placing_bomb = 0
  BY <1>1 DEF Placed
<1>2. CASE w.player.is_placing_bomb # 0
  <2> DEFINE q == [w.player EXCEPT !.is_placing_bomb = 0, !.has_bomb = 0]
             g == [w.grid EXCEPT ![Here(w.player)] = BOMB_TILE]
             b == CreateBomb(w.player)
  <2>1. Placed(w).player = q /\ Placed(w).grid = g /\ Placed(w).bomb = b
    BY <1>2 DEF Placed
  <2>2. Here(q) = Here(w.player) /\ Here(b) = Here(w.player)
    BY DEF StageType, PlayerType, Here, CreateBomb
  <2>3. \A c \in Cells : g[c] = IF c = Here(w.player) THEN BOMB_TILE ELSE w.grid[c]
    BY DEF StageType
  <2>4. BOMB_TILE # WALL
    BY DEF BOMB_TILE, WALL
  <2> HIDE DEF q, g, b
  <2> QED BY <2>1, <2>2, <2>3, <2>4 DEF Sound
<1> QED BY <1>1, <1>2

\* Fire and its removal change free cells, burning cells and the bomb's own.
LEMMA DrawnSound ==
  ASSUME NEW g \in [Cells -> Tiles], NEW b,
         b.state \in {"BOMB", "EXPLOSION", "REMOVE"}, Here(b) \notin Walls,
         \A c \in Cells : g[c] = WALL <=> c \in Walls
  PROVE  \A c \in Cells : Drawn(g, b)[c] = WALL <=> c \in Walls
<1>1. FREE # WALL /\ BOMB_TILE # WALL /\ FIRE # WALL
  BY DEF FREE, WALL, BOMB_TILE, FIRE
<1>2. CASE b.state = "BOMB"
  BY <1>1, <1>2 DEF Drawn
<1>3. CASE b.state = "EXPLOSION"
  <2>1. Drawn(g, b) = Lit(g, Here(b))
    BY <1>3 DEF Drawn
  <2> QED BY <1>1, <2>1 DEF Lit
<1>4. CASE b.state = "REMOVE"
  <2>1. Drawn(g, b) = Cleared(g, Here(b))
    BY <1>4 DEF Drawn
  <2> QED BY <1>1, <2>1 DEF Cleared
<1> QED BY <1>2, <1>3, <1>4

LEMMA TickedSound ==
  ASSUME NEW w \in StageType, Sound(w)
  PROVE  Sound(Ticked(w))
<1>1. CASE ~Out(w)
  BY <1>1 DEF Ticked
<1>2. CASE Out(w)
  <2> DEFINE b == UpdateBomb(w.bomb)
             q == [w.player EXCEPT !.has_bomb = IF b.state = "REMOVE" THEN 1 ELSE 0]
  <2>1. /\ Ticked(w).player = q /\ Ticked(w).grid = Drawn(w.grid, b)
        /\ Ticked(w).bomb = IF b.state = "REMOVE" THEN NoBomb ELSE b
    BY <1>2 DEF Ticked
  <2>2. Here(q) = Here(w.player)
    BY DEF StageType, PlayerType, Here
  <2>3. b.state \in {"BOMB", "EXPLOSION", "REMOVE"} /\ Here(b) = Here(w.bomb)
    BY <1>2, UpdateBombType DEF Out, StageType, Here
  <2> HIDE DEF b, q
  <2>4. Here(b) \notin Walls
    BY <1>2, <2>3 DEF Sound, Out
  <2>5. \A c \in Cells : Drawn(w.grid, b)[c] = WALL <=> c \in Walls
    BY <2>3, <2>4, DrawnSound DEF StageType, Sound
  <2>6. NoBomb.state = "GONE"
    BY DEF NoBomb
  <2> QED BY <2>1, <2>2, <2>4, <2>5, <2>6 DEF Sound
<1> QED BY <1>1, <1>2

LEMMA ActedSound ==
  ASSUME WallsInv, NEW i \in Players, NEW ahead \in Tiles
  PROVE  Sound(Acted(i, ahead))
<1>1. CASE players[i].state = "DEAD"
  <2>1. players[i].id \in 0 .. 3
    BY DEF WallsInv, TypeOK, PlayerType
  <2> QED BY <1>1, <2>1 DEF Acted, Sound, WallsInv, WallsStand, NobodyInWalls
<1>2. CASE players[i].state # "DEAD"
  BY <1>2, MovedType, MovedSound, PlacedSound DEF Acted, WallsInv
<1> QED BY <1>1, <1>2

\* The walls are where setup_game put them, for ever.
THEOREM WallsStandForever == Spec => []WallsStand
<1>1. Init => WallsStand /\ NobodyInWalls
  <2> SUFFICES ASSUME Init PROVE WallsStand /\ NobodyInWalls
    OBVIOUS
  <2>1. WallsStand
    BY DEF Init, WallsStand, FREE, WALL
  <2>2. NobodyInWalls
    BY SpawnOutsideWalls DEF Init, NobodyInWalls, NoBomb
  <2> QED BY <2>1, <2>2
<1>2. TypeOK /\ WallsStand /\ NobodyInWalls /\ [Next]_vars
        => WallsStand' /\ NobodyInWalls'
  <2> SUFFICES ASSUME TypeOK, WallsStand, NobodyInWalls, [Next]_vars
               PROVE  WallsStand' /\ NobodyInWalls'
    OBVIOUS
  <2>1. ASSUME NEW i \in Actors, NEW action \in 0 .. 7, HandleInput(i, action)
        PROVE  WallsStand' /\ NobodyInWalls'
    <3>1. i \in Players /\ players[i] \in PlayerType
      BY PlayersAssumption DEF TypeOK
    <3>2. Here(Handled(players[i], action)) = Here(players[i])
      BY <3>1 DEF Handled, Here, PlayerType
    <3>3. \A j \in Players : Here(players'[j]) = Here(players[j])
      BY <2>1, <3>1, <3>2 DEF HandleInput, TypeOK
    <3> QED BY <2>1, <3>3 DEF HandleInput, WallsStand, NobodyInWalls, Here
  <2>2. ASSUME NEW i \in Players, PlayerTurn(i) PROVE WallsStand' /\ NobodyInWalls'
    <3>1. PICK ahead \in TilesAhead(players[i]) :
            LET v == Ticked(Acted(i, ahead))
            IN /\ players'   = [players EXCEPT ![i] = v.player]
               /\ grid'      = v.grid
               /\ bomb_list' = [bomb_list EXCEPT ![players[i].id] = v.bomb]
      BY <2>2 DEF PlayerTurn
    <3> DEFINE v == Ticked(Acted(i, ahead))
    <3>2. Sound(v)
      BY <3>1, TilesAheadType, ActedType, ActedSound, TickedSound DEF WallsInv
    <3>3. /\ \A j \in Players : players'[j] = IF j = i THEN v.player ELSE players[j]
          /\ \A k \in 0 .. 3 :
               bomb_list'[k] = IF k = players[i].id THEN v.bomb ELSE bomb_list[k]
      BY <3>1 DEF TypeOK
    <3>4. grid' = v.grid
      BY <3>1
    <3> HIDE DEF v
    <3>5. WallsStand'
      BY <3>2, <3>4 DEF Sound, WallsStand
    <3>6. \A j \in Players : Here(players'[j]) \notin Walls
      BY <3>2, <3>3 DEF Sound, NobodyInWalls
    <3>7. \A k \in 0 .. 3 : bomb_list'[k].state # "GONE" => Here(bomb_list'[k]) \notin Walls
      BY <3>2, <3>3 DEF Sound, NobodyInWalls
    <3> QED BY <3>5, <3>6, <3>7 DEF NobodyInWalls, Here
  <2>3. CASE UNCHANGED vars
    BY <2>3 DEF vars, WallsStand, NobodyInWalls, Here
  <2> QED BY <2>1, <2>2, <2>3 DEF Next
<1> QED BY <1>1, <1>2, TypeCorrect, PTL DEF Spec

-----------------------------------------------------------------------------
(* Bombs, while one player plants *)

\* Nobody but a has asked for a bomb since the last update.
OnlyPlanter(a) == \A i \in Players \ {a} : players[i].is_placing_bomb = 0

\* All players have id 0, hence the same bomb pointer: BombOutIsLive needs that
\* those who do not plant never have their bomb out, and that the one who does asks
\* for no second bomb.
PlanterInv(a) ==
  /\ \A i \in Players : players[i].id = 0
  /\ \A i \in Players \ {a} : players[i].has_bomb = 1
  /\ players[a].is_placing_bomb # 0 => players[a].has_bomb = 1
  /\ players[a].has_bomb = 0 <=> bomb_list[0].state # "GONE"

\* Before its bomb is updated, a player has kept it as it was or planted it.
LEMMA ActedBomb ==
  ASSUME TypeOK, NEW i \in Players, NEW ahead \in Tiles
  PROVE  LET w == Acted(i, ahead)
             p == players[i]
         IN /\ w.player.id = p.id
            /\ \/ /\ w.player.has_bomb = p.has_bomb
                  /\ w.player.is_placing_bomb = p.is_placing_bomb
                  /\ w.bomb = bomb_list[p.id]
               \/ /\ p.is_placing_bomb # 0 /\ w.player.is_placing_bomb = 0
                  /\ w.player.has_bomb = 0
                  /\ w.bomb.state = "BOMB"
                  /\ w.bomb = CreateBomb(w.player)
<1> DEFINE p == players[i]
           m == Moved(i, ahead)
<1>0. p \in PlayerType
  BY DEF TypeOK
<1>1. /\ m.player.id = p.id /\ m.player.has_bomb = p.has_bomb
      /\ m.player.is_placing_bomb = p.is_placing_bomb
      /\ m.bomb = bomb_list[p.id]
  BY <1>0 DEF Moved, PlayerType
<1>2. m \in StageType
  BY MovedType
<1> HIDE DEF m
<1>3. CASE p.state = "DEAD"
  BY <1>3 DEF Acted
<1>4. CASE p.state # "DEAD" /\ p.is_placing_bomb = 0
  BY <1>1, <1>4 DEF Acted, Placed, m
<1>5. CASE p.state # "DEAD" /\ p.is_placing_bomb # 0
  <2>1. Acted(i, ahead) = Placed(m)
    BY <1>5 DEF Acted, m
  <2>2. /\ Placed(m).player = [m.player EXCEPT !.is_placing_bomb = 0, !.has_bomb = 0]
        /\ Placed(m).bomb = CreateBomb(m.player)
    BY <1>1, <1>5 DEF Placed
  <2>3. m.player \in PlayerType
    BY <1>2 DEF StageType
  <2> QED BY <1>1, <1>5, <2>1, <2>2, <2>3 DEF CreateBomb, PlayerType
<1> QED BY <1>3, <1>4, <1>5

\* What is left of a bomb that is out after its update, and who has it.
LEMMA TickedBomb ==
  ASSUME NEW w \in StageType
  PROVE  LET v == Ticked(w)
         IN /\ v.player.id = w.player.id
            /\ v.player.is_placing_bomb = w.player.is_placing_bomb
            /\ Here(v.player) = Here(w.player)
            /\ ~Out(w) => v.player.has_bomb = w.player.has_bomb /\ v.bomb = w.bomb
            /\ Out(w)  => (v.player.has_bomb = 0 <=> v.bomb.state # "GONE")
<1>1. CASE Out(w)
  <2> DEFINE b == UpdateBomb(w.bomb)
             v == Ticked(w)
  <2>1. b.state # "GONE"
    BY <1>1, UpdateBombType DEF Out, StageType
  <2>2. /\ v.player = [w.player EXCEPT !.has_bomb = IF b.state = "REMOVE" THEN 1 ELSE 0]
        /\ v.bomb = IF b.state = "REMOVE" THEN NoBomb ELSE b
    BY <1>1 DEF Ticked
  <2> HIDE DEF b, v
  <2>3. /\ v.player.id = w.player.id
        /\ v.player.is_placing_bomb = w.player.is_placing_bomb
        /\ Here(v.player) = Here(w.player)
        /\ v.player.has_bomb = IF b.state = "REMOVE" THEN 1 ELSE 0
    BY <2>2 DEF Here, StageType, PlayerType
  <2>4. v.player.has_bomb = 0 <=> v.bomb.state # "GONE"
    BY <2>1, <2>2, <2>3 DEF NoBomb
  <2> QED BY <1>1, <2>3, <2>4 DEF v
<1>2. CASE ~Out(w)
  BY <1>2 DEF Ticked
<1> QED BY <1>1, <1>2

LEMMA InitPlanter ==
  ASSUME NEW a \in Players
  PROVE  Init => PlanterInv(a)
  BY DEF Init, PlanterInv, SetupPlayer, NoBomb

LEMMA PlanterKept ==
  ASSUME NEW a \in Players, TypeOK, OnlyPlanter(a), PlanterInv(a), [Next]_vars
  PROVE  PlanterInv(a)'
<1>1. ASSUME NEW i \in Players, NEW action \in 0 .. 7, HandleInput(i, action)
      PROVE  PlanterInv(a)'
  <2> DEFINE p == Handled(players[i], action)
  <2>1. players[i] \in PlayerType
    BY DEF TypeOK
  <2>2. /\ p.id = players[i].id /\ p.has_bomb = players[i].has_bomb
        /\ p.is_placing_bomb # 0 =>
             players[i].is_placing_bomb # 0 \/ players[i].has_bomb = 1
    BY <2>1 DEF Handled, PlayerType
  <2>3. /\ players'[i] = p /\ \A j \in Players \ {i} : players'[j] = players[j]
        /\ bomb_list' = bomb_list
    BY <1>1 DEF HandleInput, TypeOK
  <2> HIDE DEF p
  <2> QED BY <2>2, <2>3 DEF PlanterInv
<1>2. ASSUME NEW i \in Players, PlayerTurn(i) PROVE PlanterInv(a)'
  <2>1. PICK ahead \in TilesAhead(players[i]) :
          LET v == Ticked(Acted(i, ahead))
          IN /\ players'   = [players EXCEPT ![i] = v.player]
             /\ bomb_list' = [bomb_list EXCEPT ![players[i].id] = v.bomb]
    BY <1>2 DEF PlayerTurn
  <2> DEFINE w == Acted(i, ahead)
             v == Ticked(w)
             p == players[i]
  <2>2. ahead \in Tiles /\ w \in StageType /\ v \in StageType
    BY <2>1, TilesAheadType, ActedType, TickedType
  <2>3. p \in PlayerType /\ p.id = 0 /\ bomb_list \in [0 .. 3 -> BombType]
    BY DEF TypeOK, PlanterInv
  <2>4. /\ w.player.id = 0
        /\ \/ /\ w.player.has_bomb = p.has_bomb
              /\ w.player.is_placing_bomb = p.is_placing_bomb
              /\ w.bomb = bomb_list[0]
           \/ /\ p.is_placing_bomb # 0 /\ w.player.is_placing_bomb = 0
              /\ w.player.has_bomb = 0
              /\ w.bomb.state = "BOMB"
    BY <2>2, <2>3, ActedBomb
  <2>5. /\ players'[i] = v.player /\ bomb_list'[0] = v.bomb
        /\ \A j \in Players \ {i} : players'[j] = players[j]
    BY <2>1, <2>3 DEF TypeOK
  <2> HIDE DEF w
  <2>6. /\ v.player.id = w.player.id
        /\ v.player.is_placing_bomb = w.player.is_placing_bomb
        /\ ~Out(w) => v.player.has_bomb = w.player.has_bomb /\ v.bomb = w.bomb
        /\ Out(w)  => (v.player.has_bomb = 0 <=> v.bomb.state # "GONE")
    BY <2>2, TickedBomb
  <2>7. w.player.has_bomb \in {0, 1} /\ v.player.has_bomb \in {0, 1}
    BY <2>2 DEF StageType, PlayerType
  <2> HIDE DEF v, p
  <2>8. CASE i = a
    <3>1. p.is_placing_bomb # 0 => p.has_bomb = 1
      BY <2>8 DEF PlanterInv, p
    <3>2. w.player.has_bomb = 0 <=> w.bomb.state # "GONE"
      BY <2>4, <2>8 DEF PlanterInv, p
    <3>3. v.player.has_bomb = 0 <=> v.bomb.state # "GONE"
      BY <2>6, <2>7, <3>2 DEF Out
    <3>4. v.player.is_placing_bomb # 0 => v.player.has_bomb = 1
      BY <2>4, <2>6, <2>7, <3>1 DEF Out
    <3>5. players'[a].is_placing_bomb # 0 => players'[a].has_bomb = 1
      BY <2>5, <2>8, <3>4
    <3>6. players'[a].has_bomb = 0 <=> bomb_list'[0].state # "GONE"
      BY <2>5, <2>8, <3>3
    <3> QED BY <2>4, <2>5, <2>6, <2>8, <3>5, <3>6 DEF PlanterInv
  <2>9. CASE i # a
    <3>1. w.player.has_bomb = 1 /\ w.bomb = bomb_list[0]
      BY <2>4, <2>9 DEF PlanterInv, OnlyPlanter, p
    <3>2. v.player.has_bomb = 1 /\ v.bomb = bomb_list[0]
      BY <2>6, <3>1 DEF Out
    <3> QED BY <2>4, <2>5, <2>6, <2>9, <3>2 DEF PlanterInv
  <2> QED BY <2>8, <2>9
<1>3. CASE UNCHANGED vars
  BY <1>3 DEF vars, PlanterInv
<1> QED BY <1>1, <1>2, <1>3, PlayersAssumption DEF Next

LEMMA PlanterAlways ==
  ASSUME NEW a \in Players
  PROVE  Spec /\ []OnlyPlanter(a) => []PlanterInv(a)
<1>1. Init => PlanterInv(a)
  BY InitPlanter
<1>2. TypeOK /\ OnlyPlanter(a) /\ PlanterInv(a) /\ [Next]_vars => PlanterInv(a)'
  BY PlanterKept
<1> QED BY <1>1, <1>2, TypeCorrect, PTL DEF Spec

\* While a single player plants, whatever the others do besides, and until another first
\* asks for a bomb, a player whose bomb is out has a bomb that has not been freed:
\* update_game dereferences no dangling pointer (BombOutIsLive).
THEOREM PlanterBombIsLive ==
  ASSUME NEW a \in Players
  PROVE  Spec /\ []OnlyPlanter(a) => []BombOutIsLive
<1>1. PlanterInv(a) => BombOutIsLive
  <2> SUFFICES ASSUME PlanterInv(a), NEW i \in Players, players[i].has_bomb = 0
               PROVE  bomb_list[players[i].id].state # "GONE"
    BY DEF BombOutIsLive
  <2>1. i = a
    BY DEF PlanterInv
  <2> QED BY <2>1 DEF PlanterInv
<1> QED BY <1>1, PlanterAlways, PTL

\* A bomb just planted is not removed in the same update.
LEMMA PlantedStays ==
  ASSUME NEW p \in PlayerType
  PROVE  UpdateBomb(CreateBomb(p)).state # "REMOVE"
<1> DEFINE b == CreateBomb(p)
<1>1. b.state = "BOMB" /\ b.time_remaining \in Nat
  BY TimersAssumption DEF CreateBomb
<1>2. CASE b.time_remaining > 0
  <2>1. UpdateBomb(b) = [b EXCEPT !.time_remaining = @ - 1]
    BY <1>2 DEF UpdateBomb
  <2> QED BY <2>1 DEF CreateBomb
<1>3. CASE b.time_remaining = 0
  <2>1. UpdateBomb(b) = [b EXCEPT !.state = "EXPLOSION", !.time_remaining = BLAST]
    BY <1>1, <1>3 DEF UpdateBomb
  <2> QED BY <2>1 DEF CreateBomb
<1> QED BY <1>1, <1>2, <1>3

\* Player i is left with a freed bomb by the turn of j, which gets its own back.
LeftStale(i, j) ==
  /\ turn = j
  /\ players[j].has_bomb = 0 /\ players'[j].has_bomb = 1
  /\ players[i].has_bomb = 0

LEMMA TurnLeavesStale ==
  ASSUME TypeOK, NEW j \in Players, PlayerTurn(j),
         NEW i \in Players, ~Stale(i), Stale(i)'
  PROVE  i # j /\ LeftStale(i, j)
<1>1. PICK ahead \in TilesAhead(players[j]) :
        LET v == Ticked(Acted(j, ahead))
        IN /\ players'   = [players EXCEPT ![j] = v.player]
           /\ bomb_list' = [bomb_list EXCEPT ![players[j].id] = v.bomb]
  BY DEF PlayerTurn
<1> DEFINE w == Acted(j, ahead)
           v == Ticked(w)
           p == players[j]
<1>2. ahead \in Tiles /\ w \in StageType /\ v \in StageType
  BY <1>1, TilesAheadType, ActedType, TickedType
<1>3. p \in PlayerType /\ players[i] \in PlayerType /\ bomb_list \in [0 .. 3 -> BombType]
  BY DEF TypeOK
<1>4. /\ w.player.id = p.id
      /\ \/ /\ w.player.has_bomb = p.has_bomb
            /\ w.bomb = bomb_list[p.id]
         \/ /\ w.player.has_bomb = 0
            /\ w.bomb.state = "BOMB"
            /\ w.bomb = CreateBomb(w.player)
  BY <1>2, ActedBomb
<1>5. /\ players'[j] = v.player
      /\ i # j => players'[i] = players[i]
      /\ \A k \in 0 .. 3 : bomb_list'[k] = IF k = p.id THEN v.bomb ELSE bomb_list[k]
  BY <1>1, <1>3 DEF TypeOK
<1> HIDE DEF w
<1>6. /\ v.player.id = w.player.id
      /\ ~Out(w) => v.player.has_bomb = w.player.has_bomb /\ v.bomb = w.bomb
      /\ Out(w)  => (v.player.has_bomb = 0 <=> v.bomb.state # "GONE")
  BY <1>2, TickedBomb
<1>7. w.player.has_bomb \in {0, 1} /\ v.player.has_bomb \in {0, 1} /\ p.has_bomb \in {0, 1}
  BY <1>2, <1>3 DEF StageType, PlayerType
<1>8. ASSUME w.bomb = CreateBomb(w.player), Out(w) PROVE v.player.has_bomb = 0
  <2>1. w.player \in PlayerType
    BY <1>2 DEF StageType
  <2>2. UpdateBomb(w.bomb).state # "REMOVE"
    BY <1>8, <2>1, PlantedStays
  <2>3. v.player = [w.player EXCEPT !.has_bomb = 0]
    BY <1>8, <2>2 DEF Ticked
  <2> QED BY <2>1, <2>3 DEF PlayerType
<1> HIDE DEF v, p
<1>9. p.id \in 0 .. 3 /\ players[i].id \in 0 .. 3
  BY <1>3 DEF PlayerType
<1>10. CASE i = j
  <2>1. v.player.has_bomb = 0 /\ v.bomb.state = "GONE"
    BY <1>4, <1>5, <1>6, <1>9, <1>10 DEF Stale, p
  <2>2. ~Out(w) /\ w.player.has_bomb = 0 /\ w.bomb.state = "GONE"
    BY <1>6, <2>1
  <2>3. p.has_bomb = 0 /\ bomb_list[p.id].state = "GONE"
    BY <1>4, <2>2
  <2> QED BY <1>10, <2>3 DEF Stale, p
<1>11. CASE i # j
  <2>1. /\ players[i].has_bomb = 0 /\ bomb_list'[players[i].id].state = "GONE"
        /\ bomb_list[players[i].id].state # "GONE"
    BY <1>5, <1>11 DEF Stale
  <2>2. players[i].id = p.id /\ v.bomb.state = "GONE" /\ bomb_list[p.id].state # "GONE"
    BY <1>5, <1>9, <2>1
  <2>3. w.bomb.state # "GONE"
    BY <1>4, <2>2
  <2>4. Out(w) /\ v.player.has_bomb = 1
    BY <1>6, <1>7, <2>2, <2>3
  <2>5. p.has_bomb = 0
    BY <1>4, <1>7, <1>8, <2>4 DEF Out
  <2>6. turn = j
    BY DEF PlayerTurn
  <2> QED BY <1>5, <1>11, <2>1, <2>4, <2>5, <2>6 DEF LeftStale, p
<1> QED BY <1>10, <1>11

\* However many plant and whatever they ask for, a player comes to follow a freed bomb
\* only by the turn of another planter, which removes the bomb both lead to
\* (StaleByAnother).
THEOREM OwnTurnsLeaveNoStale == Spec => StaleByAnother
<1> DEFINE Caused ==
      \A i \in Players :
        ~Stale(i) /\ Stale(i)' =>
          \E j \in Players \ {i} :
            /\ turn = j
            /\ players[j].has_bomb = 0 /\ players'[j].has_bomb = 1
            /\ players[i].has_bomb = 0
<1>1. TypeOK /\ [Next]_vars => [Caused]_vars
  <2> SUFFICES ASSUME TypeOK, [Next]_vars, NEW i \in Players, ~Stale(i), Stale(i)'
               PROVE  \E j \in Players \ {i} : LeftStale(i, j)
    BY DEF LeftStale
  <2>1. ASSUME NEW j \in Actors, NEW action \in 0 .. 7, HandleInput(j, action)
        PROVE  FALSE
    <3>1. \A q \in PlayerType : /\ Handled(q, action).id = q.id
                               /\ Handled(q, action).has_bomb = q.has_bomb
      BY DEF Handled, PlayerType
    <3>2. /\ players'[i] \in {players[i], Handled(players[i], action)}
          /\ bomb_list' = bomb_list
      BY <2>1 DEF HandleInput, TypeOK
    <3>3. players[i] \in PlayerType
      BY DEF TypeOK
    <3>4. players'[i].id = players[i].id /\ players'[i].has_bomb = players[i].has_bomb
      BY <3>1, <3>2, <3>3
    <3> QED BY <3>2, <3>4 DEF Stale
  <2>2. ASSUME NEW j \in Players, PlayerTurn(j)
        PROVE  \E k \in Players \ {i} : LeftStale(i, k)
    BY <2>2, TurnLeavesStale
  <2>3. ~(UNCHANGED vars)
    BY DEF vars, Stale
  <2> QED BY <2>1, <2>2, <2>3 DEF Next
<1> QED BY <1>1, TypeCorrect, PTL DEF Spec, StaleByAnother

\* Who does not act does not plant.
LEMMA ActorIsPlanter ==
  ASSUME NEW a, Actors = {a}
  PROVE  Spec => []OnlyPlanter(a)
<1>1. Init => OnlyPlanter(a)
  BY DEF Init, OnlyPlanter, SetupPlayer
<1>2. TypeOK /\ OnlyPlanter(a) /\ [Next]_vars => OnlyPlanter(a)'
  <2> SUFFICES ASSUME TypeOK, OnlyPlanter(a), [Next]_vars PROVE OnlyPlanter(a)'
    OBVIOUS
  <2>1. ASSUME NEW action \in 0 .. 7, HandleInput(a, action) PROVE OnlyPlanter(a)'
    <3>1. \A j \in Players \ {a} : players'[j] = players[j]
      BY <2>1 DEF HandleInput, TypeOK
    <3> QED BY <3>1 DEF OnlyPlanter
  <2>2. ASSUME NEW i \in Players, PlayerTurn(i) PROVE OnlyPlanter(a)'
    <3>1. PICK ahead \in TilesAhead(players[i]) :
            players' = [players EXCEPT ![i] = Ticked(Acted(i, ahead)).player]
      BY <2>2 DEF PlayerTurn
    <3> DEFINE w == Acted(i, ahead)
               v == Ticked(w)
    <3>2. ahead \in Tiles /\ w \in StageType
      BY <3>1, TilesAheadType, ActedType
    <3>3. v.player.is_placing_bomb = w.player.is_placing_bomb
      BY <3>2, TickedBomb
    <3>4. w.player.is_placing_bomb = players[i].is_placing_bomb \/ w.player.is_placing_bomb = 0
      BY <3>2, ActedBomb
    <3> HIDE DEF v, w
    <3>5. players'[i] = v.player /\ \A j \in Players \ {i} : players'[j] = players[j]
      BY <3>1 DEF TypeOK, v, w
    <3> QED BY <3>3, <3>4, <3>5 DEF OnlyPlanter
  <2>3. CASE UNCHANGED vars
    BY <2>3 DEF vars, OnlyPlanter
  <2> QED BY <2>1, <2>2, <2>3 DEF Next
<1> QED BY <1>1, <1>2, TypeCorrect, PTL DEF Spec

\* In particular with one client acting.
THEOREM SoloBombIsLive ==
  ASSUME NEW a, Actors = {a}
  PROVE  Spec => []BombOutIsLive
<1>1. a \in Players
  BY PlayersAssumption
<1> QED BY <1>1, ActorIsPlanter, PlanterBombIsLive, PTL

-----------------------------------------------------------------------------
(* What the board shows of the bomb, with one acting player *)

\* Board g shows nothing but bomb b, and perhaps not all of it.
MayShow(g, b) ==
  \A c \in Cells :
    /\ g[c] = BOMB_TILE => b.state = "BOMB" /\ c = Here(b)
    /\ g[c] = FIRE => b.state = "EXPLOSION" /\ c \in {Here(b)} \cup Cross(Here(b))

Shows(g, b) ==
  MayShow(g, b) /\ \A c \in Cells : b.state = "BOMB" /\ c = Here(b) => g[c] = BOMB_TILE

\* TilesMatchBomb is kept because a bomb that is out is in slot 0 and is drawn again in
\* the turn of the one player that may have walked off it, because a bomb is planted
\* only when none is out, and because those who do not act stay where they are.
ShownInv(a) ==
  /\ OnlyPlanter(a) /\ PlanterInv(a)
  /\ \A i \in Players \ {a} : Ahead(players[i]) = Here(players[i])
  /\ Shows(grid, bomb_list[0])

LEMMA BoardTilesDiffer ==
  FREE # BOMB_TILE /\ FREE # FIRE /\ BOMB_TILE # FIRE /\ WALL # BOMB_TILE /\ WALL # FIRE
  BY DEF FREE, WALL, BOMB_TILE, FIRE

LEMMA InCells ==
  ASSUME NEW x \in 0 .. BOARD_WIDTH - 1, NEW y \in 0 .. BOARD_HEIGHT - 1
  PROVE  Cell(x, y) \in Cells
<1> DEFINE W == BOARD_WIDTH
           H == BOARD_HEIGHT
<1>1. W \in Nat /\ H \in Nat /\ x \in Nat /\ y \in Nat /\ x < W /\ y <= H - 1
  BY BoardAssumption
<1> HIDE DEF W, H
<1>2. y * W \in Nat /\ y * W <= (H - 1) * W
  BY <1>1
<1>3. (H - 1) * W = W * H - W /\ W * H \in Nat
  BY <1>1
<1>4. y * W + x \in 0 .. W * H - 1
  BY <1>1, <1>2, <1>3
<1> QED BY <1>4 DEF Cell, Cells, W, H

\* A step or a death removes tiles of the bomb at most.
LEMMA MovedShows ==
  ASSUME TypeOK, NEW i \in Players, NEW ahead, NEW b, MayShow(grid, b)
  PROVE  MayShow(Moved(i, ahead).grid, b)
<1> DEFINE p == players[i]
<1>1. grid \in [Cells -> Tiles]
  BY DEF TypeOK
<1>2. \A c \in Cells : Vacated(p)[c] = FREE \/ Vacated(p)[c] = grid[c]
  BY <1>1 DEF Vacated
<1>3. Vacated(p) \in [Cells -> Tiles]
  BY <1>1, PaintIsTile DEF Vacated
<1>4. \A c \in Cells : \/ Moved(i, ahead).grid[c] = grid[c]
                       \/ Moved(i, ahead).grid[c] = FREE
                       \/ Moved(i, ahead).grid[c] = PlayerTile(i)
  BY <1>2, <1>3 DEF Moved
<1> QED BY <1>4, TilesDiffer, BoardTilesDiffer DEF MayShow

LEMMA PlacedShows ==
  ASSUME NEW w \in StageType, MayShow(w.grid, w.bomb),
         w.player.is_placing_bomb # 0 => w.bomb.state = "GONE"
  PROVE  MayShow(Placed(w).grid, Placed(w).bomb)
<1>1. CASE w.player.is_placing_bomb = 0
  BY <1>1 DEF Placed
<1>2. CASE w.player.is_placing_bomb # 0
  <2> DEFINE p == w.player
             b == CreateBomb(p)
  <2>1. Placed(w).grid = [w.grid EXCEPT ![Here(p)] = BOMB_TILE] /\ Placed(w).bomb = b
    BY <1>2 DEF Placed
  <2>2. b.state = "BOMB" /\ Here(b) = Here(p) /\ w.grid \in [Cells -> Tiles]
    BY DEF CreateBomb, Here, StageType
  <2>3. \A c \in Cells : w.grid[c] # BOMB_TILE /\ w.grid[c] # FIRE
    BY <1>2 DEF MayShow
  <2> HIDE DEF b, p
  <2> QED BY <2>1, <2>2, <2>3, BoardTilesDiffer DEF MayShow
<1> QED BY <1>1, <1>2

\* Drawing a bomb completes what the board shows of it.
LEMMA TickedShows ==
  ASSUME NEW w \in StageType, MayShow(w.grid, w.bomb), Out(w)
  PROVE  Shows(Ticked(w).grid, Ticked(w).bomb)
<1> DEFINE b == UpdateBomb(w.bomb)
           g == Drawn(w.grid, b)
<1>1. w.bomb \in BombType /\ w.bomb.state # "GONE" /\ w.grid \in [Cells -> Tiles]
  BY DEF Out, StageType
<1>2. /\ b.state \in {"BOMB", "EXPLOSION", "REMOVE"}
      /\ Here(b) = Here(w.bomb) /\ Here(b) \in Cells
  BY <1>1, UpdateBombType, InCells DEF Here, BombType
<1>3. b.state = "BOMB" => w.bomb.state = "BOMB"
  BY <1>1 DEF UpdateBomb, BombType
<1>4. b.state = "REMOVE" => w.bomb.state = "EXPLOSION"
  BY <1>1 DEF UpdateBomb, BombType
<1>5. /\ Ticked(w).grid = g
      /\ Ticked(w).bomb = IF b.state = "REMOVE" THEN NoBomb ELSE b
  BY DEF Ticked
<1> HIDE DEF b
<1>6. CASE b.state = "BOMB"
  <2>1. g = [w.grid EXCEPT ![Here(b)] = BOMB_TILE]
    BY <1>6 DEF Drawn
  <2> QED BY <1>1, <1>2, <1>3, <1>5, <1>6, <2>1, BoardTilesDiffer DEF Shows, MayShow
<1>7. CASE b.state = "EXPLOSION"
  <2>1. \A c \in Cells :
          g[c] = IF c = Here(b) \/ (c \in Cross(Here(b)) /\ w.grid[c] = FREE) THEN FIRE
                 ELSE w.grid[c]
    BY <1>7 DEF Drawn, Lit
  <2> QED BY <1>1, <1>2, <1>5, <1>7, <2>1, BoardTilesDiffer DEF Shows, MayShow
<1>8. CASE b.state = "REMOVE"
  <2>1. \A c \in Cells :
          g[c] = IF c = Here(b) \/ (c \in Cross(Here(b)) /\ w.grid[c] = FIRE) THEN FREE
                 ELSE w.grid[c]
    BY <1>8 DEF Drawn, Cleared
  <2>2. \A c \in Cells : g[c] # BOMB_TILE /\ g[c] # FIRE
    BY <1>2, <1>4, <1>8, <2>1, BoardTilesDiffer DEF MayShow
  <2> QED BY <1>5, <1>8, <2>2 DEF Shows, MayShow, NoBomb
<1> QED BY <1>2, <1>6, <1>7, <1>8

\* Who stays in place covers no bomb, and may burn.
LEMMA StayingShows ==
  ASSUME TypeOK, NEW i \in Players, NEW ahead \in TilesAhead(players[i]), NEW b,
         Ahead(players[i]) = Here(players[i]), players[i].is_placing_bomb = 0,
         Shows(grid, b)
  PROVE  /\ Shows(Acted(i, ahead).grid, b)
         /\ Ahead(Acted(i, ahead).player) = Here(Acted(i, ahead).player)
<1> DEFINE p == players[i]
           m == Moved(i, ahead)
<1>1. p \in PlayerType /\ grid \in [Cells -> Tiles]
  BY DEF TypeOK
<1>2. Here(p) \in Cells /\ ahead = grid[Here(p)]
  BY <1>1, InCells DEF PlayerType, Here, TilesAhead
<1>3. MayShow(m.grid, b)
  BY MovedShows DEF Shows
<1>4. /\ Ahead(m.player) = Here(m.player)
      /\ m.player.is_placing_bomb = 0
      /\ \A c \in Cells : m.grid[c] = grid[c] \/ (c = Here(p) /\ grid[c] # BOMB_TILE)
  <2>1. CASE CanStep(p)
    <3>1. grid[Here(p)] = FREE
      BY <2>1 DEF CanStep
    <3>2. m.grid = [[grid EXCEPT ![Here(p)] = FREE] EXCEPT ![Here(p)] = PlayerTile(i)]
      BY <2>1 DEF Moved, Vacated
    <3>3. \A c \in Cells : c # Here(p) => m.grid[c] = grid[c]
      BY <1>1, <3>2
    <3>4. m.player = [p EXCEPT !.pos_x = p.next_x, !.pos_y = p.next_y]
      BY <2>1 DEF Moved
    <3>5. Ahead(m.player) = Ahead(p) /\ Here(m.player) = Ahead(p)
          /\ m.player.is_placing_bomb = 0
      <4> HIDE DEF m
      <4> QED BY <1>1, <3>4 DEF PlayerType, Ahead, Here
    <3> QED BY <3>1, <3>3, <3>5, BoardTilesDiffer
  <2>2. CASE ~CanStep(p) /\ ahead = FIRE
    <3>1. m.grid = [grid EXCEPT ![Here(p)] = FREE] /\ m.player = [p EXCEPT !.state = "DEAD"]
      BY <2>2 DEF Moved, Vacated
    <3>2. \A c \in Cells : c # Here(p) => m.grid[c] = grid[c]
      BY <1>1, <3>1
    <3>3. Ahead(m.player) = Ahead(p) /\ Here(m.player) = Here(p)
          /\ m.player.is_placing_bomb = 0
      <4> HIDE DEF m
      <4> QED BY <1>1, <3>1 DEF PlayerType, Ahead, Here
    <3> QED BY <1>2, <2>2, <3>2, <3>3, BoardTilesDiffer
  <2>3. CASE ~CanStep(p) /\ ahead # FIRE
    <3>1. m.grid = grid /\ m.player = [p EXCEPT !.next_x = p.pos_x, !.next_y = p.pos_y]
      BY <2>3 DEF Moved
    <3>2. Ahead(m.player) = Here(p) /\ Here(m.player) = Here(p)
          /\ m.player.is_placing_bomb = 0
      <4> HIDE DEF m
      <4> QED BY <1>1, <3>1 DEF PlayerType, Ahead, Here
    <3> QED BY <3>1, <3>2
  <2> QED BY <2>1, <2>2, <2>3
<1>5. CASE p.state = "DEAD"
  BY <1>5 DEF Acted
<1>6. CASE p.state # "DEAD"
  <2>1. Acted(i, ahead) = m
    BY <1>4, <1>6 DEF Acted, Placed
  <2> HIDE DEF m
  <2>2. \A c \in Cells : b.state = "BOMB" /\ c = Here(b) => m.grid[c] = BOMB_TILE
    BY <1>4 DEF Shows
  <2> QED BY <1>3, <1>4, <2>1, <2>2 DEF Shows
<1> QED BY <1>5, <1>6

LEMMA ActedShows ==
  ASSUME TypeOK, NEW i \in Players, NEW ahead \in Tiles,
         MayShow(grid, bomb_list[players[i].id]),
         players[i].is_placing_bomb # 0 => bomb_list[players[i].id].state = "GONE"
  PROVE  MayShow(Acted(i, ahead).grid, Acted(i, ahead).bomb)
<1> DEFINE p == players[i]
           m == Moved(i, ahead)
<1>1. m \in StageType /\ MayShow(m.grid, bomb_list[p.id])
  BY MovedType, MovedShows
<1>2. m.bomb = bomb_list[p.id] /\ m.player.is_placing_bomb = p.is_placing_bomb
  BY DEF Moved, TypeOK, PlayerType
<1>3. CASE p.state = "DEAD"
  BY <1>3 DEF Acted
<1>4. CASE p.state # "DEAD"
  <2>1. Acted(i, ahead) = Placed(m)
    BY <1>4 DEF Acted
  <2> HIDE DEF m
  <2> QED BY <1>1, <1>2, <2>1, PlacedShows
<1> QED BY <1>3, <1>4

LEMMA InitShown ==
  ASSUME NEW a, Actors = {a}
  PROVE  Init => ShownInv(a)
<1> SUFFICES ASSUME Init PROVE ShownInv(a)
  OBVIOUS
<1>1. a \in Players
  BY PlayersAssumption
<1>2. OnlyPlanter(a) /\ PlanterInv(a)
  BY <1>1, InitPlanter DEF Init, OnlyPlanter, SetupPlayer
<1>3. \A i \in Players : /\ Ahead(players[i]) = Here(players[i])
                         /\ players[i].is_placing_bomb = 0
  BY DEF Init, SetupPlayer, Ahead, Here
<1>4. bomb_list[0].state = "GONE"
  BY DEF Init, NoBomb
<1>5. \A c \in Cells : grid[c] # BOMB_TILE /\ grid[c] # FIRE
  BY BoardTilesDiffer DEF Init
<1> QED BY <1>1, <1>2, <1>3, <1>4, <1>5 DEF ShownInv, Shows, MayShow

LEMMA InputShown ==
  ASSUME NEW a, Actors = {a}, TypeOK, ShownInv(a), (OnlyPlanter(a) /\ PlanterInv(a))',
         NEW action \in 0 .. 7, HandleInput(a, action)
  PROVE  ShownInv(a)'
<1>1. a \in Players /\ players[a] \in PlayerType
  BY PlayersAssumption DEF TypeOK
<1>2. /\ players'[a] = Handled(players[a], action)
      /\ \A j \in Players \ {a} : players'[j] = players[j]
      /\ UNCHANGED <<grid, bomb_list>>
  BY <1>1 DEF HandleInput, TypeOK
<1> QED BY <1>2 DEF ShownInv, Shows, MayShow, Ahead, Here

LEMMA TurnShown ==
  ASSUME NEW a, Actors = {a}, TypeOK, ShownInv(a), (OnlyPlanter(a) /\ PlanterInv(a))',
         NEW i \in Players, PlayerTurn(i)
  PROVE  ShownInv(a)'
<1>0. a \in Players
  BY PlayersAssumption
<1>1. PICK ahead \in TilesAhead(players[i]) :
        LET v == Ticked(Acted(i, ahead))
        IN /\ players'   = [players EXCEPT ![i] = v.player]
           /\ grid' = v.grid
           /\ bomb_list' = [bomb_list EXCEPT ![players[i].id] = v.bomb]
  BY DEF PlayerTurn
<1> DEFINE w == Acted(i, ahead)
           v == Ticked(w)
<1>2. ahead \in Tiles /\ w \in StageType /\ v \in StageType
  BY <1>1, TilesAheadType, ActedType, TickedType
<1>3. /\ players[i] \in PlayerType /\ players[i].id = 0
      /\ bomb_list \in [0 .. 3 -> BombType]
  BY DEF TypeOK, ShownInv, OnlyPlanter, PlanterInv
<1>4. \/ /\ w.player.has_bomb = players[i].has_bomb
         /\ w.player.is_placing_bomb = players[i].is_placing_bomb
         /\ w.bomb = bomb_list[0]
      \/ /\ players[i].is_placing_bomb # 0 /\ w.player.is_placing_bomb = 0
         /\ w.player.has_bomb = 0
         /\ w.bomb.state = "BOMB"
  BY <1>2, <1>3, ActedBomb
<1>5. /\ players'[i] = v.player /\ grid' = v.grid /\ bomb_list'[0] = v.bomb
      /\ \A j \in Players \ {i} : players'[j] = players[j]
  BY <1>1, <1>3 DEF TypeOK
<1>6. CASE i = a
  <2>1. players[a].is_placing_bomb # 0 => bomb_list[0].state = "GONE"
    BY <1>0 DEF ShownInv, PlanterInv
  <2>2. MayShow(w.grid, w.bomb)
    BY <1>2, <1>3, <1>6, <2>1, ActedShows DEF ShownInv, Shows
  <2> HIDE DEF w
  <2>3. CASE Out(w)
    <3>1. Shows(v.grid, v.bomb)
      BY <1>2, <2>2, <2>3, TickedShows
    <3> HIDE DEF v
    <3>2. \A j \in Players \ {a} : Ahead(players'[j]) = Here(players'[j])
      BY <1>5, <1>6 DEF ShownInv
    <3> QED BY <1>5, <3>1, <3>2 DEF ShownInv, Shows, MayShow, Ahead, Here
  <2>4. CASE ~Out(w)
    <3>1. v = w
      BY <2>4 DEF Ticked
    <3> HIDE DEF v
    <3>2. w.player.has_bomb \in {0, 1}
      BY <1>2 DEF StageType, PlayerType
    <3>3. w.bomb = bomb_list[0] /\ w.bomb.state = "GONE"
      BY <1>4, <1>6, <2>4, <3>2 DEF Out, ShownInv, PlanterInv
    <3>4. Shows(v.grid, v.bomb)
      BY <2>2, <3>1, <3>3 DEF Shows
    <3>5. \A j \in Players \ {a} : Ahead(players'[j]) = Here(players'[j])
      BY <1>5, <1>6 DEF ShownInv
    <3> QED BY <1>5, <3>1, <3>3, <3>4, <3>5 DEF ShownInv, Shows, MayShow, Ahead, Here
  <2> QED BY <2>3, <2>4
<1>7. CASE i # a
  <2>1. players[i].is_placing_bomb = 0 /\ players[i].has_bomb = 1
        /\ Ahead(players[i]) = Here(players[i])
    BY <1>7 DEF ShownInv, OnlyPlanter, PlanterInv
  <2>2. Shows(w.grid, bomb_list[0]) /\ Ahead(w.player) = Here(w.player)
    BY <1>1, <2>1, StayingShows DEF ShownInv
  <2> HIDE DEF w
  <2>3. v = w /\ w.bomb = bomb_list[0]
    BY <1>4, <2>1 DEF Ticked, Out
  <2> HIDE DEF v
  <2>4. players'[a] = players[a]
    BY <1>0, <1>5, <1>7
  <2>5. \A j \in Players \ {a} : Ahead(players'[j]) = Here(players'[j])
    BY <1>5, <2>2, <2>3 DEF ShownInv
  <2> QED BY <1>5, <2>2, <2>3, <2>4, <2>5 DEF ShownInv, Shows, MayShow, Ahead, Here
<1> QED BY <1>6, <1>7

LEMMA AlwaysShown ==
  ASSUME NEW a, Actors = {a}
  PROVE  Spec => []ShownInv(a)
<1>0. a \in Players
  BY PlayersAssumption
<1>1. Init => ShownInv(a)
  BY InitShown
<1>2. TypeOK /\ ShownInv(a) /\ (OnlyPlanter(a) /\ PlanterInv(a))' /\ [Next]_vars => ShownInv(a)'
  <2> SUFFICES ASSUME TypeOK, ShownInv(a), (OnlyPlanter(a) /\ PlanterInv(a))', [Next]_vars
               PROVE  ShownInv(a)'
    OBVIOUS
  <2>1. CASE \E i \in Actors, action \in 0 .. 7 : HandleInput(i, action)
    BY <2>1, InputShown
  <2>2. CASE \E i \in Players : PlayerTurn(i)
    BY <2>2, TurnShown
  <2>3. CASE UNCHANGED vars
    BY <2>3 DEF vars, ShownInv, Shows, MayShow, Ahead, Here
  <2> QED BY <2>1, <2>2, <2>3 DEF Next
<1> QED BY <1>0, <1>1, <1>2, ActorIsPlanter, PlanterAlways, TypeCorrect, PTL DEF Spec

\* With one client acting, on every board and with any timers: tile 3 is where the bomb
\* that is out waits and nowhere else, and no fire burns away from its explosion.
THEOREM SoloBoardShowsBomb ==
  ASSUME NEW a, Actors = {a}
  PROVE  Spec => []TilesMatchBomb
<1>1. ShownInv(a) => TilesMatchBomb
  BY DEF ShownInv, Shows, MayShow, TilesMatchBomb
<1> QED BY <1>1, AlwaysShown, PTL

-----------------------------------------------------------------------------
(* Where an explosion may leave the array, while one player plants *)

LEMMA CrossInBoard ==
  ASSUME NEW x \in 0 .. BOARD_WIDTH - 1, NEW y \in 1 .. BOARD_HEIGHT - 2
  PROVE  Cross(Cell(x, y)) \subseteq Cells
<1> DEFINE W == BOARD_WIDTH
           c == Cell(x, y)
<1>1. W \in Nat /\ W >= 2 /\ y \in Nat /\ x \in Nat
  BY BoardAssumption
<1>2. /\ y - 1 \in 0 .. BOARD_HEIGHT - 1 /\ y + 1 \in 0 .. BOARD_HEIGHT - 1
      /\ y \in 0 .. BOARD_HEIGHT - 1
  BY BoardAssumption
<1>3. Cell(x, y - 1) \in Cells /\ Cell(x, y + 1) \in Cells /\ c \in Cells
  BY <1>2, InCells
<1> HIDE DEF W
<1>4. Cell(x, y - 1) = c - W /\ Cell(x, y + 1) = c + W
  <2>1. (y - 1) * W = y * W - W /\ (y + 1) * W = y * W + W /\ y * W \in Nat
    BY <1>1
  <2> QED BY <1>1, <2>1 DEF Cell, W
<1> HIDE DEF c
<1>5. c - 1 \in Cells /\ c + 1 \in Cells
  <2>1. BOARD_WIDTH * BOARD_HEIGHT \in Nat
    BY BoardAssumption
  <2>2. ASSUME NEW n \in Nat, c \in 0 .. n - 1, c - W \in 0 .. n - 1, c + W \in 0 .. n - 1
        PROVE  c - 1 \in 0 .. n - 1 /\ c + 1 \in 0 .. n - 1
    BY <1>1, <2>2
  <2> QED BY <1>3, <1>4, <2>1, <2>2 DEF Cells
<1> QED BY <1>3, <1>4, <1>5 DEF Cross, W, c

\* While a single player plants, and its bombs wait for a turn at least, the program stays
\* within its arrays but for explosions on the first and the last row.
THEOREM PlanterBreaksAtEdge ==
  ASSUME NEW a \in Players, FUSE > 0
  PROVE  Spec /\ []OnlyPlanter(a) => BreaksOnlyAtEdge
<1> DEFINE b == bomb_list[0]
           AtEdge == /\ b.state = "EXPLOSION" \/ (b.state = "BOMB" /\ b.time_remaining = 0)
                     /\ b.pos_y \in {0, BOARD_HEIGHT - 1}
<1>1. TypeOK /\ TypeOK' /\ OnlyPlanter(a) /\ PlanterInv(a) /\ [Next]_vars
        => [undefined' # undefined => AtEdge]_vars
  <2> SUFFICES ASSUME TypeOK, TypeOK', OnlyPlanter(a), PlanterInv(a), NEW i \in Players, PlayerTurn(i),
                      undefined' # undefined
               PROVE  AtEdge
    BY DEF Next, HandleInput, vars
  <2>1. PICK ahead \in TilesAhead(players[i]) : undefined' \in Damage(Acted(i, ahead))
    BY DEF PlayerTurn
  <2> DEFINE w == Acted(i, ahead)
             u == UpdateBomb(w.bomb)
  <2>2. w \in StageType
    BY <2>1, TilesAheadType, ActedType
  <2>3. players[i] \in PlayerType /\ players[i].id = 0 /\ b \in BombType
    BY DEF TypeOK, PlanterInv
  <2>4. \/ w.player.has_bomb = players[i].has_bomb /\ w.bomb = b
        \/ /\ players[i].is_placing_bomb # 0 /\ w.player.has_bomb = 0
           /\ w.bomb.state = "BOMB" /\ w.bomb = CreateBomb(w.player)
    BY <2>1, <2>3, TilesAheadType, ActedBomb
  <2>5. undefined = FALSE /\ undefined' = TRUE
    <3>1. undefined \in BOOLEAN /\ undefined' \in BOOLEAN /\ ~undefined
      BY DEF PlayerTurn, TypeOK
    <3> QED BY <3>1
  <2>6. w.player.has_bomb \in {0, 1} /\ w.bomb \in BombType
    BY <2>2 DEF StageType, PlayerType
  <2>7. w.player.has_bomb = 0 /\ (w.bomb.state # "GONE"
          => u.state # "BOMB" /\ ~(Cross(Here(u)) \subseteq Cells))
    <3>1. TRUE \in Damage(w)
      BY <2>1, <2>5
    <3> HIDE DEF w
    <3>2. CASE w.player.has_bomb = 1
      BY <3>1, <3>2 DEF Damage
    <3>3. CASE w.player.has_bomb = 0 /\ w.bomb.state = "GONE"
      BY <3>3
    <3>4. CASE w.player.has_bomb = 0 /\ w.bomb.state # "GONE"
      <4>1. TRUE \in IF u.state = "BOMB" \/ Cross(Here(u)) \subseteq Cells
                    THEN {FALSE} ELSE BOOLEAN
        BY <3>1, <3>4 DEF Damage
      <4> QED BY <3>4, <4>1
    <3> QED BY <2>6, <3>2, <3>3, <3>4
  <2> HIDE DEF w, b
  <2>8. i = a /\ w.bomb.state # "GONE"
    BY <2>4, <2>7 DEF PlanterInv, OnlyPlanter, b
  <2>9. w.bomb = b
    <3> SUFFICES ASSUME w.bomb = CreateBomb(w.player) PROVE FALSE
      BY <2>4
    <3>1. w.bomb.time_remaining = FUSE /\ w.bomb.state = "BOMB"
      BY DEF CreateBomb
    <3>2. u = [w.bomb EXCEPT !.time_remaining = @ - 1]
      BY <3>1, TimersAssumption DEF UpdateBomb
    <3>3. u.state = "BOMB"
      BY <2>6, <3>1, <3>2 DEF BombType
    <3> QED BY <2>7, <2>8, <3>3
  <2>10. b.state = "EXPLOSION" \/ (b.state = "BOMB" /\ b.time_remaining = 0)
    <3> SUFFICES ASSUME b.state = "BOMB", b.time_remaining # 0 PROVE FALSE
      BY <2>3, <2>8, <2>9 DEF BombType
    <3>1. UpdateBomb(b) = [b EXCEPT !.time_remaining = @ - 1]
      BY <2>3 DEF UpdateBomb, BombType
    <3>2. UpdateBomb(b).state = "BOMB"
      BY <2>3, <3>1 DEF BombType
    <3> QED BY <2>7, <2>8, <2>9, <3>2
  <2>11. Here(u) = Here(b)
    BY <2>3, <2>8, <2>9, UpdateBombType DEF Here
  <2>12. b.pos_y \in {0, BOARD_HEIGHT - 1}
    <3> SUFFICES ASSUME b.pos_y \notin {0, BOARD_HEIGHT - 1} PROVE FALSE
      OBVIOUS
    <3>1. b.pos_x \in 0 .. BOARD_WIDTH - 1 /\ b.pos_y \in 1 .. BOARD_HEIGHT - 2
      BY <2>3, BoardAssumption DEF BombType
    <3> QED BY <2>7, <2>8, <2>11, <3>1, CrossInBoard DEF Here
  <2> QED BY <2>10, <2>12
<1> QED BY <1>1, PlanterAlways, TypeCorrect, PTL DEF Spec, BreaksOnlyAtEdge

\* In particular with one client acting.
THEOREM SoloBreaksAtEdge ==
  ASSUME NEW a, Actors = {a}, FUSE > 0
  PROVE  Spec => BreaksOnlyAtEdge
<1>1. a \in Players
  BY PlayersAssumption
<1> QED BY <1>1, ActorIsPlanter, PlanterBreaksAtEdge, PTL

-----------------------------------------------------------------------------
(* Who dies of what, while one player plants *)

\* Whoever walks over the board, it shows no more of the bomb than there is.
LEMMA PlanterMayShow ==
  ASSUME NEW a \in Players, TypeOK, OnlyPlanter(a), PlanterInv(a),
         MayShow(grid, bomb_list[0]), [Next]_vars
  PROVE  MayShow(grid, bomb_list[0])'
<1>1. CASE \E i \in Actors, action \in 0 .. 7 : HandleInput(i, action)
  BY <1>1 DEF HandleInput, MayShow, Here
<1>2. ASSUME NEW i \in Players, PlayerTurn(i) PROVE MayShow(grid, bomb_list[0])'
  <2>1. PICK ahead \in TilesAhead(players[i]) :
          LET v == Ticked(Acted(i, ahead))
          IN /\ grid' = v.grid
             /\ bomb_list' = [bomb_list EXCEPT ![players[i].id] = v.bomb]
    BY <1>2 DEF PlayerTurn
  <2> DEFINE w == Acted(i, ahead)
             v == Ticked(w)
  <2>2. ahead \in Tiles /\ w \in StageType
    BY <2>1, TilesAheadType, ActedType
  <2>3. players[i].id = 0 /\ bomb_list \in [0 .. 3 -> BombType]
    BY DEF TypeOK, PlanterInv
  <2>4. players[i].is_placing_bomb # 0 => bomb_list[0].state = "GONE"
    BY DEF PlanterInv, OnlyPlanter
  <2>5. MayShow(w.grid, w.bomb)
    BY <2>2, <2>3, <2>4, ActedShows
  <2> HIDE DEF w
  <2>6. MayShow(v.grid, v.bomb)
    <3>1. CASE Out(w)
      BY <2>2, <2>5, <3>1, TickedShows DEF Shows
    <3>2. CASE ~Out(w)
      BY <2>5, <3>2 DEF Ticked
    <3> QED BY <3>1, <3>2
  <2>7. grid' = v.grid /\ bomb_list'[0] = v.bomb
    BY <2>1, <2>3 DEF w
  <2> HIDE DEF v
  <2> QED BY <2>6, <2>7 DEF MayShow, Here
<1>3. CASE UNCHANGED vars
  BY <1>3 DEF vars, MayShow, Here
<1> QED BY <1>1, <1>2, <1>3 DEF Next

\* A turn kills nobody but the player it is of, and only by fire.
LEMMA TurnKills ==
  ASSUME TypeOK, NEW i \in Players, PlayerTurn(i), NEW j \in Players,
         players[j].state = "ALIVE", players'[j].state = "DEAD"
  PROVE  j = i /\ (Ahead(players[i]) \in Cells => grid[Ahead(players[i])] = FIRE)
<1>1. PICK ahead \in TilesAhead(players[i]) :
        players' = [players EXCEPT ![i] = Ticked(Acted(i, ahead)).player]
  BY DEF PlayerTurn
<1> DEFINE m == Moved(i, ahead)
           w == Acted(i, ahead)
<1>2. ahead \in Tiles /\ m \in StageType /\ w \in StageType
  BY <1>1, TilesAheadType, MovedType, ActedType
<1>3. j = i /\ Ticked(w).player.state = "DEAD"
  BY <1>1 DEF TypeOK
<1>4. w.player.state = "DEAD"
  <2> HIDE DEF w
  <2> QED BY <1>2, <1>3 DEF Ticked, StageType, PlayerType
<1>5. m.player.state = "DEAD"
  <2>1. w = Placed(m)
    BY <1>3 DEF Acted
  <2> HIDE DEF w, m
  <2> QED BY <1>2, <1>4, <2>1 DEF Placed, StageType, PlayerType
<1>6. ahead = FIRE
  BY <1>3, <1>5 DEF Moved, TypeOK, PlayerType
<1> QED BY <1>1, <1>3, <1>6 DEF TilesAhead

\* However many players act, as long as one of them plants, on every board and for all
\* timers: who dies in a turn heads for a cell of the explosion under way.
THEOREM PlanterKillsByExplosion ==
  ASSUME NEW a \in Players
  PROVE  Spec /\ []OnlyPlanter(a) => DiesOfExplosion
<1> DEFINE b == bomb_list[0]
           Dies(i) == players[i].state = "ALIVE" /\ players'[i].state = "DEAD"
           Burns(c) == c \in Cells => b.state = "EXPLOSION" /\ c \in {Here(b)} \cup Cross(Here(b))
           Shown == MayShow(grid, b)
<1>1. Init => Shown
  <2>1. Init => \A c \in Cells : grid[c] # BOMB_TILE /\ grid[c] # FIRE
    BY BoardTilesDiffer DEF Init
  <2> QED BY <2>1 DEF MayShow
<1>2. TypeOK /\ OnlyPlanter(a) /\ PlanterInv(a) /\ Shown /\ [Next]_vars => Shown'
  BY PlanterMayShow
<1>3. TypeOK /\ Shown /\ [Next]_vars
        => [\A i \in Players : Dies(i) => Burns(Ahead(players[i]))]_vars
  <2> SUFFICES ASSUME TypeOK, Shown, Next, NEW j \in Players, Dies(j)
               PROVE  Burns(Ahead(players[j]))
    OBVIOUS
  <2>1. CASE \E i \in Players : PlayerTurn(i)
    BY <2>1, TurnKills DEF MayShow
  <2>2. ASSUME NEW i \in Actors, NEW action \in 0 .. 7, HandleInput(i, action) PROVE FALSE
    BY <2>2 DEF HandleInput, Handled, TypeOK, PlayerType
  <2> QED BY <2>1, <2>2 DEF Next
<1> QED BY <1>1, <1>2, <1>3, PlanterAlways, TypeCorrect, PTL DEF Spec, DiesOfExplosion

\* In particular with one client acting.
THEOREM SoloDiesOfExplosion ==
  ASSUME NEW a, Actors = {a}
  PROVE  Spec => DiesOfExplosion
<1>1. a \in Players
  BY PlayersAssumption
<1> QED BY <1>1, ActorIsPlanter, PlanterKillsByExplosion, PTL

-----------------------------------------------------------------------------
(* The countdown of the bomb, while one player plants *)

LEMMA LeftType ==
  ASSUME NEW b \in BombType
  PROVE  /\ Left(b) \in Nat
         /\ b.state = "GONE" <=> Left(b) = 0
         /\ b.state # "GONE" => Where(b) = Here(b)
         /\ b.state = "GONE" => Where(b) = -1
  BY TimersAssumption DEF Left, Where, BombType

\* One update of a bomb that is out takes one turn off what it has left, on both
\* sides of the explosion.
LEMMA UpdateCounts ==
  ASSUME NEW b \in BombType, b.state # "GONE"
  PROVE  LET u == UpdateBomb(b)
             n == IF u.state = "REMOVE" THEN NoBomb ELSE u
         IN Left(n) = Left(b) - 1 /\ (n.state = "GONE" \/ Here(n) = Here(b))
<1> DEFINE u == UpdateBomb(b)
<1>1. b.time_remaining \in Nat /\ b.state \in {"BOMB", "EXPLOSION"}
  BY DEF BombType
<1>2. CASE b.time_remaining > 0
  <2>1. u = [b EXCEPT !.time_remaining = b.time_remaining - 1]
    BY <1>2 DEF UpdateBomb
  <2>2. /\ u.state = b.state /\ u.time_remaining = b.time_remaining - 1
        /\ u.pos_x = b.pos_x /\ u.pos_y = b.pos_y
    BY <2>1 DEF BombType
  <2> HIDE DEF u
  <2> QED BY <1>1, <2>2, TimersAssumption DEF Left, Here, u
<1>3. CASE b.time_remaining = 0 /\ b.state = "BOMB"
  <2>1. u = [b EXCEPT !.state = "EXPLOSION", !.time_remaining = BLAST]
    BY <1>3 DEF UpdateBomb
  <2>2. /\ u.state = "EXPLOSION" /\ u.time_remaining = BLAST
        /\ u.pos_x = b.pos_x /\ u.pos_y = b.pos_y
    BY <2>1 DEF BombType
  <2> HIDE DEF u
  <2> QED BY <1>3, <2>2, TimersAssumption DEF Left, Here, u
<1>4. CASE b.time_remaining = 0 /\ b.state = "EXPLOSION"
  <2>1. u = [b EXCEPT !.state = "REMOVE"]
    BY <1>4 DEF UpdateBomb
  <2>2. u.state = "REMOVE"
    BY <2>1 DEF BombType
  <2> HIDE DEF u
  <2> QED BY <1>4, <2>2 DEF Left, NoBomb, u
<1> QED BY <1>1, <1>2, <1>3, <1>4

LEMMA TickCounts ==
  ASSUME NEW w \in StageType
  PROVE  LET v == Ticked(w)
         IN /\ Here(v.player) = Here(w.player)
            /\ Out(w)  => /\ Left(v.bomb) = Left(w.bomb) - 1
                          /\ v.bomb.state = "GONE" \/ Here(v.bomb) = Here(w.bomb)
            /\ ~Out(w) => v.bomb = w.bomb
<1>1. CASE Out(w)
  <2> DEFINE b == UpdateBomb(w.bomb)
             n == IF b.state = "REMOVE" THEN NoBomb ELSE b
  <2>1. /\ Ticked(w).player = [w.player EXCEPT !.has_bomb = IF b.state = "REMOVE" THEN 1 ELSE 0]
        /\ Ticked(w).bomb = n
    BY <1>1 DEF Ticked
  <2>2. Left(n) = Left(w.bomb) - 1 /\ (n.state = "GONE" \/ Here(n) = Here(w.bomb))
    BY <1>1, UpdateCounts DEF Out, StageType
  <2> HIDE DEF n, b
  <2>3. Here(Ticked(w).player) = Here(w.player)
    BY <2>1 DEF Here, StageType, PlayerType
  <2> QED BY <1>1, <2>1, <2>2, <2>3
<1>2. CASE ~Out(w)
  BY <1>2 DEF Ticked
<1> QED BY <1>1, <1>2

\* A bomb is planted only when none is out, in the cell its owner has moved to, with
\* all the turns before it that the timers give.
LEMMA OwnersTurnCounts ==
  ASSUME NEW a \in Players, TypeOK, PlanterInv(a), PlayerTurn(a)
  PROVE  /\ \/ Left(bomb_list[0]) = 0 /\ bomb_list'[0] = bomb_list[0]
            \/ /\ Left(bomb_list[0]) = 0
               /\ Left(bomb_list'[0]) = FUSE + BLAST + 1
               /\ Where(bomb_list'[0]) = Here(players'[a])
            \/ /\ Left(bomb_list[0]) > 0
               /\ Left(bomb_list'[0]) = Left(bomb_list[0]) - 1
               /\ Where(bomb_list'[0]) = IF Left(bomb_list'[0]) = 0 THEN -1
                                         ELSE Where(bomb_list[0])
<1>1. PICK ahead \in TilesAhead(players[a]) :
        LET v == Ticked(Acted(a, ahead))
        IN /\ players'   = [players EXCEPT ![a] = v.player]
           /\ bomb_list' = [bomb_list EXCEPT ![players[a].id] = v.bomb]
  BY DEF PlayerTurn
<1> DEFINE w == Acted(a, ahead)
           v == Ticked(w)
           b == bomb_list[0]
<1>2. w \in StageType /\ v \in StageType
  BY <1>1, TilesAheadType, ActedType, TickedType
<1>3. /\ players[a] \in PlayerType /\ players[a].id = 0
      /\ bomb_list \in [0 .. 3 -> BombType]
  BY DEF TypeOK, PlanterInv
<1>4. \/ w.player.has_bomb = players[a].has_bomb /\ w.bomb = b
      \/ /\ players[a].is_placing_bomb # 0 /\ w.player.has_bomb = 0
         /\ w.bomb = CreateBomb(w.player)
  BY <1>1, <1>3, TilesAheadType, ActedBomb
<1>5. players'[a] = v.player /\ bomb_list'[0] = v.bomb
  BY <1>1, <1>3 DEF TypeOK
<1>6. /\ players[a].has_bomb \in {0, 1}
      /\ players[a].has_bomb = 0 <=> b.state # "GONE"
      /\ players[a].is_placing_bomb # 0 => players[a].has_bomb = 1
  BY <1>3 DEF PlanterInv, PlayerType
<1>7. /\ Here(v.player) = Here(w.player)
      /\ Out(w)  => /\ Left(v.bomb) = Left(w.bomb) - 1
                    /\ v.bomb.state = "GONE" \/ Here(v.bomb) = Here(w.bomb)
      /\ ~Out(w) => v.bomb = w.bomb
  BY <1>2, TickCounts
<1>8. b \in BombType /\ w.bomb \in BombType /\ v.bomb \in BombType
  BY <1>2, <1>3 DEF StageType
<1> HIDE DEF v, w, b
<1>9. CASE w.bomb = CreateBomb(w.player) /\ w.player.has_bomb = 0 /\ b.state = "GONE"
  <2>1. /\ Out(w) /\ Left(w.bomb) = FUSE + BLAST + 2
        /\ Here(w.bomb) = Here(w.player)
    BY <1>9 DEF Out, CreateBomb, Left, Here
  <2>2. Left(v.bomb) = FUSE + BLAST + 1 /\ Left(v.bomb) # 0
    BY <1>7, <2>1, TimersAssumption
  <2> QED BY <1>5, <1>7, <1>8, <1>9, <2>1, <2>2, LeftType DEF b
<1>10. CASE w.player.has_bomb = players[a].has_bomb /\ w.bomb = b
  <2>1. Out(w) <=> b.state # "GONE"
    BY <1>6, <1>10 DEF Out
  <2> QED BY <1>5, <1>7, <1>8, <1>10, <2>1, LeftType DEF b
<1> QED BY <1>4, <1>6, <1>9, <1>10

\* The turn of a player that does not plant leaves the bomb, and the planter, alone.
LEMMA OthersTurnKeeps ==
  ASSUME NEW a \in Players, TypeOK, OnlyPlanter(a), PlanterInv(a),
         NEW i \in Players \ {a}, PlayerTurn(i)
  PROVE  bomb_list' = bomb_list /\ players'[a] = players[a]
<1>1. PICK ahead \in TilesAhead(players[i]) :
        LET v == Ticked(Acted(i, ahead))
        IN /\ players'   = [players EXCEPT ![i] = v.player]
           /\ bomb_list' = [bomb_list EXCEPT ![players[i].id] = v.bomb]
  BY DEF PlayerTurn
<1> DEFINE w == Acted(i, ahead)
           v == Ticked(w)
<1>2. /\ players[i] \in PlayerType /\ players[i].id = 0
      /\ players[i].has_bomb = 1 /\ players[i].is_placing_bomb = 0
      /\ bomb_list \in [0 .. 3 -> BombType]
  BY DEF TypeOK, OnlyPlanter, PlanterInv
<1>3. w.player.has_bomb = 1 /\ w.bomb = bomb_list[0]
  BY <1>1, <1>2, TilesAheadType, ActedBomb
<1>4. v.bomb = bomb_list[0]
  BY <1>3 DEF Ticked, Out
<1> HIDE DEF v
<1>5. bomb_list' = bomb_list
  BY <1>1, <1>2, <1>4 DEF v
<1>6. players'[a] = players[a]
  BY <1>1, PlayersAssumption DEF TypeOK, v
<1> QED BY <1>5, <1>6

\* A planted bomb's life, step by step.
LEMMA InitLife ==
  ASSUME NEW a \in Players
  PROVE  Init /\ TypeOK => Life(a)!Init
<1> SUFFICES ASSUME Init, TypeOK PROVE Life(a)!Init
  OBVIOUS
<1>1. bomb_list[0].state = "GONE"
  BY DEF Init, NoBomb
<1>2. players[a] \in PlayerType
  BY DEF TypeOK
<1>3. Here(players[a]) \in Cells
  BY <1>2, InCells DEF Here, PlayerType
<1> QED BY <1>1, <1>3 DEF Life!Init, Left, Where

LEMMA NextLife ==
  ASSUME NEW a \in Players
  PROVE  TypeOK /\ TypeOK' /\ OnlyPlanter(a) /\ PlanterInv(a) /\ [Next]_vars
           => [Life(a)!Next]_(Life(a)!vars)
<1> SUFFICES ASSUME TypeOK, TypeOK', OnlyPlanter(a), PlanterInv(a), [Next]_vars
             PROVE  [Life(a)!Next]_(Life(a)!vars)
  OBVIOUS
<1>0. /\ Here(players[a])' = Here(players'[a])
      /\ Left(bomb_list[0])' = Left(bomb_list'[0])
      /\ Where(bomb_list[0])' = Where(bomb_list'[0])
  BY DEF Here, Left, Where
<1>1. ASSUME NEW i \in Players, NEW action \in 0 .. 7, HandleInput(i, action)
      PROVE  UNCHANGED Life(a)!vars
  <2>1. players[i] \in PlayerType
    BY DEF TypeOK
  <2>2. Here(Handled(players[i], action)) = Here(players[i])
    BY <2>1 DEF Handled, Here, PlayerType
  <2>3. /\ players'[i] = Handled(players[i], action)
        /\ i = a \/ players'[a] = players[a]
        /\ UNCHANGED <<bomb_list, turn>>
    BY <1>1 DEF HandleInput, TypeOK
  <2> QED BY <1>0, <2>2, <2>3 DEF Life!vars
<1>2. ASSUME PlayerTurn(a) PROVE Life(a)!Next
  <2>1. bomb_list[0] \in BombType /\ Left(bomb_list[0]) \in Nat
    BY LeftType DEF TypeOK
  <2>2. players'[a] \in PlayerType
    BY DEF TypeOK
  <2>3. Here(players'[a]) \in Cells
    BY <2>2, InCells DEF Here, PlayerType
  <2>4. turn = a /\ (turn' = a) \in BOOLEAN
    BY <1>2 DEF PlayerTurn
  <2>5. Life(a)!Idle \/ Life(a)!Plant \/ Life(a)!CountDown
    BY <1>0, <1>2, <2>1, OwnersTurnCounts, TimersAssumption
       DEF Life!Idle, Life!Plant, Life!CountDown
  <2> QED BY <1>0, <2>3, <2>4, <2>5 DEF Life!Next, Life!OwnersTurn
<1>3. ASSUME NEW i \in Players \ {a}, PlayerTurn(i) PROVE Life(a)!Next
  <2>1. bomb_list' = bomb_list /\ players'[a] = players[a]
    BY <1>3, OthersTurnKeeps
  <2>2. turn # a
    BY <1>3 DEF PlayerTurn
  <2> QED BY <1>0, <2>1, <2>2 DEF Life!Next, Life!OthersTurn
<1>4. CASE UNCHANGED vars
  BY <1>4 DEF vars, Life!vars
<1> QED BY <1>1, <1>2, <1>3, <1>4, PlayersAssumption DEF Next

\* While a single player plants, with any timers, on every board and whatever the others
\* do, its bomb lives as BombLife says: it counts the turns of its owner and nothing else.
THEOREM PlanterBombLife ==
  ASSUME NEW a \in Players
  PROVE  Spec /\ []OnlyPlanter(a) => Life(a)!Spec
<1>1. Init /\ TypeOK => Life(a)!Init
  BY InitLife
<1>2. TypeOK /\ TypeOK' /\ OnlyPlanter(a) /\ PlanterInv(a) /\ [Next]_vars
        => [Life(a)!Next]_(Life(a)!vars)
  BY NextLife
<1> QED BY <1>1, <1>2, PlanterAlways, TypeCorrect, PTL DEF Spec, Life!Spec

\* With one client acting, BombKeepsTime.
THEOREM SoloBombKeepsTime ==
  ASSUME NEW a, Actors = {a}
  PROVE  Spec => BombKeepsTime
<1>0. a \in Players
  BY PlayersAssumption
<1>1. Init /\ TypeOK => \A p \in Actors : Life(p)!Init
  BY <1>0, InitLife
<1>2. TypeOK /\ TypeOK' /\ OnlyPlanter(a) /\ PlanterInv(a) /\ [Next]_vars
        => [\A p \in Actors : [Life(p)!Next]_(Life(p)!vars)]_vars
  BY <1>0, NextLife
<1> QED BY <1>0, <1>1, <1>2, ActorIsPlanter, PlanterAlways, TypeCorrect, PTL
        DEF Spec, BombKeepsTime
=============================================================================
