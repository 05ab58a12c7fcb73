# Verification of bomberman-server

TLA+ models of the bomberman server (C, `src/src/`), the TLC configurations that
check them on small instances, and theorems that TLAPS proves for every value of
their constants.

Run, in this directory:

    tlc -workers 2 -config engine_duel.cfg GameEngine.tla      # engine_*, doc_player_id
    tlc -workers 2 -config lobby_games.cfg MCLobby.tla         # lobby_*, doc_games, doc_one_thread, doc_goodbye
    tlc -workers 2 -config action_log.cfg  MCActionLog.tla     # action_log, doc_number
    tlc -workers 2 -config game_thread.cfg GameThread.tla      # game_thread, doc_broadcast
    tlapm GameEngine_proofs.tla                                # likewise for every *_proofs.tla

`PROJECT.json` lists the runs, the source lines each definition stands for, the
hazards of the code with the properties that watch them, the disagreements found
between the code and its documentation, the theorems, and, for each property, a
mutation of the model that the property detects.

## 1. The system

The server lets clients join games of four players, in two modes. It consists of
one *client handler* thread, which owns the TCP connections, and one thread per
game.

| Part | Source | State | Operations |
|---|---|---|---|
| game engine | `game/game.c`, `bomb.c`, `player.c` | board `grid`, `players_list`, `bomb_list` | `setup_game`, `setup_player`, `player_handle_input`, `update_game` |
| client handler | `bomberman_server.c:377-635` | poll table `clients`, `poll_maxi`, the entry being visited | accept, receive, join, ready, send init, close |
| queue | `server/queue_handler.c` | `cl`, `sv`: the clients and games ever made | `add_client`, `find_client`, `find_server`, `sv_get` |
| seats of a game | `server/server_t.c` | `players[4]`, `players_count`, `running` | `sv_add_player`, `sv_remove_player`, `sv_shutdown` |
| thread of a game | `bomberman_server.c:114-375` (`sv_job`) | `players_fd`, `max`, the two message numbers | wait for four ready players, then loop: receive, apply inputs, update, broadcast |
| log of actions | `bomberman_server.c:85-112, 287-326` | `msgs_clients`, `nb_sent` | log a received action, `find_last_msg` |
| protocol | `protocol/` | none | encode and decode the 16-bit header and the action word |
| display, menu | `render_game`, `menu/menu.c` | terminal | none that the server uses |

How they interact:

* the handler and the game threads share the poll table (each game thread clears
  it when it starts), the client records (`ready`, `sock_fd`, `nb_sent`), the
  seats and the count of each game, and the system's table of descriptors;
* the handler starts the thread of a game when a client joins it and the game's
  `running` is 0; the thread sets `running` itself;
* the game thread calls the engine: inputs through `player_handle_input`, then
  one `update_game`, again and again;
* locks are taken around single lookups and assignments and protect no sequence
  of them; the game threads take none for the seats.

What is hard, and what makes each part correct:

* **Engine.** It is sequential, but one update runs through all the players, each
  step painting cells on a board the previous ones have changed; bombs are
  reached through an index (`id`) which is the same for every player; the board
  is a flat array without border. Correct: nobody leaves the board or stands in a
  wall, walls last, no tile of a player outlives it, the dead do not act, the list of
  an update's changes fits its array; and, as long as one player plants, tiles show its
  bomb, which it gets back in time, and no freed bomb is used. With two planters freed
  bombs are used: a player comes to that only by the turn of the other.
* **Handler, queue and seats.** Descriptors are closed, given again by the system
  and never forgotten by the queue; a join takes all the free seats; a departure
  lowers the bound of the loop it runs in. Correct: counts of seats are exact,
  nobody loses a seat but by leaving, who is told a seat holds it, the table
  watches each open connection at most once, and forgets none before a game clears it.
* **Handler and game threads.** Starting and clearing happen whenever the
  scheduler lets them. Documented, and not the case: several games are played at
  once (starting one clears the table for those who wait for another), and a game has one
  thread.
* **Thread of a game.** Blocking receptions, an unlocked pass over seats that the
  handler fills and empties meanwhile, arrays kept from one pass to the next,
  unbounded logs and counters. Correct: it starts, and with four players who said
  they are ready, polled each at its seat; not the case: it plays as long as they
  stay, and shows them the board.
* **Log of actions.** Datagrams are lost, repeated and reordered; numbers start
  again after 13 bits; the log is searched whole at every turn and memory that was
  never written is within reach. Correct: what is logged stays, an older action
  never comes back, and the log does what one register per seat would do. Not the case:
  a player does what its own client asked for; it does what was asked by a client whose
  seat its number covers bit for bit, or what memory held that the log counts and never wrote.

## 2. Plan

In order of importance for the program:

1. `GameEngine`: the rules of a game. *Done, with proofs.*
2. `Lobby`: handler, queue, seats and start of the games. *Done, with proofs.*
3. `ActionLog`: the actions of the players, from the datagrams to
   `find_last_msg`. *Done, with proofs.*
4. `GameThread`: one game's `sv_job` against the handler, at the grain of its
   reads of a seat. *Done, with proofs.*
5. `Protocol`: fields packed in 16 bits. *Done, as part of `ActionLog`, with the
   round trips proved.*
6. The bytes `update_game` writes to `diff`. *How many, and that they fit: done in
   `GameEngine`, with proof.* What they say is left: they are miscounted and incomplete
   (section 4), so there is no correct reading of them to compare with.
7. An abstract specification and its refinement: `LastAction`, a register per
   seat, implemented by `ActionLog`. `GameSeats`, what is promised of the seats of one
   game, implemented by `Lobby`, for every game, and by `GameThread`, at the grain of
   single reads and writes. `BombLife`, the countdown of a bomb, implemented by
   `GameEngine` as long as one player plants. *Done, with proofs.*
8. Further proofs: every safety property of the runs. *Done.*
9. Left: several game threads against one another at `GameThread`'s grain, which
   share the descriptors they poll when a client holds seats of several games.

## 3. Modules

### `GameEngine`

State: `grid` is `b->grid`, a function from the cells `y*w + x` of the array;
`players` is `players_list` with the fields of `struct player` the engine uses;
`bomb_list[k]` is the bomb the k-th pointer leads to (`GONE` before the first and
after `free`); `turn` is the loop index of `update_game`; `undefined` records that
the program has left its defined behaviour.

* `HandleInput(i, action)` is `player_handle_input`, between two updates
  (`turn = 0`). All eight values of the three bits of an action are applied. With
  `STACKED` a player may receive several actions before an update: `sv_job`
  applies one per *seat*, and a client may hold several seats; without, one.
* `PlayerTurn(i)` is the body of `update_game`'s loop for one player: `Moved`
  (collision, step, death), `Placed` (planting), skipped by the dead (`Acted`);
  then `Ticked` (the bomb's timer and what it paints). Each stage maps
  `[player, grid, bomb]` to the next, in the order of the code.
* The array has no border: `Cell` of a coordinate beyond a side is a cell of the
  neighbouring row, as in the code. Reading outside the array gives any tile
  (`TilesAhead`), an explosion that reaches outside may write there
  (`Damage`); both are what a build can do. After a write outside the array or the
  use of a freed bomb the model stops (`undefined`).
* `PLAYER_COUNT`, fixed to 1..4, is `player_count` once `sv_job` has added the players,
  *if it started from 0*: `setup_game` leaves it as `malloc` gave it (`game.c:10-14`), and
  with anything else `game_add_player` (306) refuses players or writes outside
  `players_list`, after which nothing is known of the game. Four players are added.
* All players have id 0, since `setup_player` never assigns it: they share
  `bomb_list[0]`.
* `diff_count` is the index `update_game` writes its list of changes at, and
  `Written` the most that one turn adds: three bytes per change, four and five for
  the cells below and above an explosion (`game.c:220, 228`). `DIFF_SIZE` is the size
  of the array, one byte per cell in the code. `Counted` starts again from 0 with
  each update.
* Left out: what the bytes of `diff` and `whole` hold, teams, `owner_id`, the ncurses
  drawing, and the memory of a freed bomb.

### `Lobby`, and `MCLobby` for TLC

State: `clients` is the poll table, `poll_maxi` its highest entry, `watched` the
table as it was given to the `poll` in progress (a clearing during the call is not
seen by it); `pc`, `poll_i`, `temp` say where the handler is; `open` is the set of
accepted descriptors not yet closed; `cl`, `cl_count`, `sv`, `sv_count` are the
queue, of which the code only ever appends; `hearts[g]` counts the threads of game
`g` in each phase (created, running, waiting for players, playing).

| Action | Code |
|---|---|
| `PollReturns`, `NoAccept`, `Accept`, `AcceptFull`, `AcceptFails` | poll and accept, `bomberman_server.c:386-439` |
| `Visit`, `PollAgain` | the loop over the entries, 442-453 and its end |
| `EndOfStream`, `Reject` | the receive loop and its error branches |
| `Join`, `Ready`, `Chat` | the switch over the code and what follows it, 497-557, with `find_server`, `sv_add_player` and `pthread_create` |
| `SendInit` | 575-608 |
| `CloseAndFree`, `CloseStumbles` | 564-573 with `sv_remove_player`; the latter when its loop meets an empty seat |
| `Unregistered`, `LostGame` | a null record or a game that is not in the queue is used |
| `SvJobRuns`, `SvJobClears`, `SvJobStarts`, `SvJobEnds`, `SvJobBreaks` | `sv_job`: the assignment of `running`, the clearing of the table, the start of the game, `sv_shutdown`, and the use of empty or freed seats |

A step of the handler is what it does between two accesses to the table which a
clearing may separate, so a clearing falls between poll and accept, accept and the
visits, the reading of an entry and the writing of it.

What it abstracts:

* messages are what the switch makes of them; contents, teams and addresses are
  left out. The team counters are never initialised and nothing depends on them;
* an error and a hang-up reported by poll are one outcome, both lead to
  `close_and_free`; a closed descriptor in the table is reported by poll with a
  flag the handler does not look at, and so not reported here;
* the `continue` after a lone new connection only spares a walk over entries with
  nothing reported; sleeping is left out; `revents` of unvisited entries are reset
  when poll is called again, which overwrites them;
* a game that found no place in the queue (`NoGame`) has a thread too, followed
  until it has cleared the table, the last thing it does to the handler;
* one pass of a thread over the seats is one step (`SvJobStarts`, `SvJobEnds`);
  `sv_shutdown` is one step, and its second call, or the use of the seats it has
  freed, is `SvJobBreaks`;
* a null or wild pointer, or a write behind a table, stops the model
  (`pc = "broken"`); a failing `accept` ends the program (`pc = "exit"`). The
  second unlock of `add_client` releases a mutex nobody else holds at that moment
  in this model's grain and has no modelled effect.

### `Protocol`

The two 16-bit words as the encoders build and the decoders read them: a header is 13
bits of code, 2 of identifier, 1 of team; an action is 13 bits of number, 3 of action.
Encoding clears the header first and keeps the low bits of a wide value;
`decode_protocol_header` *ors* the bits of the identifier into whatever its variable
held (`IdOf` takes that as its second argument) and assigns the team's.

### `ActionLog`, and `MCActionLog` for TLC

State: `holder` is `sv->players` by seat; `sent` is what each client has sent, in
order; `msgs_clients[i][k]` is the k-th element of the row of seat `i`, with the
message's client and place in `sent` beside its number and action (both only for the
properties); `nb_sent[c]` is in the client's record and so shared by the rows of a
client with several seats; `ac` is what was last applied.

* `Send` is the client program: one more message, for the seat it was told, the
  last of those it holds (`Lobby` shows how it gets several). Its numbers start from
  `FIRST` and go on modulo 8192.
* `Receive(c, k)` is one turn of the game loop: *any* message sent so far arrives,
  so that messages may be lost, repeated and reordered; its two words are encoded and
  decoded by `Protocol`, it is logged and an action applied for every seat. The
  identifier is or-ed into what `decoded_id` held (`IdGarbage`, any of the 256 values of
  its type), which the code never clears.
* `ReceiveOutside`: the seat is none, its count is not a slot of its row, or another row
  is counted beyond its end, where `find_last_msg` reads (`ReadsInside`); the model stops.
* `FindLastMsg` states what the loop of `find_last_msg` returns: the action of the
  second message numbered 0 if there is one, else of the first with the highest
  number above 0, else 0.
* Unwritten elements hold `RowGarbage`, a new record's count `NbGarbage`, any integer.

Left out: datagrams shorter than an `action_data_msg`, which the loop at line 295
would glue together, and failing receptions, which shut the game down.

### `LastAction`

What the log is for, said without a log: per seat a register with the highest number
accepted, the action in force, and how often number 0 has come (twice at most). A turn
leaves a register alone, or raises its number, or counts a 0; after the second 0
nothing changes it. `ActionLog` implements it under `Registers`, whose mapping
`RegisterOf` reads a register off a row.

### `GameThread`

One game, its thread and the handler, where `Lobby` takes a whole pass over the seats
as one step. State: `players`, `players_count`, `running` of the game; `ready` and
`link` per client (watched by the handler, handed to the thread, closed; a client is a
record, for as long as `find_client` returns it); `hpc`,
`temp`, `hi`, the operation the handler is at, its client and its seat; `pc`, `i`, where
the thread is; `nb_ready`, `max`, `players_fd`, `nb_outgoing_chat`, `end_game` are
`sv_job`'s own variables; `turns` and `boards` count what the game loop has done.

| Action | Code |
|---|---|
| `Visit`, `VisitCleared` | the handler receives from a connection; from the descriptor 0 of a cleared entry |
| `Reconnect` | a new connection is given the descriptor of a closed one, and so its record, `queue_handler.c:123-138` |
| `JoinSeat`, `JoinCount`, `JoinEnds` | `sv_add_player`, `server_t.c:86-95`: a seat, then the count; then the test of `running` and `pthread_create` |
| `Ready` | the record is marked and the connection leaves the poll table |
| `LeaveSeat`, `LeaveCount`, `LeaveStumbles`, `LeaveEnds` | `sv_remove_player`, `server_t.c:109-117`: a seat, then the count, which is the bound of the loop; an empty seat is read |
| `SvJobRuns`, `SvJobClears` | the start of `sv_job` |
| `ScanTest`, `ScanLook`, `ScanTake`, `ScanBreaks`, `ScanEnds` | the pass over the seats: the test of the bound, the first and the second reading of the seat, the end of the pass |
| `Setup` | `setup_player` and `game_add_player` for each seat |
| `Poll`, `PollBeyond`, `Serve`, `ServeBreaks`, `EndOfStream` | the poll of the players and the loop over what it reports, 193-280 |
| `Turn`, `TurnBreaks` | the action message, `update_game` and the branch over `ongoing`, 282-339 |

What it abstracts: there is one thread. The handler tests `running` as the code does, and
goes on; the second thread that a second join may create before the first has run is not
followed here, but in `Lobby`, which has several. A client has one
connection at a time; a reception waits for a whole message; what `setup_game`, the log and the
engine do is in the other modules. `pc = "broken"` is a null pointer followed or an
array left, `pc = "spin"` the receive loop on an ended stream, which never returns.

### `GameSeats`

What everybody who touches the seats of one game promises together: while it fills, a
client at a time takes free seats (`Take`), and gives seats back unless it has said it is
ready (`Leave`), which it cannot take back (`GetReady`); the game starts when its four
seats are taken by ready clients (`Start`), and ends for good, leaving its seats or freeing
all four (`End`). `Early` are the clients that malloc's garbage may count as ready.
`PlayedByReady` and `PlayersStay` are what one wants of it: who plays has said so, and keeps its seat until
the end. `Lobby` implements it for each game `g` (`Game(g)`, with the phase read off `freed` and
`hearts`), `GameThread` for its one (`Game`).

### `BombLife`

What `update_game` promises of the bomb of the only player who plants: out for `LIFE`
turns of its owner, in the cell its owner stood in, and back. `Life(p)` in `GameEngine`
maps it: the timer of each stage of a bomb plus the turns of the stages to come (`Left`),
`LIFE` being `FUSE + BLAST + 2`, since `update_bomb` leaves a stage in the update that
finds its timer at 0.

### `GameEngine_proofs`, `Lobby_proofs`, `LobbyTable_proofs`, `LobbySeats_proofs`, `ActionLog_proofs`, `GameThread_proofs`

The theorems of section 6.

## 4. Runs

| Run | Bounds | Shows |
|---|---|---|
| `engine_duel` | 3 x 4 board, 2 players acting, fuse 1, blast 0, an array of 49 bytes | `TypeOK`, `WallsStand`, `NoGhosts`, `DiffFits`, `DeadDoNotAct`, `StaleByAnother` |
| `engine_solo` | 6 x 5 board, 4 players of whom the fourth acts, stacked actions, fuse 2, blast 2 | `TilesMatchBomb`, `BombOutIsLive`, `BombKeepsTime`, `BreaksOnlyAtEdge`, `DiesOfExplosion` |
| `lobby_games` | table of 2, 1 descriptor, records of 2, 2 games, up to 2 starting threads of each, any garbage in a new record | `TypeOK`, `SeatCountExact` |
| `lobby_crowd` | table of 3, 2 descriptors, 1 game, 1 starting thread | `AwaitedSeatIsHeld`, `EntriesWatchOpen`, `NobodyForgotten`, `OnlyLeaversLoseSeats`, `SeatsAsPromised` |
| `action_log` | 2 seats, 2 clients, numbers from 8190, rows of 3, 3 messages each and 4 in all, two kinds of garbage in the rows, identifiers decoded over 0 or 1, counts that start from 0 or beyond the row | `TypeOK`, `LoggedAsSent`, `AppliedWasAsked`, `LogOnlyGrows`, `NeverBackwards`, `FrozenAfterSecondZero`, `ActsAsRegisters` |
| `game_thread` | 3 clients, one with garbage in its record, 9 chat messages | `TypeOK`, `StartsReady`, `GameStarts`, `SeatsAsPromised` |

Why the bounds are enough. A wall stands in the 3 x 4 board, players start at two
of its corners, so that they meet, block and burn each other, wrap round the short rows, and
both use the shared slot; with a fuse of one update and fire that lasts until the
bomb's next turn, a bomb passes through all its states and both players act while it
burns (fire that is lit again and again is in the 6 x 5 runs). The 6 x 5 board has interior walls and cells whose whole
cross lies on the board, and its acting player starts in the corner where all
coordinates are highest. A table of 3 entries holds two connections, which suffices for
one to be served under the other's former descriptor, and is full with them; one
connection closed and accepted again, with records of 2, passes through the full
queue; two games are a game that suits, one that does not, and none left.
Numbers from 8190 have two values above 0 to compare and start again from 0 with the
third message; a row of three holds that 0 twice, with a message before, between or
after them; two seats are held by one client or by two, and a stale bit 0 leads a message
for seat 0 to the row of seat 1. `MAX_SENT` bounds what a client
sends, `MAX_ALL` what all of them send, `LOG_SIZE` what is logged. In `game_thread` one
client may take all the seats (the code has it so), leave, and see them taken by two
others while the thread is anywhere in its pass: three clients are one that leaves and
two that come. Nine chat messages (`TO_TRANSMIT`, 100 in the code) are what two
turns take in and one more, so that the array is full in the middle of the third. `DIFF_SIZE = 49` is the least
that `DiffAssumption` allows for two players; the code's array has 450 (30 x 15).

`MAX_HEARTS` bounds the threads of one game that have not cleared the table yet,
through the guard of `Join`. A listed game's `running` stays 1 from the first run of its
thread until it is freed, so a second thread of it can only come from joins before that
run: `lobby_games` and `doc_one_thread` allow two, `lobby_crowd` and `doc_games` one. The
theorems about `Lobby` hold for any bound.

`OnlyLeaversLoseSeats` is checked, and meant, for one game and `ready` clear in new
records; section 6 says how it fails otherwise.

Descriptors are interchangeable, hence the
symmetry (used only where there is no fairness).

`CHECK_DEADLOCK FALSE` everywhere: the models stop where the program leaves its
defined behaviour or has taken in all the messages a bound allows, and the handler may exit.

That a thread never finds its game empty (`players_count = 0`, which would have it free
the seats twice, `bomberman_server.c:156`) is *not* a property of the code, and no run claims
it: it holds as long as nobody is given the descriptor of a connection that was closed,
since a client that leaves stops at the bound it lowers and keeps its last two seats; but the next
connection under that descriptor is served with its record (`Reconnect`), leaves too, and takes
those seats back, all before the thread clears the table. `ScanBreaks` is what follows.

The six runs of statements of the documentation fail as described in `findings`:
for the engine (`doc_player_id`), the lobby (`doc_games`, `doc_one_thread`, `doc_goodbye`), the
log (`doc_number`) and the thread of a game (`doc_broadcast`); each is a run of one
property that TLC refutes with a short trace.

Other disagreements and errors met while modelling, and too plain for a run:

* action 1 is documented as east (`protocol_client_messages.h:52`) and is `LEFT`
  (`structs.h:11`);
* a tile documented as "0 if EMPTY" (`protocol_server_messages.h:62`) may hold a living
  player, whom nobody has drawn yet or whose cell `update_game` cleared with a bomb
  (`game.c:242`); another player then enters that cell (`game.c:148`);
* two columns are "reserved for border" (`game.c:19`) and none is drawn: the flat
  index of a cell beyond a side is a cell of the next row (`game.c:204`);
* a changed tile is documented as line then column
  (`protocol_server_messages.h:88`) and written as column then line (`game.c:153`); the
  cell a player leaves is not listed, and one or two stray bytes precede the
  cells below and above an explosion (`game.c:220, 228`), which shifts all that follows;
* an action may be logged for another player than its sender, since `decoded_id` is
  not initialised (`bomberman_server.c:312`); `LoggedAsSent` says for which, and
  `AppliedWasAsked` that this row's player then acts on it;
* the comment "Case POLLIN, le client est pret a etre ecoute" (`bomberman_server.c:208`)
  stands in a branch that the `|` of line 198 has every client enter, ready or not, and
  wait there in a blocking `recv`; the branch that announces the end of a game, line 242,
  is not reached, and the 101st chat message of a game is written past `to_transmit`;
* `2^16` is an exclusive or (`bomberman_server.c:345`), in code that is not reached.

## 5. Fairness

* `Lobby!FairSpec`: weak fairness of `Loops`, what the handler does without waiting
  for a peer. `poll` and the receptions may wait for ever and are not included, but
  the turn of the receive loop that reads 0 bytes is. `doc_goodbye` shows that the
  handler stays there: every step of that loop leaves it where it was.
* `GameThread!FairSpec`: weak fairness of `Waits`, what the thread does before the game
  is played: it is scheduled, sleeps a second between two passes and waits for nobody.
  `GameStarts` needs no more. The game loop waits for messages and is not included, nor
  is the handler.

Nothing is claimed to happen eventually in the engine: each update waits for messages of the
four clients, and the game loop leaves its array of chat messages after 25 turns, before a
bomb of 100 updates would explode.

## 6. Proofs

From the assumptions of the modules alone (a board of at least 2 x 2, at most four players,
natural timers; disjoint descriptors, tables of at least 2 and 1 entries; any number
of clients and rows of any size):

* `TypeCorrect`. One lemma per stage (`MovedType`, `PlacedType`, `TickedType`)
  from stage type to stage type, chained for `PlayerTurn`.
* `DeadRest` (`DeadDoNotAct`), from type correctness.
* `NeverGhosts`. `NoGhosts` is inductive with `TypeOK`: each stage keeps "a tile of
  player i is under player i, alive" for the player it treats and touches no
  other's tile but to erase it.
* `WallsStandForever`. `WallsStand` is not inductive: planting paints the cell
  under the player, whatever it is. `WallsInv` adds `NobodyInWalls` (no player, and
  so no bomb that is out, stands in a wall); it rests on `RowsApart`, the
  injectivity of the flat index for coordinates of the board, and on the spawns
  being outside the walls on every board.
* `DiffAlwaysFits`. One turn adds at most 24 bytes (`WrittenType`: a move, a
  plant, and the 18 of an explosion), so `TypeOK`, which has `diff_count <= 24 * turn`,
  is enough.
* `OwnTurnsLeaveNoStale` (`StaleByAnother`), with no hypothesis on who plants: a player that
  plants has a bomb afterwards (`PlantedStays`), and its turn takes a bomb off only to give
  it back (`TurnLeavesStale`); so only a turn that gives the shared bomb back to another
  leaves a player with a freed one.
* `PlanterBombIsLive`, for any number of acting players under the hypothesis
  `[]OnlyPlanter(a)`: no record but `a`'s ever asks for a bomb (`is_placing_bomb`). It is a
  hypothesis on what players do, not on the code: players share slot 0, and with two of
  them planting the property fails, so this is where it holds. `PlanterInv(a)`: the others
  still have their bomb, and `has_bomb = 0` of `a` holds exactly while slot 0 holds one.
* `PlanterBombLife`, `SoloBombKeepsTime`, the refinement of `BombLife` under the same
  hypothesis, which a single actor satisfies (`ActorIsPlanter`). `UpdateCounts`: `update_bomb`
  takes one from what `Left` makes of a bomb, whichever stage it leaves; `TickCounts` and `OwnersTurnCounts` carry that
  through the turn, and `OthersTurnKeeps` says that the others' turns, which reach the same slot, leave it alone.
* `PlanterBreaksAtEdge`. `CrossInBoard`: from a cell of an inner row all four cells of the cross
  lie in the array, those beyond a side column included, by the arithmetic of the flat index; with
  `PlanterInv`, no freed bomb is used either. It needs `FUSE > 0`: with 0 a bomb explodes in the turn that plants
  it, before which it was not out.
* `PlanterKillsByExplosion`, under the same hypothesis. `PlanterMayShow`: whoever walks, no tile 3 or 4
  is shown but of the bomb in slot 0 (`MayShow` is inductive with `PlanterInv`: a step or a death only removes
  such tiles); `TurnKills`: a turn kills only its player, and by fire.
* `SoloBombIsLive`, `SoloBoardShowsBomb`. With one acting player the others also stay where they
  started. `ShownInv` adds what tile 3 and tile 4 show before the
  actor's turn; the bomb is drawn again in that very turn, after the player that may have
  been drawn over it. The stages of the turn are chained with the weaker `MayShow`.
* `LobbyTypeCorrect`, `SeatsCounted`. `SeatsInv` is `TypeOK`, `SeatCountExact` and
  "only entry 0 holds the listening descriptor". One lemma per action; the
  arithmetic is in `SeatedExact`, `VisitedExact`, `UnseatedExact`: a join adds as
  many as it seats, each turn of the departure loop subtracts one exactly when it
  empties a taken seat.
* `WatchesOpen`, `AwaitedSeatHeld`, `OnlyLeavers`
  (`LobbyTable_proofs`). `TableInv`: entries with a descriptor name open connections
  and differ, and after a clearing no entry is free and the handler holds no
  connection it could write back (`StaysEmpty`). `RecordsInv`: records have a
  descriptor, seats hold records, and games not yet listed are empty and have no thread. `AwaitedInv`: whoever is
  watched for its answer holds (`Holds`) the seat in its record; the departures that could
  take it away name another descriptor. `ReadyInv`: a ready connection is left to its game, no
  entry watches it (`Left`), so that a game that ends closes none the handler is at. `OnlyLeavers` is proved for records that start as not
  ready (`ReadyGarbage = {0}`), as memory fresh from the system does. The hypothesis is needed, from
  two games and three records on (TLC, with the bounds of `lobby_crowd` but two games and
  `ReadyGarbage = {1}`): a game of clients that never said they are ready starts and ends, closing the
  connection the handler is about to close and unseat from another game.
* `ForgetsNobody` (`LobbyTable_proofs`). `NobodyForgotten` is inductive with `SeatsInv` and
  `TableInv`: a step that frees the entry of an open connection closes it or has just
  marked its record ready (`ReadyForgetsNobody`; the record `find_client` returns need not be
  the connection's own), and `accept` fills a free entry (`EntryAdded`). `StillEarly`: no clearing has
  happened if none has by the end of the step.
* `GamesAsPromised`, `EachGameAsPromised`, `PlayersStaySeated` (`LobbySeats_proofs`), the refinement of
  `GameSeats` for every game, as an action property over all of them and as `Spec => Game(f)!Spec` for each. It
  rests on the invariants above and on `GameInv`: whoever has a seat is the first record of its
  descriptor, so that a departure takes the seats of one client only; a game not in the queue is not
  over; and when the handler is about to serve a message, a game that is played has no
  free seat to give. `PlayersStaySeated` then follows from `GameSeats` alone.
* `LogTypeCorrect`: numbers and actions keep to their widths, logged and applied. Of a count
  it says that it is an integer, for nothing bounds one.
* `LogKept`, `NumbersKept`, `SecondZeroFreezes`. All rest on
  `RowsExtended`: a step leaves the logged part of every row as it was (`Extends`),
  because a message goes to the slot at the row's count, and a count shared by
  several rows only grows. From it, `SecondZeroKept` (a second zero stays the second
  one) and `SecondZeroUnique`; the last theorem also needs that what is applied is
  what `find_last_msg` makes of the row (`AppliedIsFound`).
* `LoggedFaithfully`. `IdRoundTrip`, `HeaderRoundTrip` and `ActionRoundTrip` state what
  decoding makes of an encoded word, whatever the number; the bits that the variable held
  are why the row is only known to cover the sender's seat.
* `AppliesAskedOrGarbage` (`AppliedWasAsked`), whatever `decoded_id` and the counts held: an
  element of a row was logged from some client for that row, and then carries what it asked
  for, or still is what memory held (`UnwrittenIsGarbage`); and `find_last_msg` answers with
  one that is counted, or 0. `AloneAppliesAsked`: the garbage is out for a player whose client
  has one seat and whose count started from 0, whatever the other counts and `decoded_id` held
  (`RowWritten`: what is counted in its row was written).
* `LogIsRegisters`, the refinement `Spec => Registers!Spec`. `SingleZero` and
  `HighestExists` show that the sets `RegisterOf` chooses from are not empty when they
  should not be (a least-element argument over the naturals), `RegisterNext` that one
  more message changes the register as `Accepts` allows.
* `ThreadTypeCorrect`, `StartsWithReady`. `ThreadInv` is `TypeOK`;
  `CountInv`, the count is that of the taken seats but for the update in progress;
  `PassInv`, a pass that has counted as many players as seats has put each of them in
  its place, and nobody who said it is ready is in the handler's reach.
* `GameAsPromised`, the refinement of `GameSeats` by the interleaved reads and writes of one
  thread and the handler. `PromiseInv` adds `JoinInv` to `ThreadInv`: in a pass that has found everybody ready so far,
  and while the game is played, a seat that was counted holds whom it was counted for, or nobody if that client
  leaves (`StillThere`), and it is taken if a join is under way; so no single write of a join changes it
  after `Start`.

Only model-checked: the liveness property `GameStarts`, which is beyond the prover. The runs that refute a statement of the documentation have no theorem.

## 7. Not modelled

* What the bytes of `diff` and of the whole board hold; the broadcasts, the end-of-game and
  chat messages of the server, their encodings (`protocol_server_messages.c`) and their
  numbers: no turn of the game loop reaches them, and where `encode_protocol_header` is
  called for a chat message its arguments are not initialised.
* `remove_client`, `remove_server`, `create_client`: never called.
* The team counters, never initialised, on which nothing depends.
* Datagrams shorter than a message, and a second descriptor of a client within
  `GameThread`.
* The terminal (`render_game`, `menu.c`), sockets and ports at boot: system calls in a row,
  no state the rest depends on.
