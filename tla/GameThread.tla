----------------------------- MODULE GameThread -----------------------------
(***************************************************************************)
(* The thread of one game (sv_job), from its start to the turns of its     *)
(* game loop, at the grain of its accesses to the seats, with the client   *)
(* handler that fills and empties those seats meanwhile: neither takes a   *)
(* lock that the other takes (sv_remove_player none, sv_job none while it  *)
(* waits).                                                                 *)
(*                                                                         *)
(* The thread clears the poll table when it starts: the handler then only  *)
(* finishes the visit it is at.  Lobby models the table, descriptors and   *)
(* several threads; here there is one thread, and a client stands for the  *)
(* connections that are given its descriptor, one after the other.         *)
(*                                                                         *)
(* pc = "broken" says that the program has left its defined behaviour, and *)
(* pc = "spin" that the thread calls recv for ever on an ended stream.     *)
(***************************************************************************)
EXTENDS Integers

CONSTANTS
  Clients,      \* the connections whose record names this game
  NULL,         \* an empty seat
  Dirty,        \* clients whose record came from malloc with ready set
  TO_TRANSMIT   \* chat messages to_transmit has room for, 100

ASSUME ThreadAssumption ==
  /\ NULL \notin Clients
  /\ Dirty \subseteq Clients
  /\ TO_TRANSMIT \in Nat

VARIABLES
  players, players_count, running,  \* of the game
  ready,             \* per client
  link,              \* per client: the handler watches its connection, has
                     \* handed it to the thread, or has closed it
  hpc, temp, hi,     \* the handler: its operation, client and seat
  pc, i,             \* the thread
  nb_ready, max, players_fd,
  nb_outgoing_chat, end_game,
  turns, boards      \* turns of the game loop done, boards sent

seats   == <<players, players_count>>
peers   == <<ready, link>>
handler == <<hpc, temp, hi>>
scan    == <<nb_ready, max, players_fd>>
loop    == <<nb_outgoing_chat, end_game, turns, boards>>
thread  == <<running, pc, i, scan, loop>>
vars    == <<seats, peers, handler, thread>>

Seats == 0 .. 3

Playing == {"setup", "poll", "serve", "udp"}

-----------------------------------------------------------------------------

Init ==
  /\ players = [k \in Seats |-> NULL] /\ players_count = 0 /\ running = 0
  /\ ready = [c \in Clients |-> IF c \in Dirty THEN 1 ELSE 0]
  /\ link  = [c \in Clients |-> "watched"]
  /\ hpc = "idle" /\ temp = NULL /\ hi = 0
  /\ pc = "off" /\ i = 0
  /\ nb_ready = 0 /\ max = 0 /\ players_fd = [k \in Seats |-> NULL]
  /\ nb_outgoing_chat = 0 /\ end_game = -1 /\ turns = 0 /\ boards = 0

Alive == pc # "broken"

Breaks ==
  /\ pc' = "broken"
  /\ UNCHANGED <<seats, peers, handler, running, i, scan, loop>>

-----------------------------------------------------------------------------
(* The client handler *)

HandlerAt(op) == Alive /\ hpc = op

HandlerGoes(op, seat) == hpc' = op /\ hi' = seat /\ temp' = temp

\* The poll table has not been cleared.
Watching == pc \in {"off", "created", "running"}

\* The handler reads a message of a connection it watches, or the end of it.
Visit(c, op) ==
  /\ HandlerAt("idle") /\ Watching /\ link[c] = "watched"
  /\ op = "join" => players_count < 4
  /\ hpc' = op /\ temp' = c /\ hi' = 0
  /\ UNCHANGED <<seats, peers, thread>>

\* A new connection is given the descriptor of a closed one: find_client returns the
\* record of that one.
Reconnect(c) ==
  /\ HandlerAt("idle") /\ Watching /\ link[c] = "closed"
  /\ link' = [link EXCEPT ![c] = "watched"]
  /\ UNCHANGED <<seats, ready, handler, thread>>

\* An entry of the cleared table names descriptor 0, which has no client.
VisitCleared == HandlerAt("idle") /\ ~Watching /\ Breaks

\* sv_add_player: the next seat, if it is free, then the count.
JoinSeat ==
  /\ HandlerAt("join") /\ hi \in Seats
  /\ IF players[hi] = NULL
     THEN players' = [players EXCEPT ![hi] = temp] /\ HandlerGoes("count", hi)
     ELSE players' = players /\ HandlerGoes("join", hi + 1)
  /\ UNCHANGED <<players_count, peers, thread>>

JoinCount ==
  /\ HandlerAt("count")
  /\ players_count' = players_count + 1
  /\ HandlerGoes("join", hi + 1)
  /\ UNCHANGED <<players, peers, thread>>

\* A game whose thread has not run gets one.  Where one is about to run, that is a second
\* thread of the game, which Lobby models and this module does not.
JoinEnds ==
  /\ HandlerAt("join") /\ hi = 4
  /\ pc' = IF running = 0 /\ pc = "off" THEN "created" ELSE pc
  /\ HandlerGoes("idle", 0)
  /\ UNCHANGED <<seats, peers, running, i, scan, loop>>

\* Mutant: the connection stays in the poll table.
Handed_Not(c) == link

Handed(c) == [link EXCEPT ![c] = "handed"]

Ready ==
  /\ HandlerAt("ready")
  /\ ready' = [ready EXCEPT ![temp] = 1]
  /\ link'  = Handed(temp)
  /\ HandlerGoes("idle", 0)
  /\ UNCHANGED <<seats, thread>>

\* sv_remove_player: the next seat below the count, which it lowers.
LeaveSeat ==
  /\ HandlerAt("leave") /\ hi < players_count /\ players[hi] # NULL
  /\ IF players[hi] = temp
     THEN players' = [players EXCEPT ![hi] = NULL] /\ HandlerGoes("uncount", hi)
     ELSE players' = players /\ HandlerGoes("leave", hi + 1)
  /\ UNCHANGED <<players_count, peers, thread>>

LeaveCount ==
  /\ HandlerAt("uncount")
  /\ players_count' = players_count - 1
  /\ HandlerGoes("leave", hi + 1)
  /\ UNCHANGED <<players, peers, thread>>

LeaveStumbles ==
  /\ HandlerAt("leave") /\ hi < players_count /\ players[hi] = NULL
  /\ Breaks

LeaveEnds ==
  /\ HandlerAt("leave") /\ hi >= players_count
  /\ link' = [link EXCEPT ![temp] = "closed"]
  /\ HandlerGoes("idle", 0)
  /\ UNCHANGED <<seats, ready, thread>>

-----------------------------------------------------------------------------
(* sv_job waits for its players *)

SvJobRuns ==
  /\ pc = "created"
  /\ pc' = "running" /\ running' = 1
  /\ UNCHANGED <<seats, peers, handler, i, scan, loop>>

\* Mutant: the count goes on from one pass to the next.
ReadyAtFirst_Kept == nb_ready

\* The number of ready players a pass starts from.
ReadyAtFirst == 0

NextPass ==
  /\ nb_ready' = ReadyAtFirst
  /\ pc' = "scan" /\ i' = 0
  /\ UNCHANGED <<max, players_fd>>

SvJobClears ==
  /\ pc = "running"
  /\ NextPass
  /\ UNCHANGED <<seats, peers, handler, running, loop>>

\* The test of the loop over the seats.
ScanTest ==
  /\ pc = "scan"
  /\ pc' = IF i < players_count THEN "look" ELSE "rest"
  /\ UNCHANGED <<seats, peers, handler, running, i, scan, loop>>

\* Mutant: whoever is seated counts.
IsReady_Seated(c) == TRUE

IsReady(c) == ready[c] = 1

\* A descriptor is never 0, the count of players is not lowered here.
ScanLook ==
  /\ pc = "look" /\ players[i] # NULL
  /\ IF IsReady(players[i])
     THEN pc' = "take" /\ i' = i
     ELSE pc' = "scan" /\ i' = i + 1
  /\ UNCHANGED <<seats, peers, handler, running, scan, loop>>

\* The seat is read again.
ScanTake ==
  /\ pc = "take" /\ players[i] # NULL
  /\ players_fd' = [players_fd EXCEPT ![i] = players[i]]
  /\ nb_ready' = nb_ready + 1
  /\ max' = IF max <= 4 THEN max + 1 ELSE max
  /\ pc' = "scan" /\ i' = i + 1
  /\ UNCHANGED <<seats, peers, handler, running, loop>>

\* The seat read is empty, or a game found empty is shut down, twice.
ScanBreaks ==
  /\ \/ pc \in {"look", "take"} /\ players[i] = NULL
     \/ pc = "setup" /\ i < players_count /\ players[i] = NULL
     \/ pc = "rest" /\ players_count = 0
  /\ Breaks

\* Mutant: the entries of players_fd are counted, over all the passes.
Enough_Entries == max = 4

Enough == nb_ready = 4

ScanEnds ==
  /\ pc = "rest" /\ players_count > 0
  /\ IF Enough
     THEN pc' = "setup" /\ i' = 0 /\ UNCHANGED scan
     ELSE NextPass
  /\ UNCHANGED <<seats, peers, handler, running, loop>>

Setup ==
  /\ pc = "setup"
  /\ IF i < players_count
     THEN players[i] # NULL /\ pc' = pc /\ i' = i + 1
     ELSE pc' = "poll" /\ i' = 0
  /\ UNCHANGED <<seats, peers, handler, running, scan, loop>>

-----------------------------------------------------------------------------
(* The game loop *)

Poll ==
  /\ pc = "poll" /\ max = 4
  /\ pc' = "serve" /\ i' = 0
  /\ UNCHANGED <<seats, peers, handler, running, scan, loop>>

\* max has grown at every pass: poll reads past players_fd.
PollBeyond == pc = "poll" /\ max > 4 /\ Breaks

\* An or where an and was meant: whatever poll has reported, the thread reads.
Listens(revents) == TRUE

\* A whole chat message of the client is waited for and kept; the end of the loop,
\* and the branch of a client that only may be written to.
Serve(revents) ==
  /\ pc = "serve"
  /\ IF i = max
     THEN pc' = "udp" /\ UNCHANGED <<i, nb_outgoing_chat>>
     ELSE /\ revents # "HUP"
          /\ Listens(revents) => nb_outgoing_chat < TO_TRANSMIT
          /\ nb_outgoing_chat' = IF Listens(revents) THEN nb_outgoing_chat + 1
                                 ELSE nb_outgoing_chat
          /\ i' = i + 1 /\ pc' = pc
  /\ UNCHANGED <<seats, peers, handler, running, scan, end_game, turns, boards>>

\* The message is written past to_transmit, or its text from and to pointers that no
\* one set; or the client hung up or its socket failed, the game is shut down and its
\* freed seats are used.
ServeBreaks ==
  /\ pc = "serve" /\ i < max
  /\ Breaks

EndOfStream ==
  /\ pc = "serve" /\ i < max
  /\ pc' = "spin"
  /\ UNCHANGED <<seats, peers, handler, running, i, scan, loop>>

HasGap == \E k \in Seats : k < players_count /\ players[k] = NULL

\* logic->ongoing, which setup_game alone assigns.
Ongoing == 0

\* A whole action message is waited for, the players and the bombs are updated.
Turn ==
  /\ pc = "udp" /\ ~HasGap
  /\ turns' = turns + 1
  /\ IF Ongoing = 1
     THEN boards' = boards + 1 /\ end_game' = end_game
     ELSE boards' = boards /\ end_game' = 1
  /\ pc' = "poll"
  /\ UNCHANGED <<seats, peers, handler, running, i, scan, nb_outgoing_chat>>

\* The socket fails, the message names no seat, or the update of the game breaks.
TurnBreaks == pc = "udp" /\ Breaks

-----------------------------------------------------------------------------

Handler ==
  \/ \E c \in Clients, op \in {"join", "ready", "leave"} : Visit(c, op)
  \/ \E c \in Clients : Reconnect(c)
  \/ VisitCleared
  \/ JoinSeat \/ JoinCount \/ JoinEnds \/ Ready
  \/ LeaveSeat \/ LeaveCount \/ LeaveStumbles \/ LeaveEnds

\* What the thread does without waiting for a message.
Waits ==
  \/ SvJobRuns \/ SvJobClears
  \/ ScanTest \/ ScanLook \/ ScanTake \/ ScanBreaks \/ ScanEnds
  \/ Setup

Plays ==
  \/ Poll \/ PollBeyond
  \/ \E revents \in {"NONE", "IN", "OUT", "HUP"} : Serve(revents)
  \/ ServeBreaks \/ EndOfStream
  \/ Turn \/ TurnBreaks

Next == Handler \/ Waits \/ Plays

Spec == Init /\ [][Next]_vars

\* The thread is scheduled; it sleeps a second between two passes.
FairSpec == Spec /\ WF_vars(Waits)

-----------------------------------------------------------------------------
(* Properties *)

\* Every variable has its type; the index of a seat the thread or the handler is
\* about to read is that of a seat.
TypeOK ==
  /\ players \in [Seats -> Clients \cup {NULL}] /\ players_count \in 0 .. 4
  /\ running \in {0, 1}
  /\ ready \in [Clients -> {0, 1}]
  /\ link \in [Clients -> {"watched", "handed", "closed"}]
  /\ hpc \in {"idle", "join", "count", "ready", "leave", "uncount"}
  /\ temp \in Clients \cup {NULL} /\ hi \in 0 .. 4
  /\ pc \in {"off", "created", "running", "scan", "look", "take", "rest", "spin", "broken"}
            \cup Playing
  /\ i \in 0 .. 4 /\ (pc \in {"look", "take"} => i \in Seats)
  /\ nb_ready \in 0 .. 4 /\ max \in 0 .. 5
  /\ players_fd \in [Seats -> Clients \cup {NULL}]
  /\ nb_outgoing_chat \in 0 .. TO_TRANSMIT /\ end_game \in {-1, 1}
  /\ turns \in Nat /\ boards \in Nat

\* A game that is played polls in its four places the clients of its four seats, all
\* of which have said they are ready and are left to the thread: although the pass
\* that counts them reads each seat twice, while the handler may be emptying it, and
\* writes over what earlier passes left.  (Or malloc has said it for them.)
StartsReady ==
  pc \in Playing => \A k \in Seats :
    \/ players_fd[k] \in Dirty
    \/ /\ players_fd[k] # NULL /\ players[k] = players_fd[k]
       /\ ready[players[k]] = 1 /\ link[players[k]] = "handed"

\* Four ready players in the seats of a game get to play, or the program breaks.
GameStarts ==
  (/\ pc # "off"
   /\ \A k \in Seats : players[k] # NULL /\ link[players[k]] = "handed")
    ~> pc \in {"poll", "serve", "udp", "spin", "broken"}

\* What the game looks like to those who only know its seats.
SaidReady == { c \in Clients \ Dirty : ready[c] = 1 }

Phase ==
  IF pc = "broken" THEN "over" ELSE IF pc \in Playing \cup {"spin"} THEN "playing" ELSE "filling"

Game == INSTANCE GameSeats WITH
  seat <- players, ready <- SaidReady, Early <- Dirty, phase <- Phase

\* Although the handler gives and takes back seats one by one while the thread reads
\* them one by one, the game is filled by a client at a time, is played by four that
\* were ready at once, when the pass ends, and nobody joins or leaves from then on.
SeatsAsPromised == Game!Spec

(* A statement of the protocol's documentation *)

\* protocol_server_messages.h: the board is "broadcasted every seconds", its changes
\* "every freq ms".  So a game that has gone through a turn has sent some.
BoardsSent == turns > 0 => boards > 0
=============================================================================
