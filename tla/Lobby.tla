------------------------------- MODULE Lobby -------------------------------
(***************************************************************************)
(* The client handler (client_handler_job), the queue of clients and games *)
(* it keeps (queue_handler.c), the seats of each game (server_t.c) and the *)
(* threads it starts for the games (sv_job): how each starts, waits for    *)
(* its players and shuts its game down.                                    *)
(*                                                                         *)
(* The handler is one thread: it polls the sockets of its table, accepts a *)
(* connection, then visits the entries of the table that poll reported.    *)
(* `pc' is what it is about to do, poll_i the entry it visits and `temp'   *)
(* the local temp_socket.  Every thread started for a game clears the same *)
(* table, whenever it is scheduled: a step of the handler below is what it *)
(* does between two accesses to the table that a clearing may separate.    *)
(*                                                                         *)
(* pc = "broken" says that the program has left its defined behaviour (a   *)
(* null or wild pointer, a write past a table): the model stops there.     *)
(***************************************************************************)
EXTENDS Integers

CONSTANTS
  MAX_CLIENTS,   \* size of the poll table and of queue.cl, 24 in globals.h
  MAX_SERVERS,   \* size of queue.sv, 6
  Sockets,       \* descriptors the system may give to a connection
  Listener,      \* tcp_server_socket
  Stdin,         \* descriptor 0
  NoSocket,      \* -1, the fd of a free entry of the poll table
  ReadyGarbage,  \* what malloc may leave in a record's ready,
  GameGarbage,   \* and in its affected_sv_id
  MAX_HEARTS     \* bound: threads of one game before their memset

ASSUME TablesAssumption ==
  /\ MAX_CLIENTS \in Nat /\ MAX_CLIENTS >= 2
  /\ MAX_SERVERS \in Nat \ {0}
  /\ MAX_HEARTS \in Nat
  /\ ReadyGarbage \subseteq {0, 1} /\ ReadyGarbage # {}
  /\ GameGarbage \subseteq 0 .. MAX_SERVERS /\ GameGarbage # {}

ASSUME SocketsAssumption ==
  /\ {Listener, Stdin, NoSocket} \cap Sockets = {}
  /\ Listener # Stdin /\ Listener # NoSocket /\ Stdin # NoSocket

VARIABLES
  clients,     \* the poll table
  poll_maxi,   \* its highest entry in use
  watched,     \* the copy of the table given to the poll in progress, if any
  pc, poll_i, temp,
  open,        \* connections accepted and not closed
  cl,          \* queue.cl, filled from the front and never emptied
  cl_count,    \* the number of its entries in use
  sv,          \* queue.sv, likewise; a game's id is its place
  sv_count,
  hearts       \* per game, how many of its threads are in each phase

table    == <<clients, poll_maxi, watched>>
handler  == <<pc, poll_i, temp>>
registry == <<cl, cl_count>>
games    == <<sv, sv_count, hearts>>
vars == <<table, handler, open, registry, games>>

Entries == 0 .. MAX_CLIENTS - 1
Clients == 1 .. MAX_CLIENTS
Games   == 0 .. MAX_SERVERS - 1
Seats   == 0 .. 3
Modes   == {"FFA", "TDM"}
NULL    == 0
NoGame  == MAX_SERVERS   \* any game id that is not in queue.sv
Phases  == {"created", "running", "waiting", "playing"}

-----------------------------------------------------------------------------
(* queue_handler.c *)

\* find_client: the first client with that descriptor, closed or not.
FoundClient(fd, c) ==
  \/ /\ c \in 1 .. cl_count
     /\ cl[c].sock_fd = fd
     /\ \A k \in 1 .. c - 1 : cl[k].sock_fd # fd
  \/ c = NULL /\ \A k \in 1 .. cl_count : cl[k].sock_fd # fd

\* Mutant: a game with four players still suits.
Suits_Full(g, mode) == sv[g].gamemode = mode /\ sv[g].players_count <= 4

Suits(g, mode) == sv[g].gamemode = mode /\ sv[g].players_count < 4

\* find_server: the first game of that mode with room, else a new one.
FoundServer(mode, g) ==
  \/ /\ g \in 0 .. sv_count - 1
     /\ Suits(g, mode)
     /\ \A k \in 0 .. g - 1 : ~Suits(k, mode)
  \/ g = sv_count /\ \A k \in 0 .. sv_count - 1 : ~Suits(k, mode)

-----------------------------------------------------------------------------
(* server_t.c *)

InitServer(mode) ==
  [ gamemode |-> mode, players |-> [k \in Seats |-> NULL], players_count |-> 0,
    running |-> 0, freed |-> FALSE ]

One(P) == IF P THEN 1 ELSE 0
Taken(p) == One(p[0] # NULL) + One(p[1] # NULL) + One(p[2] # NULL) + One(p[3] # NULL)

\* Mutant: the seats that were taken are counted again.
Seated_CountsAll(s, c) ==
  [s EXCEPT !.players = [k \in Seats |-> IF @[k] = NULL THEN c ELSE @[k]],
            !.players_count = @ + 4]

\* sv_add_player has no break: the client takes every free seat, and its id is
\* the last of them.
Seated(s, c) ==
  [s EXCEPT !.players = [k \in Seats |-> IF @[k] = NULL THEN c ELSE @[k]],
            !.players_count = @ + 4 - Taken(s.players)]

SeatId(p, id) ==
  IF \A k \in Seats : p[k] # NULL THEN id
  ELSE CHOOSE k \in Seats : p[k] = NULL /\ \A j \in Seats : j > k => p[j] # NULL

\* Mutant: the count of players is forgotten.
Visited_KeepsCount(s, k, fd) ==
  IF k < s.players_count /\ s.players[k] # NULL /\ cl[s.players[k]].sock_fd = fd
  THEN [s EXCEPT !.players[k] = NULL]
  ELSE s

\* Mutant: descriptors are not compared.
Visited_Anyone(s, k, fd) ==
  IF k < s.players_count /\ s.players[k] # NULL
  THEN [s EXCEPT !.players[k] = NULL, !.players_count = @ - 1]
  ELSE s

\* One turn of sv_remove_player's loop, whose bound the removals lower.
Visited(s, k, fd) ==
  IF k < s.players_count /\ s.players[k] # NULL /\ cl[s.players[k]].sock_fd = fd
  THEN [s EXCEPT !.players[k] = NULL, !.players_count = @ - 1]
  ELSE s

Unseated(s, fd) == Visited(Visited(Visited(Visited(s, 0, fd), 1, fd), 2, fd), 3, fd)

\* The loop reads a seat that an earlier departure left empty, or freed seats.
Stumbles(s, fd) ==
  \/ s.freed /\ s.players_count > 0
  \/ \E k \in Seats : k < Unseated(s, fd).players_count /\ s.players[k] = NULL

\* Some seat below players_count is empty; the loops of sv_job go through them all.
HasGap(s) == \E k \in Seats : k < s.players_count /\ s.players[k] = NULL

\* sv_shutdown leaves the game in queue.sv, and its count as it was.
ShutDown(s) ==
  [s EXCEPT !.players = [k \in Seats |-> IF k < s.players_count THEN NULL ELSE @[k]],
            !.running = 0, !.freed = TRUE]

-----------------------------------------------------------------------------
(* The poll table *)

Cleared == [fd |-> Stdin, events |-> "NONE", revents |-> "NONE"]
Unused  == [fd |-> NoSocket, events |-> "NONE", revents |-> "NONE"]

\* What poll may report of an entry: what it was asked for, an error or a
\* hang-up of the peer (one outcome, the handler treats both alike), or nothing.
Reported(w) ==
  {"NONE"} \cup (IF w.fd \in open \cup {Stdin, Listener} THEN {w.events} ELSE {})
           \cup (IF w.fd \in open \cup {Stdin} THEN {"HUP"} ELSE {})

\* The entry the loop over the table visits next, past those with nothing to do.
NextReady(e) ==
  LET ready == { k \in poll_i + 1 .. poll_maxi :
                   clients[k].fd # NoSocket /\ clients[k].revents # "NONE" }
  IN e \in ready /\ \A k \in ready : e <= k

FirstFree(e) ==
  /\ e \in Entries \ {0} /\ clients[e].fd = NoSocket
  /\ \A k \in 1 .. e - 1 : clients[k].fd # NoSocket

\* Mutant: the entry keeps its descriptor.
Unwatched_Kept(e) == [clients EXCEPT ![e].events = "NONE"]

Unwatched(e) == [clients EXCEPT ![e].fd = NoSocket]

-----------------------------------------------------------------------------

Init ==
  /\ clients   = [e \in Entries |->
                   IF e = 0 THEN [fd |-> Listener, events |-> "IN", revents |-> "NONE"]
                   ELSE Unused]
  /\ poll_maxi = 0
  /\ watched   = clients
  /\ pc        = "poll" /\ poll_i = 0 /\ temp = NoSocket
  /\ open      = {}
  /\ cl        = [c \in Clients |-> [sock_fd |-> NoSocket, id |-> 0, ready |-> 0,
                                    affected_sv_id |-> NoGame]]
  /\ cl_count  = 0
  /\ sv        = [g \in Games |-> InitServer("FFA")]
  /\ sv_count  = 0
  /\ hearts    = [g \in Games \cup {NoGame} |-> [h \in Phases |-> 0]]

Go(next) == pc' = next /\ UNCHANGED <<poll_i, temp>>

\* The handler is done with an entry; temp is assigned before it is read again.
Done == pc' = "visit" /\ temp' = NoSocket /\ UNCHANGED poll_i

Breaks ==
  /\ Go("broken")
  /\ UNCHANGED <<table, open, registry, games>>

\* poll returns once an entry is ready, and writes its report into the table; the
\* copy it worked on is gone.
PollReturns ==
  /\ pc = "poll"
  /\ \E revents \in [0 .. poll_maxi -> {"NONE", "IN", "OUT", "HUP"}] :
       /\ \A e \in 0 .. poll_maxi : revents[e] \in Reported(watched[e])
       /\ \E e \in 0 .. poll_maxi : revents[e] # "NONE"
       /\ clients' = [e \in Entries |->
                        IF e <= poll_maxi THEN [clients[e] EXCEPT !.revents = revents[e]]
                        ELSE clients[e]]
  /\ watched' = [e \in Entries |-> Unused]
  /\ Go("accept")
  /\ UNCHANGED <<poll_maxi, open, registry, games>>

NoAccept ==
  /\ pc = "accept" /\ clients[0].revents # "IN"
  /\ Go("visit")
  /\ UNCHANGED <<table, open, registry, games>>

\* The connection gets a table entry, and a client record for as long as queue.cl
\* has room; malloc leaves anything in the fields that are not assigned.
Accept(fd) ==
  /\ pc = "accept" /\ clients[0].revents = "IN"
  /\ \E e \in Entries :
       /\ FirstFree(e)
       /\ clients'   = [clients EXCEPT ![e].fd = fd, ![e].events = "IN"]
       /\ poll_maxi' = IF e > poll_maxi THEN e ELSE poll_maxi
  /\ open' = open \cup {fd}
  /\ IF cl_count < MAX_CLIENTS
     THEN \E ready \in ReadyGarbage, affected \in GameGarbage :
            /\ cl' = [cl EXCEPT ![cl_count + 1] =
                        [sock_fd |-> fd, id |-> 0, ready |-> ready,
                         affected_sv_id |-> affected]]
            /\ cl_count' = cl_count + 1
     ELSE UNCHANGED registry
  /\ Go("visit")
  /\ UNCHANGED <<watched, games>>

\* No entry is free: the one past the end of the table is written.
AcceptFull ==
  /\ pc = "accept" /\ clients[0].revents = "IN"
  /\ \A e \in Entries : ~FirstFree(e)
  /\ Breaks

\* accept fails, the handler ends the program.
AcceptFails ==
  /\ pc = "accept" /\ clients[0].revents = "IN"
  /\ Go("exit")
  /\ UNCHANGED <<table, open, registry, games>>

Visit(e) ==
  /\ pc = "visit" /\ NextReady(e)
  /\ poll_i' = e
  /\ temp'   = clients[e].fd
  /\ pc'     = CASE clients[e].revents = "HUP" -> "close"
                 [] clients[e].revents = "IN"  -> "recv"
                 [] clients[e].revents = "OUT" -> "send"
  /\ UNCHANGED <<table, open, registry, games>>

\* The reports are dropped here rather than when poll overwrites them all.
PollAgain ==
  /\ pc = "visit" /\ \A e \in Entries : ~NextReady(e)
  /\ clients' = [e \in Entries |-> [clients[e] EXCEPT !.revents = "NONE"]]
  /\ watched' = clients'
  /\ pc' = "poll" /\ poll_i' = 0 /\ temp' = temp
  /\ UNCHANGED <<poll_maxi, open, registry, games>>

(* What the handler does with the connection `temp' of entry poll_i *)

\* No record of the connection where the handler uses one.
Unregistered ==
  /\ pc \in {"recv", "send", "close"} /\ FoundClient(temp, NULL)
  /\ pc = "recv" => temp # Stdin
  /\ Breaks

\* No game has the id in the record, and sv_get ends without a return.
Unlisted(c) ==
  /\ cl[c].affected_sv_id >= sv_count
  /\ pc = "close" \/ (pc = "send" /\ cl[c].ready = 0)

\* The game that suits a client that joins has been shut down with nobody left.
SuitsFreed ==
  /\ pc = "recv" /\ temp # Stdin
  /\ \E g \in 0 .. sv_count - 1, mode \in Modes : FoundServer(mode, g) /\ sv[g].freed

LostGame ==
  /\ \E c \in 1 .. cl_count : FoundClient(temp, c) /\ (Unlisted(c) \/ SuitsFreed)
  /\ Breaks

\* Codes 1 and 2.  A game with no thread running gets one.
Join(mode) ==
  /\ pc = "recv" /\ temp # Stdin
  /\ \E c \in 1 .. cl_count, g \in 0 .. sv_count :
       /\ FoundClient(temp, c) /\ FoundServer(mode, g)
       /\ LET s == IF g < sv_count THEN sv[g] ELSE InitServer(mode)
              starts == s.running = 0
          IN /\ ~s.freed
             /\ sv' = IF g = NoGame THEN sv ELSE [sv EXCEPT ![g] = Seated(s, c)]
             /\ sv_count' = IF g = sv_count /\ g # NoGame THEN sv_count + 1 ELSE sv_count
             /\ cl' = [cl EXCEPT ![c].id = SeatId(s.players, @), ![c].affected_sv_id = g]
             /\ starts => hearts[g].created + hearts[g].running < MAX_HEARTS
             /\ hearts' = IF starts THEN [hearts EXCEPT ![g].created = @ + 1] ELSE hearts
  /\ clients' = [clients EXCEPT ![poll_i].events = "OUT"]
  /\ Done
  /\ UNCHANGED <<poll_maxi, watched, open, cl_count>>

\* Codes 3 and 4: the handler leaves the connection to the game's thread.
Ready ==
  /\ pc = "recv" /\ temp # Stdin
  /\ \E c \in 1 .. cl_count :
       FoundClient(temp, c) /\ cl' = [cl EXCEPT ![c].ready = 1]
  /\ clients' = Unwatched(poll_i)
  /\ Done
  /\ UNCHANGED <<poll_maxi, watched, open, cl_count, games>>

\* Codes 7 and 8 do nothing.
Chat ==
  /\ pc = "recv" /\ temp # Stdin
  /\ Done
  /\ UNCHANGED <<table, open, registry, games>>

\* An unknown code, or a failing recv, even in the midst of the loop below.
Reject ==
  /\ pc \in {"recv", "eof"}
  /\ Go("close")
  /\ UNCHANGED <<table, open, registry, games>>

\* recv returns 0 and the loop that reads a whole header calls it again.
EndOfStream ==
  /\ pc \in {"recv", "eof"} /\ temp # Stdin
  /\ Go("eof")
  /\ UNCHANGED <<table, open, registry, games>>

\* The init message, for a client that is not ready: sent, not sent, or refused
\* by a closed connection.
SendInit ==
  /\ pc = "send"
  /\ \E c \in 1 .. cl_count :
       /\ FoundClient(temp, c)
       /\ cl[c].ready = 0 => cl[c].affected_sv_id < sv_count
       /\ \/ /\ cl[c].ready = 0
             /\ clients' = [clients EXCEPT ![poll_i].events = "IN"]
             /\ Done
          \/ clients' = clients /\ Done
          \/ cl[c].ready = 0 /\ clients' = clients /\ Go("close")
  /\ UNCHANGED <<poll_maxi, watched, open, registry, games>>

CloseAndFree ==
  /\ pc = "close"
  /\ \E c \in 1 .. cl_count :
       LET g == cl[c].affected_sv_id
       IN /\ FoundClient(temp, c)
          /\ g < sv_count
          /\ ~Stumbles(sv[g], cl[c].sock_fd)
          /\ sv' = [sv EXCEPT ![g] = Unseated(@, cl[c].sock_fd)]
  /\ open'    = open \ {temp}
  /\ clients' = Unwatched(poll_i)
  /\ Done
  /\ UNCHANGED <<poll_maxi, watched, registry, sv_count, hearts>>

CloseStumbles ==
  /\ pc = "close"
  /\ \E c \in 1 .. cl_count :
       /\ FoundClient(temp, c)
       /\ cl[c].affected_sv_id < sv_count
       /\ Stumbles(sv[cl[c].affected_sv_id], cl[c].sock_fd)
  /\ Breaks

(* sv_job, the threads of the games *)

Moves(g, from, to) ==
  /\ pc \notin {"exit", "broken"}
  /\ hearts[g][from] > 0
  /\ hearts' = [hearts EXCEPT ![g][from] = @ - 1, ![g][to] = @ + 1]

SvJobRuns(g) ==
  /\ Moves(g, "created", "running")
  /\ sv' = IF g = NoGame THEN sv ELSE [sv EXCEPT ![g].running = 1]
  /\ UNCHANGED <<table, handler, open, registry, sv_count>>

SvJobClears(g) ==
  /\ Moves(g, "running", "waiting")
  /\ clients' = [e \in Entries |-> Cleared]
  /\ UNCHANGED <<poll_maxi, watched, handler, open, registry, sv, sv_count>>

\* One pass over the seats finds all four ready: the game starts.
SvJobStarts(g) ==
  /\ ~sv[g].freed /\ ~HasGap(sv[g]) /\ sv[g].players_count = 4
  /\ \A k \in Seats : cl[sv[g].players[k]].ready = 1
  /\ Moves(g, "waiting", "playing")
  /\ UNCHANGED <<table, handler, open, registry, sv, sv_count>>

\* A pass finds nobody left, or a player's socket fails while the game is played.
MayEnd(g) ==
  \/ hearts[g].waiting > 0 /\ sv[g].players_count = 0
  \/ hearts[g].playing > 0

\* The thread goes on with a game it has shut down, to break at its next step.
SvJobEnds(g) ==
  /\ pc \notin {"exit", "broken"}
  /\ MayEnd(g) /\ ~sv[g].freed /\ ~HasGap(sv[g])
  /\ open' = open \ { cl[sv[g].players[k]].sock_fd : k \in 0 .. sv[g].players_count - 1 }
  /\ sv' = [sv EXCEPT ![g] = ShutDown(@)]
  /\ UNCHANGED <<table, handler, registry, sv_count, hearts>>

\* The thread goes through an empty seat, frees the seats twice, or uses them freed.
SvJobBreaks(g) ==
  /\ sv[g].freed \/ HasGap(sv[g])
  /\ pc \notin {"exit", "broken"}
  /\ hearts[g].waiting > 0 \/ hearts[g].playing > 0
  /\ Breaks

Next ==
  \/ PollReturns \/ NoAccept \/ AcceptFull \/ AcceptFails \/ PollAgain
  \/ \E fd \in Sockets \ open : Accept(fd)
  \/ \E e \in Entries : Visit(e)
  \/ \E mode \in Modes : Join(mode)
  \/ Unregistered \/ LostGame \/ Ready \/ Chat \/ Reject \/ EndOfStream
  \/ SendInit \/ CloseAndFree \/ CloseStumbles
  \/ \E g \in Games \cup {NoGame} : SvJobRuns(g) \/ SvJobClears(g)
  \/ \E g \in Games : SvJobStarts(g) \/ SvJobEnds(g) \/ SvJobBreaks(g)

Spec == Init /\ [][Next]_vars

\* What the handler does without waiting for a peer: poll may block, and recv, the
\* rest is its own loop.
Loops ==
  \/ NoAccept \/ AcceptFull \/ PollAgain \/ EndOfStream \/ SendInit
  \/ \E e \in Entries : Visit(e)
  \/ LostGame \/ CloseAndFree \/ CloseStumbles

FairSpec == Spec /\ WF_vars(Loops)

-----------------------------------------------------------------------------
(* Properties *)

EntryType ==
  [ fd : Sockets \cup {Listener, Stdin, NoSocket}, events : {"NONE", "IN", "OUT"},
    revents : {"NONE", "IN", "OUT", "HUP"} ]

ClientType ==
  [ sock_fd : Sockets \cup {NoSocket}, id : Seats, ready : {0, 1},
    affected_sv_id : Games \cup {NoGame} ]

ServerType ==
  [ gamemode : Modes, players : [Seats -> Clients \cup {NULL}],
    players_count : 0 .. 4, running : {0, 1},
    freed : BOOLEAN ]

\* Every variable has its type; a game never counts more than its four seats, the
\* registries never hold more than their arrays.
TypeOK ==
  /\ clients \in [Entries -> EntryType] /\ watched \in [Entries -> EntryType]
  /\ poll_maxi \in Entries
  /\ pc \in {"poll", "accept", "visit", "recv", "eof", "send", "close", "exit", "broken"}
  /\ poll_i \in Entries
  /\ temp \in Sockets \cup {Stdin, NoSocket}
  /\ open \subseteq Sockets
  /\ cl \in [Clients -> ClientType] /\ cl_count \in 0 .. MAX_CLIENTS
  /\ sv \in [Games -> ServerType] /\ sv_count \in 0 .. MAX_SERVERS
  /\ hearts \in [Games \cup {NoGame} -> [Phases -> Nat]]

\* players_count is the number of seats that are taken: find_server offers a seat
\* that exists, although joining takes several at once and a departure counts down
\* the very bound of the loop that searches it.  Until the game is shut down.
SeatCountExact ==
  \A g \in Games : ~sv[g].freed => sv[g].players_count = Taken(sv[g].players)

\* A connection about to be told its game and its seat holds that seat of that
\* game: whatever joins, departures and reuses of its descriptor happened since
\* the record was made, nobody else has been given or has freed it.
AwaitedSeatIsHeld ==
  \A e \in Entries : clients[e].fd \in Sockets /\ clients[e].events = "OUT" =>
    \E c \in 1 .. cl_count :
      /\ FoundClient(clients[e].fd, c)
      /\ cl[c].affected_sv_id < sv_count =>
           sv[cl[c].affected_sv_id].players[cl[c].id] = c

\* Each entry of the poll table watches an open connection, and no two the same: no
\* entry has the handler serve, or close, a descriptor it has closed before and that the
\* system may have given to somebody else.
EntriesWatchOpen ==
  \A e \in Entries : clients[e].fd \in Sockets =>
    /\ clients[e].fd \in open
    /\ \A d \in Entries : clients[d].fd = clients[e].fd => d = e

\* A game's thread has cleared the table.
Emptied == \E g \in Games \cup {NoGame} : hearts[g].waiting > 0 \/ hearts[g].playing > 0

\* Until a game's thread clears the table nobody is forgotten and no entry is lost: an
\* entry is free or has an open connection, so that with EntriesWatchOpen the one past
\* the end is only written when the table is full of connections, and an open connection
\* is watched or is one whose record says it is ready, for the game's thread to take over.
NobodyForgotten ==
  ~Emptied =>
    /\ \A e \in Entries \ {0} : clients[e].fd \in open \cup {NoSocket}
    /\ \A fd \in open :
         \/ \E e \in Entries : clients[e].fd = fd
         \/ \E c \in 1 .. cl_count : cl[c].sock_fd = fd /\ cl[c].ready = 1

\* A seat that is taken is only freed, and only with the whole game or by closing the
\* connection whose descriptor its holder has: nobody is unseated by the departure of
\* somebody else.  Where all clients play one game and malloc leaves ready clear: with two
\* games or more, a record's affected_sv_id may lead a departure to another's game.
OnlyLeaversLoseSeats ==
  [][ \A g \in Games, k \in Seats :
        sv[g].players[k] # NULL /\ sv'[g].players[k] # sv[g].players[k] =>
          /\ sv'[g].players[k] = NULL
          /\ sv'[g].freed \/ cl[sv[g].players[k]].sock_fd \in open \ open' ]_vars

\* What a game looks like to those who only know its seats.  Where malloc may leave
\* ready set, any record may have it so.
Early == IF ReadyGarbage = {0} THEN {} ELSE Clients

SaidReady == { c \in Clients \ Early : c <= cl_count /\ cl[c].ready = 1 }

Phase(g) ==
  IF sv[g].freed THEN "over" ELSE IF hearts[g].playing > 0 THEN "playing" ELSE "filling"

Game(g) == INSTANCE GameSeats WITH
  seat <- sv[g].players, ready <- SaidReady, phase <- Phase(g)

\* Each game keeps the promise of GameSeats: whatever descriptors, records, threads
\* and games have in common, it fills a client at a time, is played by those who were
\* ready with the seats they had, and once over is left alone.
SeatsAsPromised ==
  /\ \A g \in Games : Game(g)!Init
  /\ [][ \A g \in Games : [Game(g)!Next]_(Game(g)!vars) ]_vars

(* Statements of the documentation and of comments *)

\* README.md: "Bomberman server handling multiple games simultaneously."  So a client that
\* has a seat of a game and is still to say it is ready stays watched when the thread of
\* another game starts, as long as that of its own has not cleared the table.
GamesTogether ==
  \A fd \in open, c \in 1 .. cl_count :
    LET g == cl[c].affected_sv_id
    IN FoundClient(fd, c) /\ cl[c].ready = 0
         /\ g < sv_count /\ sv[g].players[cl[c].id] = c
         /\ hearts[g].waiting = 0 /\ hearts[g].playing = 0
       => \E e \in Entries : clients[e].fd = fd

\* A comment of client_handler_job: a player having joined a game, its thread is
\* either launched or to be started.  So no game is given a second one.
OneThreadPerGame == \A g \in Games : hearts[g].created + sv[g].running <= 1

\* The handler's branch for a recv that returns 0 says goodbye and closes the
\* connection.  So an end of stream is followed by a close.
GoodbyeCloses == pc = "eof" ~> pc \in {"close", "broken"}
=============================================================================
