---------------------------- MODULE Lobby_proofs ----------------------------
(***************************************************************************)
(* What Lobby keeps true for every size of its tables.                     *)
(***************************************************************************)
EXTENDS Lobby, TLAPS

\* Typing alone is not inductive: that a game's count stays within its four seats
\* needs the count to be exact when a client joins, and the descriptor the handler
\* visits is not the listening one because no entry but the first ever holds that.
SeatsInv ==
  /\ TypeOK
  /\ SeatCountExact
  /\ \A e \in Entries \ {0} : clients[e].fd # Listener

-----------------------------------------------------------------------------
(* Seats *)

LEMMA InitServerExact ==
  ASSUME NEW mode \in Modes
  PROVE  /\ InitServer(mode) \in ServerType
         /\ InitServer(mode).players_count = Taken(InitServer(mode).players)
         /\ InitServer(mode).running = 0 /\ InitServer(mode).freed = FALSE
  BY DEF InitServer, ServerType, Taken, One, Seats, NULL

\* A client that joins fills the game.
LEMMA SeatedExact ==
  ASSUME NEW s \in ServerType, s.players_count = Taken(s.players), NEW c \in Clients
  PROVE  /\ Seated(s, c) \in ServerType
         /\ Seated(s, c).players_count = Taken(Seated(s, c).players)
<1> DEFINE p == [k \in Seats |-> IF s.players[k] = NULL THEN c ELSE s.players[k]]
<1>1. c \in Nat /\ c # NULL
  BY TablesAssumption DEF Clients, NULL
<1>2. s.players \in [Seats -> Clients \cup {NULL}] /\ s.players_count \in 0 .. 4
  BY DEF ServerType
<1>3. p \in [Seats -> Clients \cup {NULL}] /\ \A k \in Seats : p[k] # NULL
  BY <1>1, <1>2
<1>4. Taken(p) = 4
  <2>1. 0 \in Seats /\ 1 \in Seats /\ 2 \in Seats /\ 3 \in Seats
    BY DEF Seats
  <2> HIDE DEF p
  <2> QED BY <1>3, <2>1 DEF Taken, One
<1>5. Seated(s, c) = [s EXCEPT !.players = p, !.players_count = 4]
  <2>1. s.players_count + 4 - Taken(s.players) = 4
    BY <1>2
  <2>2. Seated(s, c) = [s EXCEPT !.players = p,
                                 !.players_count = s.players_count + 4 - Taken(s.players)]
    BY DEF Seated, ServerType
  <2> QED BY <2>1, <2>2
<1>6. Seated(s, c).players = p /\ Seated(s, c).players_count = 4
  BY <1>5 DEF ServerType
<1> HIDE DEF p
<1>7. 4 \in 0 .. 4
  OBVIOUS
<1> QED BY <1>3, <1>4, <1>5, <1>6, <1>7 DEF ServerType

\* A turn of the removal loop counts one player less for each seat it frees.
LEMMA VisitedExact ==
  ASSUME NEW s \in ServerType, NEW k \in Seats, NEW fd
  PROVE  /\ Visited(s, k, fd) \in ServerType
         /\ Visited(s, k, fd).freed = s.freed
         /\ s.players_count = Taken(s.players) =>
              Visited(s, k, fd).players_count = Taken(Visited(s, k, fd).players)
<1> DEFINE v == Visited(s, k, fd)
           p == [s.players EXCEPT ![k] = NULL]
<1>1. s.players \in [Seats -> Clients \cup {NULL}] /\ s.players_count \in 0 .. 4
  BY DEF ServerType
<1>2. CASE k < s.players_count /\ s.players[k] # NULL /\ cl[s.players[k]].sock_fd = fd
  <2>1. v = [s EXCEPT !.players = p, !.players_count = s.players_count - 1]
    BY <1>2 DEF Visited
  <2>2. p \in [Seats -> Clients \cup {NULL}]
    BY <1>1
  <2>3. s.players_count - 1 \in 0 .. 4
    BY <1>1, <1>2 DEF Seats
  <2>4. Taken(p) = Taken(s.players) - 1
    BY <1>1, <1>2 DEF Taken, One, Seats
  <2> HIDE DEF p
  <2> QED BY <1>1, <2>1, <2>2, <2>3, <2>4 DEF ServerType
<1>3. CASE ~(k < s.players_count /\ s.players[k] # NULL /\ cl[s.players[k]].sock_fd = fd)
  BY <1>3 DEF Visited
<1> QED BY <1>2, <1>3

LEMMA UnseatedExact ==
  ASSUME NEW s \in ServerType, NEW fd
  PROVE  /\ Unseated(s, fd) \in ServerType
         /\ Unseated(s, fd).freed = s.freed
         /\ s.players_count = Taken(s.players) =>
              Unseated(s, fd).players_count = Taken(Unseated(s, fd).players)
<1> DEFINE a == Visited(s, 0, fd)
           b == Visited(a, 1, fd)
           d == Visited(b, 2, fd)
<1>0. 0 \in Seats /\ 1 \in Seats /\ 2 \in Seats /\ 3 \in Seats
  BY DEF Seats
<1>1. /\ a \in ServerType /\ a.freed = s.freed
      /\ s.players_count = Taken(s.players) => a.players_count = Taken(a.players)
  BY <1>0, VisitedExact
<1> HIDE DEF a
<1>2. /\ b \in ServerType /\ b.freed = a.freed
      /\ a.players_count = Taken(a.players) => b.players_count = Taken(b.players)
  BY <1>0, <1>1, VisitedExact
<1> HIDE DEF b
<1>3. /\ d \in ServerType /\ d.freed = b.freed
      /\ b.players_count = Taken(b.players) => d.players_count = Taken(d.players)
  BY <1>0, <1>2, VisitedExact
<1> HIDE DEF d
<1>4. Unseated(s, fd) = Visited(d, 3, fd)
  BY DEF Unseated, a, b, d
<1> QED BY <1>0, <1>1, <1>2, <1>3, <1>4, VisitedExact

LEMMA ShutDownType ==
  ASSUME NEW s \in ServerType
  PROVE  ShutDown(s) \in ServerType /\ ShutDown(s).freed
  BY DEF ShutDown, ServerType

LEMMA SeatIdType ==
  ASSUME NEW p \in [Seats -> Clients \cup {NULL}], NEW id \in Seats
  PROVE  SeatId(p, id) \in Seats
<1>1. CASE \A k \in Seats : p[k] # NULL
  BY <1>1 DEF SeatId
<1>2. CASE \E k \in Seats : p[k] = NULL
  <2>1. \E k \in Seats : p[k] = NULL /\ \A j \in Seats : j > k => p[j] # NULL
    BY <1>2 DEF Seats
  <2> QED BY <1>2, <2>1 DEF SeatId
<1> QED BY <1>1, <1>2

-----------------------------------------------------------------------------
(* The steps of the handler that only move it, or move nothing *)

Still == UNCHANGED <<table, open, registry, games>>

LEMMA StillKeeps ==
  ASSUME SeatsInv, Still, UNCHANGED <<poll_i, temp>>,
         pc' \in {"poll", "accept", "visit", "recv", "eof", "send", "close", "exit", "broken"}
  PROVE  SeatsInv'
  BY DEF SeatsInv, Still, table, registry, games, TypeOK, SeatCountExact

LEMMA InitSeats == Init => SeatsInv
<1> SUFFICES ASSUME Init PROVE SeatsInv
  OBVIOUS
<1>1. clients \in [Entries -> EntryType] /\ watched \in [Entries -> EntryType]
  BY DEF Init, Unused, EntryType
<1>2. 0 \in Entries /\ 0 \in 0 .. MAX_CLIENTS /\ 0 \in 0 .. MAX_SERVERS
  BY TablesAssumption DEF Entries
<1>3. cl \in [Clients -> ClientType]
  <2>1. 0 \in Seats
    BY DEF Seats
  <2> QED BY <2>1 DEF Init, ClientType
<1>4. \A g \in Games : sv[g] = InitServer("FFA")
  BY DEF Init
<1>5. sv \in [Games -> ServerType] /\ SeatCountExact
  BY <1>4, InitServerExact DEF Init, SeatCountExact, Modes
<1>6. hearts \in [Games \cup {NoGame} -> [Phases -> Nat]]
  BY DEF Init
<1>7. \A e \in Entries \ {0} : clients[e].fd # Listener
  BY SocketsAssumption DEF Init, Unused
<1>8. temp \in Sockets \cup {Stdin, NoSocket} /\ open \subseteq Sockets
  BY DEF Init
<1> QED BY <1>1, <1>2, <1>3, <1>5, <1>6, <1>7, <1>8 DEF Init, SeatsInv, TypeOK

(* The steps that change the poll table *)

LEMMA PollReturnsKeeps == SeatsInv /\ PollReturns => SeatsInv'
<1> SUFFICES ASSUME SeatsInv, PollReturns PROVE SeatsInv'
  OBVIOUS
<1>1. PICK revents \in [0 .. poll_maxi -> {"NONE", "IN", "OUT", "HUP"}] :
        clients' = [e \in Entries |->
                     IF e <= poll_maxi THEN [clients[e] EXCEPT !.revents = revents[e]]
                     ELSE clients[e]]
  BY DEF PollReturns
<1>2. ASSUME NEW e \in Entries
      PROVE  clients'[e] \in EntryType /\ clients'[e].fd = clients[e].fd
  <2>1. clients[e] \in EntryType
    BY DEF SeatsInv, TypeOK
  <2>2. CASE e <= poll_maxi
    <3>1. revents[e] \in {"NONE", "IN", "OUT", "HUP"}
      BY <2>2 DEF Entries
    <3> QED BY <1>1, <2>1, <2>2, <3>1 DEF EntryType
  <2>3. CASE ~(e <= poll_maxi)
    BY <1>1, <2>1, <2>3
  <2> QED BY <2>2, <2>3
<1>3. clients' \in [Entries -> EntryType]
  BY <1>1, <1>2
<1>4. watched' \in [Entries -> EntryType]
  BY DEF PollReturns, Unused, EntryType
<1> QED BY <1>2, <1>3, <1>4
        DEF PollReturns, Go, SeatsInv, TypeOK, SeatCountExact, registry, games

LEMMA PollAgainKeeps == SeatsInv /\ PollAgain => SeatsInv'
<1> SUFFICES ASSUME SeatsInv, PollAgain PROVE SeatsInv'
  OBVIOUS
<1>1. \A e \in Entries : clients'[e] \in EntryType /\ clients'[e].fd = clients[e].fd
  BY DEF PollAgain, SeatsInv, TypeOK, EntryType
<1>2. clients' \in [Entries -> EntryType] /\ watched' \in [Entries -> EntryType]
  BY <1>1 DEF PollAgain
<1>3. 0 \in Entries
  BY TablesAssumption DEF Entries
<1> QED BY <1>1, <1>2, <1>3
        DEF PollAgain, SeatsInv, TypeOK, SeatCountExact, registry, games

LEMMA AcceptKeeps ==
  ASSUME SeatsInv, NEW fd \in Sockets \ open, Accept(fd)
  PROVE  SeatsInv'
<1>1. PICK e \in Entries :
        /\ FirstFree(e)
        /\ clients'   = [clients EXCEPT ![e].fd = fd, ![e].events = "IN"]
        /\ poll_maxi' = IF e > poll_maxi THEN e ELSE poll_maxi
  BY DEF Accept
<1>2. \A d \in Entries : /\ clients'[d] \in EntryType
                        /\ clients'[d].fd \in {clients[d].fd, fd}
  BY <1>1 DEF SeatsInv, TypeOK, EntryType
<1>3. clients' \in [Entries -> EntryType] /\ poll_maxi' \in Entries
  BY <1>1, <1>2 DEF SeatsInv, TypeOK
<1>4. cl' \in [Clients -> ClientType] /\ cl_count' \in 0 .. MAX_CLIENTS
  <2>1. CASE cl_count < MAX_CLIENTS
    <3>1. PICK ready \in ReadyGarbage, affected \in GameGarbage :
            /\ cl' = [cl EXCEPT ![cl_count + 1] =
                       [sock_fd |-> fd, id |-> 0, ready |-> ready,
                        affected_sv_id |-> affected]]
            /\ cl_count' = cl_count + 1
      BY <2>1 DEF Accept
    <3>2. ready \in {0, 1} /\ affected \in Games \cup {NoGame}
      BY TablesAssumption DEF Games, NoGame
    <3>3. [sock_fd |-> fd, id |-> 0, ready |-> ready, affected_sv_id |-> affected]
            \in ClientType
      BY <3>2 DEF ClientType, Seats
    <3>4. cl' \in [Clients -> ClientType]
      BY <3>1, <3>3 DEF SeatsInv, TypeOK
    <3>5. cl_count' \in 0 .. MAX_CLIENTS
      BY <2>1, <3>1, TablesAssumption DEF SeatsInv, TypeOK
    <3> QED BY <3>4, <3>5
  <2>2. CASE ~(cl_count < MAX_CLIENTS)
    BY <2>2 DEF Accept, registry, SeatsInv, TypeOK
  <2> QED BY <2>1, <2>2
<1>5. \A d \in Entries \ {0} : clients'[d].fd # Listener
  BY <1>2, SocketsAssumption DEF SeatsInv
<1> QED BY <1>3, <1>4, <1>5 DEF Accept, Go, SeatsInv, TypeOK, SeatCountExact, games

LEMMA VisitKeeps ==
  ASSUME SeatsInv, NEW e \in Entries, Visit(e)
  PROVE  SeatsInv'
<1>1. e # 0
  BY DEF Visit, NextReady, SeatsInv, TypeOK, Entries
<1>2. temp' \in Sockets \cup {Stdin, NoSocket}
  BY <1>1 DEF Visit, SeatsInv, TypeOK, EntryType
<1>3. clients[e].revents \in {"IN", "OUT", "HUP"}
  BY DEF Visit, NextReady, SeatsInv, TypeOK, EntryType
<1>4. pc' \in {"close", "recv", "send"}
  BY <1>3 DEF Visit
<1> QED BY <1>2, <1>4
        DEF Visit, SeatsInv, TypeOK, SeatCountExact, table, registry, games

(* The steps of the handler on one connection *)

\* Asking poll for something else, or for an entry no more, keeps the table's type.
LEMMA EventsType ==
  ASSUME SeatsInv, NEW events \in {"NONE", "IN", "OUT"},
         clients' = [clients EXCEPT ![poll_i].events = events]
  PROVE  /\ clients' \in [Entries -> EntryType]
         /\ \A e \in Entries \ {0} : clients'[e].fd # Listener
<1>1. clients \in [Entries -> EntryType] /\ poll_i \in Entries
  BY DEF SeatsInv, TypeOK
<1>2. ASSUME NEW e \in Entries
      PROVE  clients'[e] \in EntryType /\ clients'[e].fd = clients[e].fd
  <2>1. clients[e] \in EntryType
    BY <1>1
  <2>2. clients'[e] = IF e = poll_i THEN [clients[e] EXCEPT !.events = events] ELSE clients[e]
    BY <1>1
  <2>3. [clients[e] EXCEPT !.events = events] \in EntryType
    BY <2>1 DEF EntryType
  <2>4. [clients[e] EXCEPT !.events = events].fd = clients[e].fd
    BY <2>1 DEF EntryType
  <2> QED BY <2>1, <2>2, <2>3, <2>4
<1>3. clients' \in [Entries -> EntryType]
  BY <1>1, <1>2
<1> QED BY <1>2, <1>3 DEF SeatsInv

LEMMA UnwatchedType ==
  ASSUME SeatsInv, clients' = Unwatched(poll_i)
  PROVE  /\ clients' \in [Entries -> EntryType]
         /\ \A e \in Entries \ {0} : clients'[e].fd # Listener
<1>1. clients \in [Entries -> EntryType] /\ poll_i \in Entries
  BY DEF SeatsInv, TypeOK
<1>2. ASSUME NEW e \in Entries
      PROVE  clients'[e] \in EntryType /\ clients'[e].fd \in {clients[e].fd, NoSocket}
  <2>1. clients[e] \in EntryType
    BY <1>1
  <2>2. clients'[e] = IF e = poll_i THEN [clients[e] EXCEPT !.fd = NoSocket] ELSE clients[e]
    BY <1>1 DEF Unwatched
  <2>3. [clients[e] EXCEPT !.fd = NoSocket] \in EntryType
    BY <2>1 DEF EntryType
  <2>4. [clients[e] EXCEPT !.fd = NoSocket].fd = NoSocket
    BY <2>1 DEF EntryType
  <2> QED BY <2>1, <2>2, <2>3, <2>4
<1>3. clients' \in [Entries -> EntryType]
  BY <1>1, <1>2 DEF Unwatched
<1> QED BY <1>2, <1>3, SocketsAssumption DEF SeatsInv

LEMMA JoinKeeps ==
  ASSUME SeatsInv, NEW mode \in Modes, Join(mode)
  PROVE  SeatsInv'
<1>1. PICK c \in 1 .. cl_count, g \in 0 .. sv_count :
        LET s == IF g < sv_count THEN sv[g] ELSE InitServer(mode)
        IN /\ ~s.freed
           /\ sv' = IF g = NoGame THEN sv ELSE [sv EXCEPT ![g] = Seated(s, c)]
           /\ sv_count' = IF g = sv_count /\ g # NoGame THEN sv_count + 1 ELSE sv_count
           /\ cl' = [cl EXCEPT ![c].id = SeatId(s.players, @), ![c].affected_sv_id = g]
           /\ hearts' = IF s.running = 0 THEN [hearts EXCEPT ![g].created = @ + 1] ELSE hearts
  BY DEF Join
<1> DEFINE s == IF g < sv_count THEN sv[g] ELSE InitServer(mode)
<1>2. /\ c \in Clients /\ g \in Games \cup {NoGame}
      /\ g # NoGame => g \in Games
      /\ g < sv_count => g \in Games
  BY TablesAssumption DEF SeatsInv, TypeOK, Clients, Games, NoGame
<1>3. s \in ServerType /\ s.players_count = Taken(s.players)
  <2>1. CASE g < sv_count
    BY <1>1, <1>2, <2>1 DEF SeatsInv, TypeOK, SeatCountExact
  <2>2. CASE ~(g < sv_count)
    BY <2>2, InitServerExact
  <2> QED BY <2>1, <2>2
<1>4. /\ sv' = IF g = NoGame THEN sv ELSE [sv EXCEPT ![g] = Seated(s, c)]
      /\ cl' = [cl EXCEPT ![c].id = SeatId(s.players, @), ![c].affected_sv_id = g]
      /\ sv_count' = IF g = sv_count /\ g # NoGame THEN sv_count + 1 ELSE sv_count
  BY <1>1
<1> HIDE DEF s
<1>5. Seated(s, c) \in ServerType
      /\ Seated(s, c).players_count = Taken(Seated(s, c).players)
  BY <1>2, <1>3, SeatedExact
<1>6. sv' \in [Games -> ServerType] /\ SeatCountExact'
  BY <1>2, <1>4, <1>5 DEF SeatsInv, TypeOK, SeatCountExact
<1>7. cl' \in [Clients -> ClientType]
  <2>1. cl[c] \in ClientType /\ cl[c].id \in Seats
    BY <1>2 DEF SeatsInv, TypeOK, ClientType
  <2>2. SeatId(s.players, cl[c].id) \in Seats
    BY <1>3, <2>1, SeatIdType DEF ServerType
  <2>3. cl' = [cl EXCEPT ![c] = [cl[c] EXCEPT !.id = SeatId(s.players, cl[c].id),
                                              !.affected_sv_id = g]]
    BY <1>2, <1>4 DEF SeatsInv, TypeOK, ClientType
  <2>4. [cl[c] EXCEPT !.id = SeatId(s.players, cl[c].id), !.affected_sv_id = g]
          \in ClientType
    BY <1>2, <2>1, <2>2 DEF ClientType
  <2> QED BY <2>3, <2>4 DEF SeatsInv, TypeOK
<1>8. sv_count' \in 0 .. MAX_SERVERS
  <2>1. sv_count \in 0 .. MAX_SERVERS /\ MAX_SERVERS \in Nat
    BY TablesAssumption DEF SeatsInv, TypeOK
  <2> QED BY <1>4, <2>1 DEF NoGame
<1>9. hearts' \in [Games \cup {NoGame} -> [Phases -> Nat]]
  <2>1. "created" \in Phases
    BY DEF Phases
  <2> QED BY <1>1, <1>2, <2>1 DEF SeatsInv, TypeOK
<1>10. /\ clients' \in [Entries -> EntryType]
       /\ \A e \in Entries \ {0} : clients'[e].fd # Listener
  <2>1. clients' = [clients EXCEPT ![poll_i].events = "OUT"]
    BY DEF Join
  <2> QED BY <2>1, EventsType
<1> QED BY <1>6, <1>7, <1>8, <1>9, <1>10 DEF Join, Done, SeatsInv, TypeOK

LEMMA ReadyKeeps == SeatsInv /\ Ready => SeatsInv'
<1> SUFFICES ASSUME SeatsInv, Ready PROVE SeatsInv'
  OBVIOUS
<1>1. PICK c \in 1 .. cl_count : cl' = [cl EXCEPT ![c].ready = 1]
  BY DEF Ready
<1>2. cl' \in [Clients -> ClientType]
  BY <1>1 DEF SeatsInv, TypeOK, ClientType
<1>3. /\ clients' \in [Entries -> EntryType]
      /\ \A e \in Entries \ {0} : clients'[e].fd # Listener
  BY UnwatchedType DEF Ready
<1> QED BY <1>2, <1>3 DEF Ready, Done, SeatsInv, TypeOK, SeatCountExact, games

LEMMA SendInitKeeps == SeatsInv /\ SendInit => SeatsInv'
<1> SUFFICES ASSUME SeatsInv, SendInit PROVE SeatsInv'
  OBVIOUS
<1>1. clients' = clients \/ clients' = [clients EXCEPT ![poll_i].events = "IN"]
  BY DEF SendInit
<1>2. /\ clients' \in [Entries -> EntryType]
      /\ \A e \in Entries \ {0} : clients'[e].fd # Listener
  <2>1. CASE clients' = clients
    BY <2>1 DEF SeatsInv, TypeOK
  <2>2. CASE clients' = [clients EXCEPT ![poll_i].events = "IN"]
    BY <2>2, EventsType
  <2> QED BY <1>1, <2>1, <2>2
<1>3. /\ pc' \in {"visit", "close"} /\ poll_i' = poll_i
      /\ temp' \in {temp, NoSocket}
  BY DEF SendInit, Done, Go
<1> QED BY <1>2, <1>3 DEF SendInit, SeatsInv, TypeOK, SeatCountExact, registry, games

LEMMA CloseAndFreeKeeps == SeatsInv /\ CloseAndFree => SeatsInv'
<1> SUFFICES ASSUME SeatsInv, CloseAndFree PROVE SeatsInv'
  OBVIOUS
<1>1. PICK c \in 1 .. cl_count :
        /\ cl[c].affected_sv_id < sv_count
        /\ sv' = [sv EXCEPT ![cl[c].affected_sv_id] = Unseated(@, cl[c].sock_fd)]
  BY DEF CloseAndFree
<1> DEFINE g == cl[c].affected_sv_id
<1>2. sv' \in [Games -> ServerType] /\ SeatCountExact'
  <2> DEFINE u == Unseated(sv[g], cl[c].sock_fd)
  <2>1. CASE g \in Games
    <3>1. u \in ServerType /\ u.freed = sv[g].freed
          /\ (sv[g].players_count = Taken(sv[g].players) => u.players_count = Taken(u.players))
      BY <2>1, UnseatedExact DEF SeatsInv, TypeOK
    <3>2. sv' = [sv EXCEPT ![g] = u]
      BY <1>1
    <3> HIDE DEF g, u
    <3> QED BY <2>1, <3>1, <3>2 DEF SeatsInv, TypeOK, SeatCountExact
  <2>2. CASE g \notin Games
    <3>1. sv' = sv
      BY <1>1, <2>2 DEF SeatsInv, TypeOK
    <3> QED BY <3>1 DEF SeatsInv, TypeOK, SeatCountExact
  <2> QED BY <2>1, <2>2
<1>3. /\ clients' \in [Entries -> EntryType]
      /\ \A e \in Entries \ {0} : clients'[e].fd # Listener
  BY UnwatchedType DEF CloseAndFree
<1> QED BY <1>2, <1>3 DEF CloseAndFree, Done, SeatsInv, TypeOK, registry

(* The steps of the games' threads *)

LEMMA MovesType ==
  ASSUME SeatsInv, NEW g \in Games \cup {NoGame}, NEW from \in Phases, NEW to \in Phases,
         from # to, Moves(g, from, to)
  PROVE  hearts' \in [Games \cup {NoGame} -> [Phases -> Nat]]
<1>1. hearts[g] \in [Phases -> Nat] /\ hearts[g][from] > 0
  BY DEF SeatsInv, TypeOK, Moves
<1>2. [hearts[g] EXCEPT ![from] = @ - 1, ![to] = @ + 1] \in [Phases -> Nat]
  BY <1>1
<1>3. hearts' = [hearts EXCEPT ![g] = [hearts[g] EXCEPT ![from] = @ - 1, ![to] = @ + 1]]
  BY DEF Moves, SeatsInv, TypeOK
<1> QED BY <1>2, <1>3 DEF SeatsInv, TypeOK

LEMMA SvJobRunsKeeps ==
  ASSUME SeatsInv, NEW g \in Games \cup {NoGame}, SvJobRuns(g)
  PROVE  SeatsInv'
<1>1. hearts' \in [Games \cup {NoGame} -> [Phases -> Nat]]
  BY MovesType DEF SvJobRuns, Phases
<1>2. sv' \in [Games -> ServerType] /\ SeatCountExact'
  <2>1. CASE g = NoGame
    BY <2>1 DEF SvJobRuns, SeatsInv, TypeOK, SeatCountExact
  <2>2. CASE g # NoGame
    <3>1. g \in Games /\ sv[g] \in ServerType
      BY <2>2 DEF SeatsInv, TypeOK
    <3> DEFINE s == [sv[g] EXCEPT !.running = 1]
    <3>2. /\ s \in ServerType /\ s.players = sv[g].players
          /\ s.players_count = sv[g].players_count /\ s.freed = sv[g].freed
      BY <3>1 DEF ServerType
    <3>3. sv' = [sv EXCEPT ![g] = s]
      BY <2>2, <3>1 DEF SvJobRuns, SeatsInv, TypeOK
    <3> HIDE DEF s
    <3> QED BY <3>1, <3>2, <3>3 DEF SeatsInv, TypeOK, SeatCountExact
  <2> QED BY <2>1, <2>2
<1> QED BY <1>1, <1>2 DEF SvJobRuns, SeatsInv, TypeOK, table, handler, registry

LEMMA SvJobClearsKeeps ==
  ASSUME SeatsInv, NEW g \in Games \cup {NoGame}, SvJobClears(g)
  PROVE  SeatsInv'
<1>1. hearts' \in [Games \cup {NoGame} -> [Phases -> Nat]]
  BY MovesType DEF SvJobClears, Phases
<1>2. /\ clients' \in [Entries -> EntryType]
      /\ \A e \in Entries \ {0} : clients'[e].fd # Listener
  BY SocketsAssumption DEF SvJobClears, Cleared, EntryType
<1> QED BY <1>1, <1>2
        DEF SvJobClears, SeatsInv, TypeOK, SeatCountExact, handler, registry

LEMMA SvJobStartsKeeps ==
  ASSUME SeatsInv, NEW g \in Games, SvJobStarts(g)
  PROVE  SeatsInv'
<1>1. hearts' \in [Games \cup {NoGame} -> [Phases -> Nat]]
  BY MovesType DEF SvJobStarts, Phases
<1> QED BY <1>1
        DEF SvJobStarts, SeatsInv, TypeOK, SeatCountExact, table, handler, registry

LEMMA SvJobEndsKeeps ==
  ASSUME SeatsInv, NEW g \in Games, SvJobEnds(g)
  PROVE  SeatsInv'
<1>1. sv[g] \in ServerType
  BY DEF SeatsInv, TypeOK
<1>2. sv' = [sv EXCEPT ![g] = ShutDown(sv[g])]
  BY DEF SvJobEnds
<1>3. ShutDown(sv[g]) \in ServerType /\ ShutDown(sv[g]).freed
  BY <1>1, ShutDownType
<1>4. sv' \in [Games -> ServerType] /\ SeatCountExact'
  BY <1>2, <1>3 DEF SeatsInv, TypeOK, SeatCountExact
<1> QED BY <1>4 DEF SvJobEnds, SeatsInv, TypeOK, table, handler, registry

-----------------------------------------------------------------------------

LEMMA NextKeepsSeats == SeatsInv /\ [Next]_vars => SeatsInv'
<1> SUFFICES ASSUME SeatsInv, [Next]_vars PROVE SeatsInv'
  OBVIOUS
<1>1. CASE PollReturns
  BY <1>1, PollReturnsKeeps
<1>2. CASE PollAgain
  BY <1>2, PollAgainKeeps
<1>3. CASE \E fd \in Sockets \ open : Accept(fd)
  BY <1>3, AcceptKeeps
<1>4. CASE \E e \in Entries : Visit(e)
  BY <1>4, VisitKeeps
<1>5. CASE \E mode \in Modes : Join(mode)
  BY <1>5, JoinKeeps
<1>6. CASE Ready
  BY <1>6, ReadyKeeps
<1>7. CASE SendInit
  BY <1>7, SendInitKeeps
<1>8. CASE CloseAndFree
  BY <1>8, CloseAndFreeKeeps
<1>9. CASE NoAccept \/ AcceptFails \/ Reject \/ EndOfStream
  BY <1>9, StillKeeps DEF NoAccept, AcceptFails, Reject, EndOfStream, Go, Still
<1>10. CASE AcceptFull \/ Unregistered \/ LostGame \/ CloseStumbles
  BY <1>10, StillKeeps
     DEF AcceptFull, Unregistered, LostGame, CloseStumbles, Breaks, Go, Still
<1>11. CASE Chat
  BY <1>11 DEF Chat, Done, table, registry, games, SeatsInv, TypeOK, SeatCountExact
<1>12. CASE \E g \in Games \cup {NoGame} : SvJobRuns(g) \/ SvJobClears(g)
  BY <1>12, SvJobRunsKeeps, SvJobClearsKeeps
<1>13. CASE \E g \in Games : SvJobStarts(g) \/ SvJobEnds(g)
  BY <1>13, SvJobStartsKeeps, SvJobEndsKeeps
<1>14. CASE \E g \in Games : SvJobBreaks(g)
  BY <1>14, StillKeeps DEF SvJobBreaks, Breaks, Go, Still
<1>15. CASE UNCHANGED vars
  BY <1>15 DEF vars, table, handler, registry, games, SeatsInv, TypeOK, SeatCountExact
<1> QED BY <1>1, <1>2, <1>3, <1>4, <1>5, <1>6, <1>7, <1>8, <1>9, <1>10, <1>11,
           <1>12, <1>13, <1>14, <1>15 DEF Next

\* The tables of the handler always have their types.
THEOREM LobbyTypeCorrect == Spec => []TypeOK
<1>1. SeatsInv => TypeOK
  BY DEF SeatsInv
<1> QED BY <1>1, InitSeats, NextKeepsSeats, PTL DEF Spec

\* However many seats a client takes and however its departure counts them down,
\* a game that is not shut down counts exactly the seats that are taken.
THEOREM SeatsCounted == Spec => []SeatCountExact
<1>1. SeatsInv => SeatCountExact
  BY DEF SeatsInv
<1> QED BY <1>1, InitSeats, NextKeepsSeats, PTL DEF Spec
=============================================================================
