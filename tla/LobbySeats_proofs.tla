-------------------------- MODULE LobbySeats_proofs --------------------------
(***************************************************************************)
(* Each game of Lobby implements GameSeats, for every size of the tables   *)
(* and whatever malloc leaves in the records.                              *)
(***************************************************************************)
EXTENDS LobbyTable_proofs

\* A seat holds the record that find_client returns for its descriptor, so that one
\* departure empties the seats of one client; a game not in the queue has not been shut
\* down; and a message that the handler still has to read finds no free seat in a game
\* that is played.
GameInv ==
  /\ \A g \in Games, k \in Seats : sv[g].players[k] # NULL =>
       \A j \in 1 .. sv[g].players[k] - 1 : cl[j].sock_fd # cl[sv[g].players[k]].sock_fd
  /\ \A g \in Games : g >= sv_count => ~sv[g].freed
  /\ pc = "recv" /\ temp \in Sockets =>
       \A g \in Games : hearts[g].playing > 0 /\ ~sv[g].freed =>
         \A k \in Seats : sv[g].players[k] # NULL

GameContext ==
  /\ SeatsInv /\ TableInv /\ RecordsInv /\ GameInv
  /\ ReadyGarbage = {0} => ReadyInv

-----------------------------------------------------------------------------
(* The steps of GameSeats, seen from a game of Lobby *)

LEMMA GameStill ==
  ASSUME NEW f \in Games, sv'[f].players = sv[f].players, SaidReady' = SaidReady,
         Phase(f)' = Phase(f)
  PROVE  UNCHANGED Game(f)!vars
  BY DEF Game!vars

LEMMA GameTakes ==
  ASSUME NEW f \in Games, Phase(f) = "filling", Phase(f)' = "filling",
         SaidReady' = SaidReady, NEW c \in Clients,
         \A k \in Seats : sv'[f].players[k] = IF sv[f].players[k] = NULL THEN c
                                              ELSE sv[f].players[k],
         sv'[f].players \in [Seats -> Clients \cup {NULL}]
  PROVE  Game(f)!Next
  BY DEF Game!Next, Game!Take, Game!Seats, Seats

LEMMA GameLeaves ==
  ASSUME NEW f \in Games, Phase(f) # "over", Phase(f)' = Phase(f),
         SaidReady' = SaidReady, NEW c \in Clients \ SaidReady,
         \A k \in Seats : sv'[f].players[k] = sv[f].players[k]
                          \/ (sv[f].players[k] = c /\ sv'[f].players[k] = NULL),
         sv'[f].players \in [Seats -> Clients \cup {NULL}]
  PROVE  Game(f)!Next
  BY DEF Game!Next, Game!Leave, Game!Seats, Seats

LEMMA GameGetsReady ==
  ASSUME NEW f \in Games, sv'[f].players = sv[f].players, Phase(f)' = Phase(f),
         NEW c \in Clients \ Early, SaidReady' = SaidReady \cup {c}
  PROVE  Game(f)!Next
  BY DEF Game!Next, Game!GetReady

LEMMA GameStarts ==
  ASSUME NEW f \in Games, Phase(f) = "filling", Phase(f)' = "playing",
         sv'[f].players = sv[f].players, SaidReady' = SaidReady,
         \A k \in Seats : sv[f].players[k] \in SaidReady \cup Early
  PROVE  Game(f)!Next
  BY DEF Game!Next, Game!Start, Game!Seats, Seats

LEMMA GameEnds ==
  ASSUME NEW f \in Games, Phase(f) # "over", Phase(f)' = "over", SaidReady' = SaidReady,
         sv'[f].players = [k \in Seats |-> NULL]
  PROVE  Game(f)!Next
  BY DEF Game!Next, Game!End, Game!Seats, Seats

-----------------------------------------------------------------------------
(* Who has said to be ready *)

LEMMA EarlyIs == (ReadyGarbage = {0} /\ Early = {}) \/ (ReadyGarbage # {0} /\ Early = Clients)
  BY DEF Early

LEMMA SaidKept ==
  ASSUME cl_count \in Nat, cl_count' \in Nat, cl_count <= cl_count',
         \A c \in 1 .. cl_count : cl'[c].ready = cl[c].ready,
         \A c \in 1 .. cl_count' : c \in 1 .. cl_count \/ cl'[c].ready \in ReadyGarbage
  PROVE  SaidReady' = SaidReady
<1>1. ReadyGarbage = {0} => SaidReady' = SaidReady
  BY TablesAssumption DEF SaidReady, Clients
<1>2. ReadyGarbage # {0} => SaidReady' = {} /\ SaidReady = {}
  BY EarlyIs DEF SaidReady, Early
<1> QED BY <1>1, <1>2

LEMMA SaidSame ==
  ASSUME UNCHANGED <<cl, cl_count>>
  PROVE  SaidReady' = SaidReady
  BY DEF SaidReady, Early

-----------------------------------------------------------------------------
(* Each step of Lobby is a step or a stutter of every game *)

LEMMA JoinGame ==
  ASSUME GameContext, NEW mode \in Modes, Join(mode), NEW f \in Games
  PROVE  [Game(f)!Next]_(Game(f)!vars)
<1>1. SeatsInv /\ TableInv /\ RecordsInv /\ GameInv
  BY DEF GameContext
<1>2. PICK c \in 1 .. cl_count, g \in Games \cup {NoGame}, s \in ServerType : Joining(c, g, s)
  BY <1>1, JoinFacts
<1>3. c \in Clients /\ cl_count \in Nat /\ cl_count' = cl_count /\ sv_count \in Nat /\ f \in Nat
  BY <1>1, TablesAssumption DEF SeatsInv, TypeOK, Clients, Join, Games
<1>4. SaidReady' = SaidReady
  <2>1. cl' = Rewritten(c, SeatId(s.players, cl[c].id), g)
    BY <1>2 DEF Joining
  <2>2. \A d \in 1 .. cl_count : cl'[d].ready = cl[d].ready
    BY <1>1, <2>1, JoinRecords
  <2> QED BY <1>3, <2>2, SaidKept
<1>5. hearts'[f].playing = hearts[f].playing
  BY <1>2 DEF Joining, Phases
<1>6. CASE f # g
  <2>1. sv'[f] = sv[f]
    BY <1>1, <1>2, <1>6 DEF Joining, SeatsInv, TypeOK
  <2> QED BY <1>4, <1>5, <2>1, GameStill DEF Phase
<1>7. CASE f = g
  <2>1. sv' = [sv EXCEPT ![f] = Seated(s, c)]
    BY <1>2, <1>7, TablesAssumption DEF Joining, Games, NoGame
  <2>2. sv'[f] = Seated(s, c)
    BY <1>1, <2>1 DEF SeatsInv, TypeOK
  <2>3. ~s.freed /\ ~sv[f].freed /\ \A k \in Seats : s.players[k] = sv[f].players[k]
    BY <1>1, <1>2, <1>3, <1>7 DEF Joining, RecordsInv, GameInv
  <2>4. ~(hearts[f].playing > 0)
    <3>1. pc = "recv" /\ temp \in Sockets
      BY <1>1, <1>2, <1>3, TablesAssumption DEF Join, Joining, FoundClient, RecordsInv, NULL
    <3>2. \E k \in Seats : sv[f].players[k] = NULL
      BY <1>2, <2>3 DEF Joining
    <3> QED BY <1>1, <2>3, <3>1, <3>2 DEF GameInv
  <2>5. ~sv'[f].freed
    BY <2>2, <2>3 DEF Seated, ServerType
  <2>6. \A k \in Seats : sv'[f].players[k] = IF sv[f].players[k] = NULL THEN c
                                             ELSE sv[f].players[k]
    BY <2>2, <2>3, SeatedSeats
  <2>7. sv'[f].players \in [Seats -> Clients \cup {NULL}]
    <3>1. TypeOK'
      BY <1>1, JoinKeeps DEF SeatsInv
    <3> QED BY <3>1 DEF TypeOK, ServerType
  <2>8. Phase(f) = "filling" /\ Phase(f)' = "filling"
    BY <1>5, <2>3, <2>4, <2>5 DEF Phase
  <2> QED BY <1>3, <1>4, <2>6, <2>7, <2>8, GameTakes
<1> QED BY <1>6, <1>7

LEMMA ReadyGame ==
  ASSUME GameContext, Ready, NEW f \in Games
  PROVE  [Game(f)!Next]_(Game(f)!vars)
<1>1. SeatsInv
  BY DEF GameContext
<1>2. PICK c \in 1 .. cl_count :
        cl'[c].ready = 1 /\ \A d \in 1 .. cl_count : d # c => cl'[d].ready = cl[d].ready
  BY <1>1, ReadyRecords
<1>3. c \in Clients /\ cl_count' = cl_count /\ UNCHANGED <<sv, hearts>>
  BY <1>1, TablesAssumption DEF SeatsInv, TypeOK, Clients, Ready, games
<1>4. Phase(f)' = Phase(f)
  BY <1>3 DEF Phase
<1>5. CASE ReadyGarbage = {0}
  <2>1. SaidReady' = SaidReady \cup {c} /\ c \in Clients \ Early
    BY <1>1, <1>2, <1>3, <1>5, EarlyIs, TablesAssumption DEF SaidReady, Clients, SeatsInv, TypeOK
  <2> QED BY <1>3, <1>4, <2>1, GameGetsReady
<1>6. CASE ReadyGarbage # {0}
  <2>1. SaidReady' = {} /\ SaidReady = {}
    BY <1>6, EarlyIs DEF SaidReady, Early
  <2> QED BY <1>3, <1>4, <2>1, GameStill
<1> QED BY <1>5, <1>6

\* A departure empties the seats of one client, which has not said it was ready; a game
\* that was shut down with nobody left has nothing to empty.
LEMMA CloseGame ==
  ASSUME GameContext, CloseAndFree, NEW f \in Games
  PROVE  [Game(f)!Next]_(Game(f)!vars)
<1>1. SeatsInv /\ TableInv /\ RecordsInv /\ GameInv
  BY DEF GameContext
<1>2. PICK c \in 1 .. cl_count :
        /\ FoundClient(temp, c) /\ cl[c].affected_sv_id < sv_count
        /\ ~Stumbles(sv[cl[c].affected_sv_id], cl[c].sock_fd)
        /\ sv' = [sv EXCEPT ![cl[c].affected_sv_id] = Unseated(@, cl[c].sock_fd)]
  BY DEF CloseAndFree
<1> DEFINE g == cl[c].affected_sv_id
<1>3. c \in Clients /\ cl_count \in Nat /\ cl[c].sock_fd = temp
  BY <1>1, <1>2, TablesAssumption DEF SeatsInv, TypeOK, Clients, FoundClient, NULL
<1>4. UNCHANGED <<cl, cl_count, hearts>> /\ AtEntry
  BY DEF CloseAndFree, registry, AtEntry
<1>5. SaidReady' = SaidReady
  BY <1>4, SaidSame
<1>6. sv[f] \in ServerType /\ sv'[f] = IF f = g THEN Unseated(sv[f], temp) ELSE sv[f]
  BY <1>1, <1>2, <1>3 DEF SeatsInv, TypeOK
<1>7. sv'[f].freed = sv[f].freed
  BY <1>6, UnseatedExact
<1>8. Phase(f)' = Phase(f)
  BY <1>4, <1>7 DEF Phase
<1>9. CASE f # g
  BY <1>5, <1>6, <1>8, <1>9, GameStill
<1>10. CASE f = g /\ sv[f].freed
  <2>1. ~(sv[f].players_count > 0) /\ sv[f].players_count \in 0 .. 4
    BY <1>2, <1>6, <1>10 DEF Stumbles, ServerType
  <2>2. \A k \in Seats : Visited(sv[f], k, temp) = sv[f]
    BY <2>1 DEF Visited, Seats
  <2>3. sv'[f] = sv[f]
    BY <1>6, <1>10, <2>2 DEF Unseated, Seats
  <2> QED BY <1>5, <1>8, <2>3, GameStill
<1>11. CASE f = g /\ ~sv[f].freed
  <2>1. c \notin SaidReady
    BY <1>3, <1>4, EarlyIs, TablesAssumption DEF GameContext, ReadyInv, Left, SaidReady, Clients
  <2>2. ASSUME NEW k \in Seats
        PROVE  sv'[f].players[k] = sv[f].players[k]
               \/ (sv[f].players[k] = c /\ sv'[f].players[k] = NULL)
    <3>1. CASE sv'[f].players[k] = sv[f].players[k]
      BY <3>1
    <3>2. CASE sv'[f].players[k] # sv[f].players[k]
      <4>1. /\ sv'[f].players[k] = NULL /\ sv[f].players[k] # NULL
            /\ cl[sv[f].players[k]].sock_fd = temp
        BY <1>6, <1>11, <3>2, UnseatedSeats
      <4>2. sv[f].players[k] \in 1 .. cl_count
        BY <1>1, <1>3, <4>1 DEF RecordsInv, NULL
      <4>3. ~(c < sv[f].players[k])
        BY <1>1, <1>3, <4>1, <4>2 DEF GameInv
      <4>4. ~(sv[f].players[k] < c)
        BY <1>2, <1>3, <4>1, <4>2 DEF FoundClient, NULL
      <4> QED BY <1>3, <4>1, <4>2, <4>3, <4>4
    <3> QED BY <3>1, <3>2
  <2>3. sv'[f].players \in [Seats -> Clients \cup {NULL}]
    BY <1>6, UnseatedExact DEF ServerType
  <2>4. Phase(f) # "over"
    BY <1>11 DEF Phase
  <2> QED BY <1>3, <1>5, <1>8, <2>1, <2>2, <2>3, <2>4, GameLeaves
<1> QED BY <1>9, <1>10, <1>11

\* The first thread that finds four ready players starts the game.
LEMMA ThreadGame ==
  ASSUME GameContext, NEW f \in Games, NEW g \in Games \cup {NoGame},
         SvJobRuns(g) \/ SvJobClears(g) \/ (g \in Games /\ SvJobStarts(g))
  PROVE  [Game(f)!Next]_(Game(f)!vars)
<1>1. SeatsInv /\ RecordsInv
  BY DEF GameContext
<1>2. /\ UNCHANGED <<cl, cl_count>>
      /\ sv'[f].players = sv[f].players /\ sv'[f].freed = sv[f].freed
      /\ \A h \in Phases : f # g => hearts'[f][h] = hearts[f][h]
  BY <1>1, ThreadFacts
<1>3. SaidReady' = SaidReady
  BY <1>2, SaidSame
<1>4. hearts \in [Games \cup {NoGame} -> [Phases -> Nat]]
  BY <1>1 DEF SeatsInv, TypeOK
<1>5. CASE hearts'[f].playing = hearts[f].playing
  BY <1>2, <1>3, <1>5, GameStill DEF Phase
<1>6. CASE hearts'[f].playing # hearts[f].playing
  <2>1. f = g /\ SvJobStarts(f)
    BY <1>2, <1>4, <1>6 DEF SvJobRuns, SvJobClears, Moves, Phases
  <2>2. hearts'[f].playing = hearts[f].playing + 1 /\ hearts[f].playing \in Nat
    BY <1>4, <2>1 DEF SvJobStarts, Moves, Phases
  <2>3. CASE hearts[f].playing > 0
    BY <1>2, <1>3, <2>2, <2>3, GameStill DEF Phase
  <2>4. CASE ~(hearts[f].playing > 0)
    <3>1. Phase(f) = "filling" /\ Phase(f)' = "playing"
      BY <1>2, <2>1, <2>2, <2>4 DEF Phase, SvJobStarts
    <3>2. ASSUME NEW k \in Seats
          PROVE  sv[f].players[k] \in SaidReady \cup Early
      <4>1. sv[f].players[k] # NULL
        BY <2>1, <3>2 DEF SvJobStarts, HasGap, Seats
      <4>2. sv[f].players[k] \in 1 .. cl_count /\ cl_count \in 0 .. MAX_CLIENTS
        BY <1>1, <3>2, <4>1, TablesAssumption DEF RecordsInv, SeatsInv, TypeOK, NULL
      <4>3. cl[sv[f].players[k]].ready = 1
        BY <2>1, <3>2 DEF SvJobStarts
      <4> QED BY <4>2, <4>3, EarlyIs, TablesAssumption DEF SaidReady, Clients
    <3> QED BY <1>2, <1>3, <3>1, <3>2, GameStarts
  <2> QED BY <2>3, <2>4
<1> QED BY <1>5, <1>6

\* A game that ends without a gap in its seats frees them all.
LEMMA EndsGame ==
  ASSUME GameContext, NEW f \in Games, NEW g \in Games, SvJobEnds(g)
  PROVE  [Game(f)!Next]_(Game(f)!vars)
<1>1. SeatsInv
  BY DEF GameContext
<1>2. /\ UNCHANGED <<cl, cl_count, hearts>> /\ ~sv[g].freed /\ ~HasGap(sv[g])
      /\ sv' = [sv EXCEPT ![g] = ShutDown(sv[g])]
  BY DEF SvJobEnds, registry
<1>3. SaidReady' = SaidReady
  BY <1>2, SaidSame
<1>4. sv \in [Games -> ServerType]
  BY <1>1 DEF SeatsInv, TypeOK
<1>5. CASE f # g
  <2>1. sv'[f] = sv[f]
    BY <1>2, <1>4, <1>5
  <2> QED BY <1>2, <1>3, <2>1, GameStill DEF Phase
<1>6. CASE f = g
  <2>1. sv'[f] = ShutDown(sv[f]) /\ sv[f] \in ServerType
    BY <1>2, <1>4, <1>6
  <2>2. /\ sv[f].players \in [Seats -> Clients \cup {NULL}] /\ sv[f].players_count \in 0 .. 4
        /\ sv[f].players_count = Taken(sv[f].players)
        /\ \A k \in Seats : k < sv[f].players_count => sv[f].players[k] # NULL
    BY <1>1, <1>2, <1>6, <2>1 DEF ServerType, SeatsInv, SeatCountExact, HasGap
  <2>3. \A k \in Seats : ~(k < sv[f].players_count) => sv[f].players[k] = NULL
    BY <2>2 DEF Taken, One, Seats
  <2>4. sv'[f].players = [k \in Seats |-> IF k < sv[f].players_count THEN NULL
                                          ELSE sv[f].players[k]]
        /\ sv'[f].freed
    BY <2>1 DEF ShutDown, ServerType
  <2>5. sv'[f].players = [k \in Seats |-> NULL]
    BY <2>3, <2>4
  <2>6. Phase(f) # "over" /\ Phase(f)' = "over"
    BY <1>2, <1>6, <2>4 DEF Phase
  <2> QED BY <1>3, <2>5, <2>6, GameEnds
<1> QED BY <1>5, <1>6

LEMMA AcceptGame ==
  ASSUME GameContext, NEW f \in Games, NEW fd \in Sockets \ open, Accept(fd)
  PROVE  [Game(f)!Next]_(Game(f)!vars)
<1>1. SeatsInv /\ cl_count \in Nat
  BY TablesAssumption DEF GameContext, SeatsInv, TypeOK
<1>2. SaidReady' = SaidReady
  BY <1>1, AcceptRecords, SaidKept
<1>3. UNCHANGED <<sv, hearts>>
  BY DEF Accept, games
<1> QED BY <1>2, <1>3, GameStill DEF Phase

LEMMA NextGame ==
  ASSUME GameContext, [Next]_vars, NEW f \in Games
  PROVE  [Game(f)!Next]_(Game(f)!vars)
<1>1. CASE \E mode \in Modes : Join(mode)
  BY <1>1, JoinGame
<1>2. CASE Ready \/ CloseAndFree
  BY <1>2, ReadyGame, CloseGame
<1>3. CASE \E fd \in Sockets \ open : Accept(fd)
  BY <1>3, AcceptGame
<1>4. CASE \E g \in Games \cup {NoGame} : SvJobRuns(g) \/ SvJobClears(g)
  BY <1>4, ThreadGame
<1>5. CASE \E g \in Games : SvJobStarts(g) \/ SvJobEnds(g)
  BY <1>5, ThreadGame, EndsGame
<1>6. CASE PollReturns \/ NoAccept \/ AcceptFull \/ AcceptFails \/ PollAgain
           \/ (\E e \in Entries : Visit(e))
           \/ Unregistered \/ LostGame \/ Chat \/ Reject \/ EndOfStream \/ SendInit
           \/ CloseStumbles \/ (\E g \in Games : SvJobBreaks(g)) \/ UNCHANGED vars
  <2>1. UNCHANGED <<cl, cl_count, sv, hearts>>
    BY <1>6 DEF PollReturns, NoAccept, AcceptFull, AcceptFails, PollAgain, Visit,
                Unregistered, LostGame, Chat, Reject, EndOfStream, SendInit,
                CloseStumbles, SvJobBreaks, Breaks, games, registry, vars
  <2> QED BY <2>1, SaidSame, GameStill DEF Phase
<1> QED BY <1>1, <1>2, <1>3, <1>4, <1>5, <1>6 DEF Next

-----------------------------------------------------------------------------
(* The invariant *)

LEMMA InitGameInv == Init => GameInv
<1> SUFFICES ASSUME Init PROVE GameInv
  OBVIOUS
<1>1. \A g \in Games, k \in Seats : sv[g].players[k] = NULL
  BY DEF Init, InitServer
<1>2. pc = "poll" /\ \A g \in Games : sv[g].freed = FALSE
  BY DEF Init, InitServer
<1> QED BY <1>1, <1>2 DEF GameInv

\* The seats, the descriptors of their holders and the games played are as they were,
\* and the handler is at no message, or at the one it was at.
LEMMA GameInvStill ==
  ASSUME GameInv, UNCHANGED <<cl, sv, sv_count, hearts>>,
         pc' = "recv" => pc = "recv" /\ temp' = temp
  PROVE  GameInv'
  BY DEF GameInv

LEMMA VisitGameInv ==
  ASSUME GameContext, NEW e \in Entries, Visit(e)
  PROVE  GameInv'
<1>1. UNCHANGED <<cl, sv, sv_count, hearts>> /\ temp' = clients[e].fd
  BY DEF Visit, registry, games
<1>2. temp' \in Sockets => ~Emptied
  BY <1>1 DEF GameContext, TableInv, StaysEmpty
<1>3. temp' \in Sockets => \A g \in Games : ~(hearts[g].playing > 0)
  BY <1>2 DEF Emptied
<1> QED BY <1>1, <1>3 DEF GameContext, GameInv

LEMMA AcceptGameInv ==
  ASSUME GameContext, NEW fd \in Sockets \ open, Accept(fd)
  PROVE  GameInv'
<1>1. SeatsInv /\ RecordsInv /\ GameInv /\ cl_count \in Nat
  BY TablesAssumption DEF GameContext, SeatsInv, TypeOK
<1>2. \A c \in 1 .. cl_count : cl'[c] = cl[c]
  BY <1>1, AcceptRecords
<1>3. UNCHANGED <<sv, sv_count, hearts>> /\ pc' = "visit"
  BY DEF Accept, games, Go
<1>4. ASSUME NEW g \in Games, NEW k \in Seats, sv[g].players[k] # NULL,
             NEW j \in 1 .. sv[g].players[k] - 1
      PROVE  cl'[j].sock_fd # cl'[sv[g].players[k]].sock_fd
  <2>1. sv[g].players[k] \in 1 .. cl_count
    BY <1>1, <1>4 DEF RecordsInv, NULL
  <2>2. j \in 1 .. cl_count
    BY <1>1, <2>1
  <2> QED BY <1>1, <1>2, <1>4, <2>1, <2>2 DEF GameInv
<1> QED BY <1>1, <1>3, <1>4 DEF GameInv

LEMMA JoinGameInv ==
  ASSUME GameContext, NEW mode \in Modes, Join(mode)
  PROVE  GameInv'
<1>1. SeatsInv /\ RecordsInv /\ GameInv /\ cl_count \in Nat /\ sv_count \in Nat
  BY TablesAssumption DEF GameContext, SeatsInv, TypeOK
<1>2. PICK c \in 1 .. cl_count, g \in Games \cup {NoGame}, s \in ServerType : Joining(c, g, s)
  BY <1>1, JoinFacts
<1>3. \A d \in 1 .. cl_count : cl'[d].sock_fd = cl[d].sock_fd
  <2>1. cl' = Rewritten(c, SeatId(s.players, cl[c].id), g)
    BY <1>2 DEF Joining
  <2> QED BY <1>1, <2>1, JoinRecords
<1>4. pc' = "visit"
  BY DEF Join, Done
<1>5. \A f \in Games : sv'[f] = sv[f] \/ (f = g /\ sv'[f] = Seated(s, c))
  BY <1>1, <1>2 DEF Joining, SeatsInv, TypeOK
<1>6. \A j \in 1 .. c - 1 : cl[j].sock_fd # cl[c].sock_fd
  BY <1>1, <1>2 DEF Joining, FoundClient, NULL
<1>7. ASSUME NEW f \in Games, NEW k \in Seats, sv'[f].players[k] # NULL,
             NEW j \in 1 .. sv'[f].players[k] - 1
      PROVE  cl'[j].sock_fd # cl'[sv'[f].players[k]].sock_fd
  <2>1. CASE sv'[f].players[k] = c
    BY <1>1, <1>3, <1>6, <1>7, <2>1
  <2>2. CASE sv'[f].players[k] = sv[f].players[k]
    <3>1. sv[f].players[k] \in 1 .. cl_count
      BY <1>1, <1>7, <2>2 DEF RecordsInv, NULL
    <3>2. j \in 1 .. cl_count /\ j \in 1 .. sv[f].players[k] - 1
      BY <1>1, <1>7, <2>2, <3>1
    <3> QED BY <1>1, <1>3, <1>7, <2>2, <3>1, <3>2 DEF GameInv
  <2>3. CASE f = g /\ sv'[f] = Seated(s, c)
    <3>1. sv'[f].players[k] = c \/ sv'[f].players[k] = s.players[k]
      BY <2>3, SeatedSeats
    <3>2. s.players[k] = sv[f].players[k]
      BY <1>1, <1>2, <2>3, TablesAssumption DEF Joining, RecordsInv, Games
    <3> QED BY <2>1, <2>2, <3>1, <3>2
  <2> QED BY <1>5, <2>2, <2>3
<1>8. ASSUME NEW f \in Games, f >= sv_count'
      PROVE  ~sv'[f].freed
  <2>1. f \in Nat /\ g \in Nat /\ g # f /\ f >= sv_count
    BY <1>1, <1>2, <1>8, TablesAssumption DEF Joining, Games, NoGame
  <2> QED BY <1>1, <1>5, <2>1 DEF GameInv
<1> QED BY <1>4, <1>7, <1>8 DEF GameInv

LEMMA ReadyGameInv == GameContext /\ Ready => GameInv'
<1> SUFFICES ASSUME GameContext, Ready PROVE GameInv'
  OBVIOUS
<1>1. SeatsInv /\ RecordsInv /\ GameInv /\ cl_count \in Nat
  BY TablesAssumption DEF GameContext, SeatsInv, TypeOK
<1>2. \A d \in 1 .. cl_count : cl'[d].sock_fd = cl[d].sock_fd
  BY <1>1, ReadyRecords
<1>3. UNCHANGED <<sv, sv_count, hearts>> /\ pc' = "visit"
  BY DEF Ready, games, Done
<1>4. ASSUME NEW g \in Games, NEW k \in Seats, sv[g].players[k] # NULL,
             NEW j \in 1 .. sv[g].players[k] - 1
      PROVE  cl'[j].sock_fd # cl'[sv[g].players[k]].sock_fd
  <2>1. sv[g].players[k] \in 1 .. cl_count
    BY <1>1, <1>4 DEF RecordsInv, NULL
  <2>2. j \in 1 .. cl_count
    BY <1>1, <2>1
  <2> QED BY <1>1, <1>2, <1>4, <2>1, <2>2 DEF GameInv
<1> QED BY <1>1, <1>3, <1>4 DEF GameInv

\* Seats are emptied; the handler is then at no message, or at the one it was at while a
\* thread shut a game down.
LEMMA EmptyingGameInv ==
  ASSUME GameContext, UNCHANGED <<cl, sv_count, hearts>>, NEW g \in Games, g < sv_count,
         NEW s \in ServerType, sv' = [sv EXCEPT ![g] = s],
         \A k \in Seats : s.players[k] \in {sv[g].players[k], NULL},
         pc' = "recv" => pc = "recv" /\ temp' = temp /\ s.freed
  PROVE  GameInv'
<1>1. sv \in [Games -> ServerType] /\ GameInv
  BY DEF GameContext, SeatsInv, TypeOK
<1>2. \A f \in Games : sv'[f] = IF f = g THEN s ELSE sv[f]
  BY <1>1
<1>3. \A f \in Games, k \in Seats : sv'[f].players[k] \in {sv[f].players[k], NULL}
  BY <1>2
<1>4. ~(g >= sv_count)
  BY TablesAssumption DEF GameContext, SeatsInv, TypeOK, Games
<1>5. \A f \in Games : f >= sv_count' => ~sv'[f].freed
  BY <1>1, <1>2, <1>4 DEF GameInv
<1>6. ASSUME pc' = "recv", temp' \in Sockets, NEW f \in Games, hearts'[f].playing > 0,
             ~sv'[f].freed, NEW k \in Seats
      PROVE  sv'[f].players[k] # NULL
  BY <1>1, <1>2, <1>6 DEF GameInv
<1>7. ASSUME NEW f \in Games, NEW k \in Seats, sv'[f].players[k] # NULL
      PROVE  \A j \in 1 .. sv'[f].players[k] - 1 : cl'[j].sock_fd # cl'[sv'[f].players[k]].sock_fd
  BY <1>1, <1>3, <1>7 DEF GameInv
<1> QED BY <1>5, <1>6, <1>7 DEF GameInv

LEMMA CloseGameInv == GameContext /\ CloseAndFree => GameInv'
<1> SUFFICES ASSUME GameContext, CloseAndFree PROVE GameInv'
  OBVIOUS
<1>1. SeatsInv
  BY DEF GameContext
<1>2. PICK g \in Games : sv' = [sv EXCEPT ![g] = Unseated(sv[g], temp)] /\ g < sv_count
  BY <1>1, CloseFacts
<1>3. sv[g] \in ServerType
  BY <1>1 DEF SeatsInv, TypeOK
<1>4. Unseated(sv[g], temp) \in ServerType
  BY <1>3, UnseatedExact
<1>5. \A k \in Seats : Unseated(sv[g], temp).players[k] \in {sv[g].players[k], NULL}
  BY <1>3, UnseatedSeats
<1>6. UNCHANGED <<cl, sv_count, hearts>> /\ pc' = "visit"
  BY DEF CloseAndFree, registry, Done
<1> HIDE DEF Unseated
<1> QED BY <1>2, <1>4, <1>5, <1>6, EmptyingGameInv

LEMMA EndsGameInv ==
  ASSUME GameContext, NEW g \in Games, SvJobEnds(g)
  PROVE  GameInv'
<1>1. SeatsInv /\ RecordsInv
  BY DEF GameContext
<1>2. /\ sv' = [sv EXCEPT ![g] = ShutDown(sv[g])] /\ MayEnd(g)
      /\ UNCHANGED <<cl, sv_count, hearts, pc, temp>>
  BY DEF SvJobEnds, registry, handler
<1>3. sv[g] \in ServerType /\ sv_count \in Nat /\ g \in Nat
  BY <1>1, TablesAssumption DEF SeatsInv, TypeOK, Games
<1>4. g < sv_count
  <2>1. hearts[g].waiting > 0 \/ hearts[g].playing > 0
    BY <1>2 DEF MayEnd
  <2> QED BY <1>1, <1>3, <2>1 DEF RecordsInv, Phases
<1>5. ShutDown(sv[g]) \in ServerType /\ ShutDown(sv[g]).freed
  BY <1>3, ShutDownType
<1>6. \A k \in Seats : ShutDown(sv[g]).players[k] \in {sv[g].players[k], NULL}
  BY <1>3 DEF ShutDown, ServerType
<1> QED BY <1>2, <1>4, <1>5, <1>6, EmptyingGameInv

\* A thread starts a game whose four seats are taken.
LEMMA ThreadGameInv ==
  ASSUME GameContext, NEW g \in Games \cup {NoGame},
         SvJobRuns(g) \/ SvJobClears(g) \/ (g \in Games /\ SvJobStarts(g))
  PROVE  GameInv'
<1>1. SeatsInv /\ GameInv
  BY DEF GameContext
<1>2. /\ UNCHANGED <<cl, sv_count, pc, temp>>
      /\ \A f \in Games : sv'[f].players = sv[f].players /\ sv'[f].freed = sv[f].freed
      /\ \A f \in Games : f # g => hearts'[f].playing = hearts[f].playing
  BY <1>1, ThreadFacts DEF Phases
<1>3. hearts \in [Games \cup {NoGame} -> [Phases -> Nat]]
  BY <1>1 DEF SeatsInv, TypeOK
<1>4. ASSUME NEW f \in Games, hearts'[f].playing > 0, ~sv'[f].freed,
             pc' = "recv", temp' \in Sockets
      PROVE  \A k \in Seats : sv'[f].players[k] # NULL
  <2>1. CASE hearts'[f].playing = hearts[f].playing
    BY <1>1, <1>2, <1>4, <2>1 DEF GameInv
  <2>2. CASE hearts'[f].playing # hearts[f].playing
    <3>1. SvJobStarts(f)
      BY <1>2, <1>3, <2>2 DEF SvJobRuns, SvJobClears, Moves, Phases
    <3> QED BY <1>2, <3>1 DEF SvJobStarts, HasGap, Seats
  <2> QED BY <2>1, <2>2
<1> QED BY <1>1, <1>2, <1>4 DEF GameInv

LEMMA NextKeepsGame == GameContext /\ [Next]_vars => GameInv'
<1> SUFFICES ASSUME GameContext, [Next]_vars PROVE GameInv'
  OBVIOUS
<1>1. CASE \E mode \in Modes : Join(mode)
  BY <1>1, JoinGameInv
<1>2. CASE Ready \/ CloseAndFree
  BY <1>2, ReadyGameInv, CloseGameInv
<1>3. CASE \E fd \in Sockets \ open : Accept(fd)
  BY <1>3, AcceptGameInv
<1>4. CASE \E e \in Entries : Visit(e)
  BY <1>4, VisitGameInv
<1>5. CASE \E g \in Games \cup {NoGame} : SvJobRuns(g) \/ SvJobClears(g)
  BY <1>5, ThreadGameInv
<1>6. CASE \E g \in Games : SvJobStarts(g) \/ SvJobEnds(g)
  BY <1>6, ThreadGameInv, EndsGameInv
<1>7. CASE PollReturns \/ NoAccept \/ AcceptFull \/ AcceptFails \/ PollAgain
           \/ Unregistered \/ LostGame \/ Chat \/ Reject \/ EndOfStream \/ SendInit
           \/ CloseStumbles \/ (\E g \in Games : SvJobBreaks(g)) \/ UNCHANGED vars
  <2>1. UNCHANGED <<cl, sv, sv_count, hearts>>
    BY <1>7 DEF PollReturns, NoAccept, AcceptFull, AcceptFails, PollAgain,
                Unregistered, LostGame, Chat, Reject, EndOfStream, SendInit,
                CloseStumbles, SvJobBreaks, Breaks, games, registry, vars
  <2>2. pc' = "recv" => pc = "recv" /\ temp' = temp
    BY <1>7 DEF PollReturns, NoAccept, AcceptFull, AcceptFails, PollAgain,
                Unregistered, LostGame, Chat, Reject, EndOfStream, SendInit,
                CloseStumbles, SvJobBreaks, Breaks, Go, Done, handler, vars
  <2> QED BY <2>1, <2>2, GameInvStill DEF GameContext
<1> QED BY <1>1, <1>2, <1>3, <1>4, <1>5, <1>6, <1>7 DEF Next

LEMMA GameContextAlways == Spec => []GameContext
<1>1. Init => GameContext
  BY InitSeats, InitTable, InitRecords, InitReady, InitGameInv DEF GameContext
<1>2. GameContext /\ [Next]_vars => GameContext'
  BY NextKeepsSeats, NextKeepsTable, NextKeepsRecords, NextKeepsReady, NextKeepsGame
  DEF GameContext, ReadyContext
<1> QED BY <1>1, <1>2, PTL DEF Spec

LEMMA InitGame ==
  ASSUME Init, NEW f \in Games
  PROVE  Game(f)!Init
<1>1. sv[f] = InitServer("FFA") /\ cl_count = 0 /\ hearts[f].playing = 0
  BY DEF Init, Phases
<1>2. sv[f].players = [k \in Seats |-> NULL] /\ sv[f].freed = FALSE
  BY <1>1 DEF InitServer
<1>3. SaidReady = {} /\ Phase(f) = "filling"
  BY <1>1, <1>2 DEF SaidReady, Phase, Clients
<1> QED BY <1>2, <1>3 DEF Game!Init, Game!Seats, Seats

\* For every size of the tables and number of games, whatever malloc leaves in the
\* records, each game behaves as GameSeats says: filled a client at a time, played by
\* the four that were ready, over for good.
THEOREM EachGameAsPromised == ASSUME NEW f \in Games PROVE Spec => Game(f)!Spec
<1>1. Init => Game(f)!Init
  BY InitGame
<1>2. GameContext /\ [Next]_vars => [Game(f)!Next]_(Game(f)!vars)
  BY NextGame
<1> QED BY <1>1, <1>2, GameContextAlways, PTL DEF Spec, Game!Spec

\* The same of all the games together, which share descriptors, records and the table.
THEOREM GamesAsPromised == Spec => SeatsAsPromised
<1>1. Init => \A g \in Games : Game(g)!Init
  BY InitGame
<1>2. GameContext /\ [Next]_vars => \A g \in Games : [Game(g)!Next]_(Game(g)!vars)
  BY NextGame
<1> QED BY <1>1, <1>2, GameContextAlways, PTL DEF Spec, SeatsAsPromised

-----------------------------------------------------------------------------
(* What follows from the promise *)

LEMMA PlayedByReadyStep ==
  ASSUME NEW f \in Games, Game(f)!PlayedByReady, [Game(f)!Next]_(Game(f)!vars)
  PROVE  Game(f)!PlayedByReady'
<1> USE DEF Game!PlayedByReady, Game!Seats, Seats
<1>1. CASE Game(f)!Take
  BY <1>1 DEF Game!Take
<1>2. CASE Game(f)!Leave
  BY <1>2 DEF Game!Leave
<1>3. CASE Game(f)!GetReady
  BY <1>3 DEF Game!GetReady
<1>4. CASE Game(f)!Start
  BY <1>4 DEF Game!Start
<1>5. CASE Game(f)!End
  BY <1>5 DEF Game!End
<1>6. CASE UNCHANGED Game(f)!vars
  BY <1>6 DEF Game!vars
<1> QED BY <1>1, <1>2, <1>3, <1>4, <1>5, <1>6 DEF Game!Next
LEMMA KeepsPlayersStep ==
  ASSUME NEW f \in Games, Game(f)!PlayedByReady, Game(f)!Next,
         sv[f].players \in [Seats -> Clients \cup {NULL}]
  PROVE  Game(f)!KeepsPlayers
<1> USE DEF Game!KeepsPlayers, Game!PlayedByReady, Game!Seats, Seats
<1>1. CASE Game(f)!Take
  BY <1>1 DEF Game!Take
<1>2. CASE Game(f)!Leave
  BY <1>2 DEF Game!Leave
<1>3. CASE Game(f)!GetReady
  BY <1>3 DEF Game!GetReady
<1>4. CASE Game(f)!Start
  BY <1>4 DEF Game!Start
<1>5. CASE Game(f)!End
  BY <1>5 DEF Game!End
<1> QED BY <1>1, <1>2, <1>3, <1>4, <1>5 DEF Game!Next

\* Hence, for every size of the tables: where malloc leaves zeros in the records, the
\* four seats of a game that is played are taken by clients that have said they are
\* ready, and nobody joins or leaves until it is over; a game is played once, and once
\* over its seats stay as they are.
THEOREM PlayersStaySeated ==
  ASSUME NEW f \in Games
  PROVE  Spec => []Game(f)!PlayedByReady /\ Game(f)!PlayersStay
<1>1. Game(f)!Init => Game(f)!PlayedByReady
  BY DEF Game!Init, Game!PlayedByReady
<1>2. Game(f)!PlayedByReady /\ [Game(f)!Next]_(Game(f)!vars) => Game(f)!PlayedByReady'
  BY PlayedByReadyStep
<1>3. GameContext /\ Game(f)!PlayedByReady /\ [Game(f)!Next]_(Game(f)!vars)
        => [Game(f)!KeepsPlayers]_(Game(f)!vars)
  BY KeepsPlayersStep DEF GameContext, SeatsInv, TypeOK, ServerType
<1> QED BY <1>1, <1>2, <1>3, EachGameAsPromised, GameContextAlways, PTL DEF Game!Spec, Game!PlayersStay
=============================================================================
