-------------------------- MODULE LobbyTable_proofs --------------------------
(***************************************************************************)
(* Who is watched and who is seated, for every size of the tables.         *)
(***************************************************************************)
EXTENDS Lobby_proofs

\* The handler is at a connection, or at descriptor 0.
AtEntry == pc \in {"recv", "eof", "send", "close"}

\* After a clearing a poll may still be under way, or have returned, that reports the
\* listening socket: then no entry is free, so that nothing is accepted.
StaysEmpty ==
  /\ \A e \in Entries : clients[e].fd \notin Sockets
  /\ clients[0].events # "IN"
  /\ pc = "poll" /\ watched[0].events = "IN" =>
       \A e \in Entries : clients[e].fd # NoSocket
  /\ pc = "accept" /\ clients[0].revents = "IN" =>
       \A e \in Entries : clients[e].fd # NoSocket

TableInv ==
  /\ EntriesWatchOpen
  /\ AtEntry => poll_i # 0
  /\ AtEntry /\ temp \in Sockets => \A e \in Entries : clients[e].fd = temp => e = poll_i
  /\ AtEntry /\ clients[poll_i].fd \in Sockets => clients[poll_i].fd = temp
  /\ Emptied => StaysEmpty

-----------------------------------------------------------------------------
(* What the steps do to the table *)

LEMMA EntryZero == 0 \in Entries
  BY TablesAssumption DEF Entries

LEMMA EventsSet ==
  ASSUME SeatsInv, NEW events, clients' = [clients EXCEPT ![poll_i].events = events]
  PROVE  \A e \in Entries :
           /\ clients'[e].fd = clients[e].fd /\ clients'[e].revents = clients[e].revents
           /\ clients'[e].events = IF e = poll_i THEN events ELSE clients[e].events
<1>1. clients \in [Entries -> EntryType] /\ poll_i \in Entries
  BY DEF SeatsInv, TypeOK
<1> SUFFICES ASSUME NEW e \in Entries
             PROVE  /\ clients'[e].fd = clients[e].fd /\ clients'[e].revents = clients[e].revents
                    /\ clients'[e].events = IF e = poll_i THEN events ELSE clients[e].events
  OBVIOUS
<1>2. clients[e] \in EntryType
  BY <1>1
<1>3. clients'[e] = IF e = poll_i THEN [clients[e] EXCEPT !.events = events] ELSE clients[e]
  BY <1>1
<1> QED BY <1>2, <1>3 DEF EntryType

LEMMA FdSet ==
  ASSUME SeatsInv, clients' = Unwatched(poll_i)
  PROVE  \A e \in Entries :
           /\ clients'[e].events = clients[e].events
           /\ clients'[e].revents = clients[e].revents
           /\ clients'[e].fd = IF e = poll_i THEN NoSocket ELSE clients[e].fd
<1>1. clients \in [Entries -> EntryType] /\ poll_i \in Entries
  BY DEF SeatsInv, TypeOK
<1> SUFFICES ASSUME NEW e \in Entries
             PROVE  /\ clients'[e].events = clients[e].events
                    /\ clients'[e].revents = clients[e].revents
                    /\ clients'[e].fd = IF e = poll_i THEN NoSocket ELSE clients[e].fd
  OBVIOUS
<1>2. clients[e] \in EntryType
  BY <1>1
<1>3. clients'[e] = IF e = poll_i THEN [clients[e] EXCEPT !.fd = NoSocket] ELSE clients[e]
  BY <1>1 DEF Unwatched
<1> QED BY <1>2, <1>3 DEF EntryType

LEMMA EntryAdded ==
  ASSUME SeatsInv, NEW fd, Accept(fd)
  PROVE  \E e \in Entries :
           /\ FirstFree(e)
           /\ \A d \in Entries :
                /\ clients'[d].revents = clients[d].revents
                /\ clients'[d].fd = IF d = e THEN fd ELSE clients[d].fd
                /\ clients'[d].events = IF d = e THEN "IN" ELSE clients[d].events
<1>0. PICK e \in Entries :
        FirstFree(e) /\ clients' = [clients EXCEPT ![e].fd = fd, ![e].events = "IN"]
  BY DEF Accept
<1>1. clients \in [Entries -> EntryType]
  BY DEF SeatsInv, TypeOK
<1> SUFFICES ASSUME NEW d \in Entries
             PROVE  /\ clients'[d].revents = clients[d].revents
                    /\ clients'[d].fd = IF d = e THEN fd ELSE clients[d].fd
                    /\ clients'[d].events = IF d = e THEN "IN" ELSE clients[d].events
  BY <1>0
<1>2. clients[d] \in EntryType
  BY <1>1
<1>3. clients'[d] = IF d = e THEN [clients[d] EXCEPT !.fd = fd, !.events = "IN"] ELSE clients[d]
  BY <1>0, <1>1
<1>4. CASE d = e
  <2> DEFINE r == [clients[d] EXCEPT !.fd = fd]
  <2>1. DOMAIN clients[d] = {"fd", "events", "revents"}
    BY <1>2 DEF EntryType
  <2>2. DOMAIN r = {"fd", "events", "revents"} /\ r.fd = fd /\ r.revents = clients[d].revents
    BY <2>1
  <2>3. clients'[d] = [r EXCEPT !.events = "IN"]
    BY <1>3, <1>4
  <2> HIDE DEF r
  <2> QED BY <1>4, <2>2, <2>3
<1>5. CASE d # e
  BY <1>3, <1>5
<1> QED BY <1>4, <1>5

LEMMA RevisedByPoll ==
  ASSUME SeatsInv, PollReturns
  PROVE  /\ \A e \in Entries : clients'[e].fd = clients[e].fd
                               /\ clients'[e].events = clients[e].events
         /\ clients'[0].revents \in Reported(watched[0])
<1>1. PICK revents \in [0 .. poll_maxi -> {"NONE", "IN", "OUT", "HUP"}] :
        /\ \A e \in 0 .. poll_maxi : revents[e] \in Reported(watched[e])
        /\ clients' = [e \in Entries |->
                     IF e <= poll_maxi THEN [clients[e] EXCEPT !.revents = revents[e]]
                     ELSE clients[e]]
  BY DEF PollReturns
<1>2. clients \in [Entries -> EntryType] /\ poll_maxi \in Entries
  BY DEF SeatsInv, TypeOK
<1>3. ASSUME NEW e \in Entries
      PROVE  /\ clients'[e].fd = clients[e].fd /\ clients'[e].events = clients[e].events
             /\ e <= poll_maxi => clients'[e].revents = revents[e]
  <2>1. clients[e] \in EntryType
    BY <1>2
  <2>2. clients'[e] = IF e <= poll_maxi THEN [clients[e] EXCEPT !.revents = revents[e]]
                      ELSE clients[e]
    BY <1>1
  <2> QED BY <2>1, <2>2 DEF EntryType
<1>4. 0 \in Entries /\ 0 <= poll_maxi /\ 0 \in 0 .. poll_maxi
  BY <1>2, EntryZero DEF Entries
<1> QED BY <1>1, <1>3, <1>4

LEMMA RevisedAgain ==
  ASSUME SeatsInv, PollAgain
  PROVE  /\ \A e \in Entries : clients'[e].fd = clients[e].fd
                               /\ clients'[e].events = clients[e].events
         /\ watched' = clients'
<1>1. clients \in [Entries -> EntryType]
  BY DEF SeatsInv, TypeOK
<1>2. ASSUME NEW e \in Entries
      PROVE  clients'[e].fd = clients[e].fd /\ clients'[e].events = clients[e].events
  <2>1. clients[e] \in EntryType
    BY <1>1
  <2>2. clients'[e] = [clients[e] EXCEPT !.revents = "NONE"]
    BY DEF PollAgain
  <2> QED BY <2>1, <2>2 DEF EntryType
<1> QED BY <1>2 DEF PollAgain

-----------------------------------------------------------------------------
(* The table *)

LEMMA InitTable == Init => TableInv
<1> SUFFICES ASSUME Init PROVE TableInv
  OBVIOUS
<1>1. \A e \in Entries : clients[e].fd \notin Sockets
  BY SocketsAssumption DEF Init, Unused
<1>2. ~Emptied
  BY DEF Init, Emptied, Phases
<1>3. ~AtEntry
  BY DEF Init, AtEntry
<1> QED BY <1>1, <1>2, <1>3 DEF TableInv, EntriesWatchOpen

\* The handler moves, and stays at its entry or leaves it.
LEMMA TableStill ==
  ASSUME TableInv, UNCHANGED <<clients, watched, open, hearts, poll_i>>,
         AtEntry' => AtEntry /\ temp' = temp,
         pc' \notin {"poll", "accept"} \/ pc' = pc
  PROVE  TableInv'
  BY DEF TableInv, EntriesWatchOpen, AtEntry, Emptied, StaysEmpty

LEMMA PollReturnsTable == SeatsInv /\ TableInv /\ PollReturns => TableInv'
<1> SUFFICES ASSUME SeatsInv, TableInv, PollReturns PROVE TableInv'
  OBVIOUS
<1>1. /\ \A e \in Entries : clients'[e].fd = clients[e].fd
                            /\ clients'[e].events = clients[e].events
      /\ clients'[0].revents \in Reported(watched[0])
  BY RevisedByPoll
<1>2. pc = "poll" /\ pc' = "accept" /\ UNCHANGED <<open, hearts>>
  BY DEF PollReturns, Go, games
<1>3. clients'[0].revents = "IN" => watched[0].events = "IN"
  BY <1>1 DEF Reported
<1>4. Emptied' => StaysEmpty'
  BY <1>1, <1>2, <1>3, EntryZero DEF TableInv, Emptied, StaysEmpty
<1> QED BY <1>1, <1>2, <1>4 DEF TableInv, EntriesWatchOpen, AtEntry

LEMMA PollAgainTable == SeatsInv /\ TableInv /\ PollAgain => TableInv'
<1> SUFFICES ASSUME SeatsInv, TableInv, PollAgain PROVE TableInv'
  OBVIOUS
<1>1. /\ \A e \in Entries : clients'[e].fd = clients[e].fd
                            /\ clients'[e].events = clients[e].events
      /\ watched' = clients'
  BY RevisedAgain
<1>2. pc' = "poll" /\ UNCHANGED <<open, hearts>>
  BY DEF PollAgain, games
<1>3. Emptied' => StaysEmpty'
  BY <1>1, <1>2, EntryZero DEF TableInv, Emptied, StaysEmpty
<1> QED BY <1>1, <1>2, <1>3 DEF TableInv, EntriesWatchOpen, AtEntry

\* Nothing is accepted once the table has been emptied.
LEMMA AcceptEarly ==
  ASSUME TableInv, NEW fd, Accept(fd)
  PROVE  ~Emptied
<1>1. pc = "accept" /\ clients[0].revents = "IN" /\ \E e \in Entries : clients[e].fd = NoSocket
  BY DEF Accept, FirstFree
<1> QED BY <1>1 DEF TableInv, StaysEmpty

LEMMA AcceptTable ==
  ASSUME SeatsInv, TableInv, NEW fd \in Sockets \ open, Accept(fd)
  PROVE  TableInv'
<1>2. PICK e \in Entries :
        \A d \in Entries : clients'[d].fd = IF d = e THEN fd ELSE clients[d].fd
  BY EntryAdded
<1>3. pc' = "visit" /\ hearts' = hearts /\ open' = open \cup {fd}
  BY DEF Accept, Go, games
<1>4. ~Emptied'
  BY <1>3, AcceptEarly DEF Emptied
<1>5. EntriesWatchOpen'
  BY <1>2, <1>3 DEF TableInv, EntriesWatchOpen
<1> QED BY <1>3, <1>4, <1>5 DEF TableInv, AtEntry

LEMMA VisitTable ==
  ASSUME SeatsInv, TableInv, NEW e \in Entries, Visit(e)
  PROVE  TableInv'
<1>1. e # 0
  BY DEF Visit, NextReady, SeatsInv, TypeOK, Entries
<1>2. poll_i' = e /\ temp' = clients[e].fd /\ UNCHANGED <<clients, watched, open, hearts>>
  BY DEF Visit, table, games
<1>3. pc' \in {"close", "recv", "send"}
  BY DEF Visit, NextReady, SeatsInv, TypeOK, EntryType
<1> QED BY <1>1, <1>2, <1>3 DEF TableInv, EntriesWatchOpen, AtEntry, Emptied, StaysEmpty

\* An entry's events are set, and the handler is done with it.
LEMMA EventsTable ==
  ASSUME SeatsInv, TableInv, AtEntry, NEW events,
         clients' = [clients EXCEPT ![poll_i].events = events],
         pc' = "visit", open' = open, Emptied' => Emptied
  PROVE  TableInv'
<1>1. \A e \in Entries :
        /\ clients'[e].fd = clients[e].fd
        /\ clients'[e].events = IF e = poll_i THEN events ELSE clients[e].events
  BY EventsSet
<1>2. poll_i # 0
  BY DEF TableInv
<1>3. Emptied' => StaysEmpty'
  BY <1>1, <1>2, EntryZero DEF TableInv, StaysEmpty
<1> QED BY <1>1, <1>3 DEF TableInv, EntriesWatchOpen, AtEntry

\* The handler's entry is freed, its descriptor closed or not.
LEMMA FreedTable ==
  ASSUME SeatsInv, TableInv, AtEntry, clients' = Unwatched(poll_i),
         pc' = "visit", open' \in {open, open \ {temp}}, hearts' = hearts
  PROVE  TableInv'
<1>1. \A e \in Entries :
        /\ clients'[e].events = clients[e].events
        /\ clients'[e].fd = IF e = poll_i THEN NoSocket ELSE clients[e].fd
  BY FdSet
<1>2. NoSocket \notin Sockets
  BY SocketsAssumption
<1>3. Emptied' => StaysEmpty'
  BY <1>1, <1>2, EntryZero DEF TableInv, StaysEmpty, Emptied
<1>4. EntriesWatchOpen'
  BY <1>1, <1>2 DEF TableInv, EntriesWatchOpen
<1> QED BY <1>3, <1>4 DEF TableInv, AtEntry

LEMMA JoinTable ==
  ASSUME SeatsInv, TableInv, NEW mode \in Modes, Join(mode)
  PROVE  TableInv'
<1>1. Emptied' => Emptied
  <2>1. PICK g \in 0 .. sv_count :
          hearts' = hearts \/ hearts' = [hearts EXCEPT ![g].created = @ + 1]
    BY DEF Join
  <2>2. g \in Games \cup {NoGame}
    BY TablesAssumption DEF SeatsInv, TypeOK, Games, NoGame
  <2>3. \A f \in Games \cup {NoGame} :
          hearts'[f].waiting = hearts[f].waiting /\ hearts'[f].playing = hearts[f].playing
    BY <2>1, <2>2 DEF SeatsInv, TypeOK, Phases
  <2> QED BY <2>3 DEF Emptied
<1> QED BY <1>1, EventsTable DEF Join, Done, AtEntry

LEMMA SendInitTable == SeatsInv /\ TableInv /\ SendInit => TableInv'
<1> SUFFICES ASSUME SeatsInv, TableInv, SendInit PROVE TableInv'
  OBVIOUS
<1>1. AtEntry /\ UNCHANGED <<watched, open, hearts, poll_i>>
  BY DEF SendInit, AtEntry, Done, Go, games
<1>2. CASE clients' = clients
  <2>1. pc' = "visit" \/ (pc' = "close" /\ temp' = temp)
    BY <1>2 DEF SendInit, Done, Go
  <2> QED BY <1>1, <1>2, <2>1, TableStill DEF AtEntry
<1>3. CASE clients' # clients
  <2>1. pc' = "visit" /\ clients' = [clients EXCEPT ![poll_i].events = "IN"]
    BY <1>3 DEF SendInit, Done
  <2>2. Emptied' => Emptied
    BY <1>1 DEF Emptied
  <2> QED BY <1>1, <2>1, <2>2, EventsTable
<1> QED BY <1>2, <1>3

LEMMA SvJobRunsTable ==
  ASSUME SeatsInv, TableInv, NEW g \in Games \cup {NoGame}, SvJobRuns(g)
  PROVE  TableInv'
<1>1. Emptied' => Emptied
  <2>1. \A f \in Games \cup {NoGame} :
          hearts'[f].waiting = hearts[f].waiting /\ hearts'[f].playing = hearts[f].playing
    BY DEF SvJobRuns, Moves, SeatsInv, TypeOK, Phases
  <2> QED BY <2>1 DEF Emptied
<1> QED BY <1>1 DEF SvJobRuns, table, handler, TableInv, EntriesWatchOpen, AtEntry, StaysEmpty

LEMMA SvJobClearsTable ==
  ASSUME SeatsInv, TableInv, NEW g \in Games \cup {NoGame}, SvJobClears(g)
  PROVE  TableInv'
<1>1. \A e \in Entries : clients'[e] = Cleared
  BY DEF SvJobClears
<1>2. Stdin \notin Sockets /\ Stdin # NoSocket
  BY SocketsAssumption
<1>3. StaysEmpty' /\ EntriesWatchOpen'
  BY <1>1, <1>2, EntryZero DEF StaysEmpty, EntriesWatchOpen, Cleared
<1>4. clients'[poll_i].fd \notin Sockets /\ \A e \in Entries : clients'[e].fd \notin Sockets
  BY <1>1, <1>2 DEF Cleared, SeatsInv, TypeOK
<1> QED BY <1>3, <1>4 DEF SvJobClears, handler, TableInv, AtEntry

LEMMA SvJobStartsTable ==
  ASSUME SeatsInv, TableInv, NEW g \in Games, SvJobStarts(g)
  PROVE  TableInv'
<1>1. hearts[g].waiting > 0
  BY DEF SvJobStarts, Moves
<1>2. Emptied
  BY <1>1 DEF Emptied
<1> QED BY <1>2
        DEF SvJobStarts, table, handler, TableInv, EntriesWatchOpen, AtEntry, StaysEmpty

\* A game that ends closes connections, none of which is in the table.
LEMMA SvJobEndsTable ==
  ASSUME SeatsInv, TableInv, NEW g \in Games, SvJobEnds(g)
  PROVE  TableInv'
<1>1. Emptied
  BY DEF SvJobEnds, MayEnd, Emptied
<1>2. \A e \in Entries : clients'[e].fd \notin Sockets
  BY <1>1 DEF SvJobEnds, table, TableInv, StaysEmpty
<1> QED BY <1>1, <1>2
        DEF SvJobEnds, table, handler, TableInv, EntriesWatchOpen, AtEntry, StaysEmpty, Emptied

LEMMA NextKeepsTable == SeatsInv /\ TableInv /\ [Next]_vars => TableInv'
<1> SUFFICES ASSUME SeatsInv, TableInv, [Next]_vars PROVE TableInv'
  OBVIOUS
<1>1. CASE PollReturns
  BY <1>1, PollReturnsTable
<1>2. CASE PollAgain
  BY <1>2, PollAgainTable
<1>3. CASE \E fd \in Sockets \ open : Accept(fd)
  BY <1>3, AcceptTable
<1>4. CASE \E e \in Entries : Visit(e)
  BY <1>4, VisitTable
<1>5. CASE \E mode \in Modes : Join(mode)
  BY <1>5, JoinTable
<1>6. CASE Ready \/ CloseAndFree
  <2>1. AtEntry /\ clients' = Unwatched(poll_i) /\ pc' = "visit" /\ hearts' = hearts
        /\ open' \in {open, open \ {temp}}
    BY <1>6 DEF Ready, CloseAndFree, Done, AtEntry, games
  <2> QED BY <2>1, FreedTable
<1>7. CASE SendInit
  BY <1>7, SendInitTable
<1>8. CASE NoAccept \/ AcceptFails \/ Chat
  <2>1. pc' \in {"visit", "exit"} /\ UNCHANGED <<clients, watched, open, hearts, poll_i>>
    BY <1>8 DEF NoAccept, AcceptFails, Chat, Go, Done, table, games
  <2> QED BY <2>1, TableStill DEF AtEntry
<1>9. CASE Reject \/ EndOfStream
  <2>1. /\ pc \in {"recv", "eof"} /\ pc' \in {"close", "eof"}
        /\ UNCHANGED <<clients, watched, open, hearts, poll_i, temp>>
    BY <1>9 DEF Reject, EndOfStream, Go, table, games
  <2> QED BY <2>1, TableStill DEF AtEntry
<1>10. CASE AcceptFull \/ Unregistered \/ LostGame \/ CloseStumbles
            \/ \E g \in Games : SvJobBreaks(g)
  <2>1. pc' = "broken" /\ UNCHANGED <<clients, watched, open, hearts, poll_i>>
    BY <1>10 DEF AcceptFull, Unregistered, LostGame, CloseStumbles, SvJobBreaks, Breaks, Go,
                table, games
  <2> QED BY <2>1, TableStill DEF AtEntry
<1>11. CASE \E g \in Games \cup {NoGame} : SvJobRuns(g) \/ SvJobClears(g)
  BY <1>11, SvJobRunsTable, SvJobClearsTable
<1>12. CASE \E g \in Games : SvJobStarts(g) \/ SvJobEnds(g)
  BY <1>12, SvJobStartsTable, SvJobEndsTable
<1>13. CASE UNCHANGED vars
  <2>1. UNCHANGED <<clients, watched, open, hearts, poll_i, temp, pc>>
    BY <1>13 DEF vars, table, handler, games
  <2> QED BY <2>1, TableStill DEF AtEntry
<1> QED BY <1>1, <1>2, <1>3, <1>4, <1>5, <1>6, <1>7, <1>8, <1>9, <1>10, <1>11,
           <1>12, <1>13 DEF Next

\* For every size of the tables, whatever clearings, departures and reuses of
\* descriptors, the table watches open connections, each once.
THEOREM WatchesOpen == Spec => []EntriesWatchOpen
<1>1. SeatsInv /\ TableInv => EntriesWatchOpen
  BY DEF TableInv
<1> QED BY <1>1, InitSeats, InitTable, NextKeepsSeats, NextKeepsTable, PTL DEF Spec

-----------------------------------------------------------------------------
(* Who is watched, and who waits for a thread *)

\* The handler's own steps leave the threads that wait or play alone.
LEMMA StillEarly ==
  ASSUME SeatsInv, [Next]_vars, ~Emptied'
  PROVE  ~Emptied /\ (\A g \in Games \cup {NoGame} : ~SvJobClears(g)) /\ (\A g \in Games : ~SvJobEnds(g))
<1>1. ASSUME NEW g \in Games \cup {NoGame}, SvJobClears(g) PROVE FALSE
  <2>1. hearts[g] \in [Phases -> Nat] /\ hearts' =
          [hearts EXCEPT ![g]["running"] = @ - 1, ![g]["waiting"] = @ + 1]
    BY <1>1 DEF SvJobClears, Moves, SeatsInv, TypeOK
  <2>2. hearts'[g].waiting = hearts[g].waiting + 1 /\ hearts[g].waiting \in Nat
    BY <2>1 DEF SeatsInv, TypeOK, Phases
  <2> QED BY <2>2 DEF Emptied
<1>2. ASSUME NEW g \in Games, SvJobEnds(g) PROVE FALSE
  BY <1>2 DEF SvJobEnds, MayEnd, Emptied
<1>3. ASSUME NEW g \in Games, SvJobStarts(g) PROVE ~Emptied
  <2>1. hearts[g] \in [Phases -> Nat] /\ hearts' =
          [hearts EXCEPT ![g]["waiting"] = @ - 1, ![g]["playing"] = @ + 1]
    BY <1>3 DEF SvJobStarts, Moves, SeatsInv, TypeOK
  <2>2. hearts'[g].playing = hearts[g].playing + 1 /\ hearts[g].playing \in Nat
    BY <2>1 DEF SeatsInv, TypeOK, Phases
  <2> QED BY <2>2 DEF Emptied
<1>4. ASSUME NEW g \in Games \cup {NoGame}, SvJobRuns(g) PROVE ~Emptied
  <2>1. \A f \in Games \cup {NoGame} :
          hearts'[f].waiting = hearts[f].waiting /\ hearts'[f].playing = hearts[f].playing
    BY <1>4 DEF SvJobRuns, Moves, SeatsInv, TypeOK, Phases
  <2> QED BY <2>1 DEF Emptied
<1>5. ASSUME NEW mode \in Modes, Join(mode) PROVE ~Emptied
  <2>1. PICK g \in 0 .. sv_count :
          hearts' = hearts \/ hearts' = [hearts EXCEPT ![g].created = @ + 1]
    BY <1>5 DEF Join
  <2>2. g \in Games \cup {NoGame}
    BY TablesAssumption DEF SeatsInv, TypeOK, Games, NoGame
  <2>3. \A f \in Games \cup {NoGame} :
          hearts'[f].waiting = hearts[f].waiting /\ hearts'[f].playing = hearts[f].playing
    BY <2>1, <2>2 DEF SeatsInv, TypeOK, Phases
  <2> QED BY <2>3 DEF Emptied
<1>6. CASE UNCHANGED hearts
  BY <1>1, <1>2, <1>6 DEF Emptied
<1> QED BY <1>1, <1>2, <1>3, <1>4, <1>5, <1>6
        DEF Next, PollReturns, NoAccept, Accept, AcceptFull, AcceptFails, Visit, PollAgain,
            Unregistered, LostGame, Ready, Chat, Reject, EndOfStream, SendInit, CloseAndFree,
            CloseStumbles, SvJobBreaks, Breaks, games, vars

\* The table and the records change nobody's standing.
LEMMA NobodyMoves ==
  ASSUME NobodyForgotten, ~Emptied, open' = open, cl_count' = cl_count,
         \A e \in Entries : clients'[e].fd = clients[e].fd,
         \A c \in 1 .. cl_count :
           cl'[c].sock_fd = cl[c].sock_fd /\ (cl[c].ready = 1 => cl'[c].ready = 1)
  PROVE  NobodyForgotten'
  BY DEF NobodyForgotten

LEMMA AcceptForgetsNobody ==
  ASSUME SeatsInv, NobodyForgotten, ~Emptied, NEW fd \in Sockets, Accept(fd)
  PROVE  NobodyForgotten'
<1>1. PICK e \in Entries \ {0} :
        /\ clients[e].fd = NoSocket
        /\ \A d \in Entries : clients'[d].fd = IF d = e THEN fd ELSE clients[d].fd
  BY EntryAdded DEF FirstFree
<1>2. open' = open \cup {fd}
  BY DEF Accept
<1>3. /\ 1 .. cl_count \subseteq 1 .. cl_count'
      /\ \A c \in 1 .. cl_count : cl'[c] = cl[c]
  <2>1. cl_count \in Nat
    BY TablesAssumption DEF SeatsInv, TypeOK
  <2>2. CASE cl_count < MAX_CLIENTS
    <3>1. PICK r : cl' = [cl EXCEPT ![cl_count + 1] = r] /\ cl_count' = cl_count + 1
      BY <2>2 DEF Accept
    <3>2. cl \in [Clients -> ClientType] /\ 1 .. cl_count \subseteq Clients
      BY TablesAssumption DEF SeatsInv, TypeOK, Clients
    <3> QED BY <2>1, <3>1, <3>2
  <2>3. CASE ~(cl_count < MAX_CLIENTS)
    BY <2>3 DEF Accept, registry
  <2> QED BY <2>2, <2>3
<1>4. NoSocket \notin open
  BY SocketsAssumption DEF SeatsInv, TypeOK
<1> QED BY <1>1, <1>2, <1>3, <1>4 DEF NobodyForgotten

\* The record says ready before the entry is freed.
LEMMA ReadyForgetsNobody ==
  ASSUME SeatsInv, TableInv, NobodyForgotten, ~Emptied, Ready
  PROVE  NobodyForgotten'
<1>1. PICK c \in 1 .. cl_count : FoundClient(temp, c) /\ cl' = [cl EXCEPT ![c].ready = 1]
  BY DEF Ready
<1>2. /\ cl \in [Clients -> ClientType] /\ c \in Clients /\ 1 .. cl_count \subseteq Clients
      /\ 0 \notin 1 .. cl_count
  BY TablesAssumption DEF SeatsInv, TypeOK, Clients
<1>3. /\ \A d \in 1 .. cl_count :
           cl'[d].sock_fd = cl[d].sock_fd /\ (cl[d].ready = 1 => cl'[d].ready = 1)
      /\ cl'[c].ready = 1 /\ cl[c].sock_fd = temp
  BY <1>1, <1>2 DEF ClientType, FoundClient, NULL
<1>4. \A e \in Entries : clients'[e].fd = IF e = poll_i THEN NoSocket ELSE clients[e].fd
  BY FdSet DEF Ready
<1>5. open' = open /\ cl_count' = cl_count /\ open \subseteq Sockets
  BY DEF Ready, SeatsInv, TypeOK
<1>6. clients[poll_i].fd \in open => clients[poll_i].fd = temp
  BY <1>5 DEF TableInv, AtEntry, Ready
<1>7. \A e \in Entries \ {0} : clients'[e].fd \in open' \cup {NoSocket}
  BY <1>4, <1>5 DEF NobodyForgotten
<1>8. ASSUME NEW fd \in open'
      PROVE  \/ \E e \in Entries : clients'[e].fd = fd
             \/ \E d \in 1 .. cl_count' : cl'[d].sock_fd = fd /\ cl'[d].ready = 1
  <2>1. CASE \E d \in 1 .. cl_count : cl[d].sock_fd = fd /\ cl[d].ready = 1
    BY <1>3, <1>5, <2>1
  <2>2. CASE \E e \in Entries : clients[e].fd = fd
    <3>1. fd = temp \/ \E e \in Entries : clients'[e].fd = fd
      BY <1>4, <1>5, <1>6, <1>8, <2>2
    <3>2. cl'[c].sock_fd = temp /\ cl'[c].ready = 1 /\ c \in 1 .. cl_count'
      BY <1>1, <1>3, <1>5
    <3> QED BY <3>1, <3>2
  <2> QED BY <1>5, <1>8, <2>1, <2>2 DEF NobodyForgotten
<1> QED BY <1>7, <1>8 DEF NobodyForgotten

LEMMA CloseForgetsNobody ==
  ASSUME SeatsInv, TableInv, NobodyForgotten, ~Emptied, CloseAndFree
  PROVE  NobodyForgotten'
<1>1. \A e \in Entries : clients'[e].fd = IF e = poll_i THEN NoSocket ELSE clients[e].fd
  BY FdSet DEF CloseAndFree
<1>2. open' = open \ {temp} /\ UNCHANGED registry /\ open \subseteq Sockets
  BY DEF CloseAndFree, SeatsInv, TypeOK
<1>3. /\ clients[poll_i].fd \in open => clients[poll_i].fd = temp
      /\ temp \in open => \A e \in Entries : clients[e].fd = temp => e = poll_i
  BY <1>2 DEF TableInv, AtEntry, CloseAndFree
<1> QED BY <1>1, <1>2, <1>3 DEF NobodyForgotten, registry

LEMMA NextForgetsNobody ==
  ASSUME SeatsInv, TableInv, NobodyForgotten, [Next]_vars
  PROVE  NobodyForgotten'
<1> SUFFICES ASSUME ~Emptied' PROVE NobodyForgotten'
  BY DEF NobodyForgotten
<1>0. /\ ~Emptied /\ \A g \in Games \cup {NoGame} : ~SvJobClears(g)
      /\ \A g \in Games : ~SvJobEnds(g)
  BY StillEarly
<1>1. CASE \E fd \in Sockets \ open : Accept(fd)
  BY <1>0, <1>1, AcceptForgetsNobody
<1>2. CASE Ready
  BY <1>0, <1>2, ReadyForgetsNobody
<1>3. CASE CloseAndFree
  BY <1>0, <1>3, CloseForgetsNobody
<1>4. CASE PollReturns \/ PollAgain
  <2>1. \A e \in Entries : clients'[e].fd = clients[e].fd
    BY <1>4, RevisedByPoll, RevisedAgain
  <2> QED BY <1>0, <1>4, <2>1, NobodyMoves DEF PollReturns, PollAgain, registry
<1>5. ASSUME NEW mode \in Modes, Join(mode) PROVE NobodyForgotten'
  <2>1. \A e \in Entries : clients'[e].fd = clients[e].fd
    BY <1>5, EventsSet DEF Join
  <2>2. PICK c \in 1 .. cl_count, g \in 0 .. sv_count :
          LET s == IF g < sv_count THEN sv[g] ELSE InitServer(mode)
          IN cl' = [cl EXCEPT ![c].id = SeatId(s.players, @), ![c].affected_sv_id = g]
    BY <1>5 DEF Join
  <2>3. cl \in [Clients -> ClientType] /\ 1 .. cl_count \subseteq Clients
    BY TablesAssumption DEF SeatsInv, TypeOK, Clients
  <2>4. \A d \in 1 .. cl_count : cl'[d].sock_fd = cl[d].sock_fd /\ cl'[d].ready = cl[d].ready
    BY <2>2, <2>3 DEF ClientType
  <2> QED BY <1>0, <1>5, <2>1, <2>4, NobodyMoves DEF Join
<1>6. CASE SendInit
  <2>1. \A e \in Entries : clients'[e].fd = clients[e].fd
    BY <1>6, EventsSet DEF SendInit
  <2> QED BY <1>0, <1>6, <2>1, NobodyMoves DEF SendInit, registry
<1>7. CASE UNCHANGED <<clients, open, cl, cl_count>>
  BY <1>0, <1>7, NobodyMoves
<1> QED BY <1>0, <1>1, <1>2, <1>3, <1>4, <1>5, <1>6, <1>7
        DEF Next, NoAccept, AcceptFull, AcceptFails, Visit, Unregistered, LostGame, Chat,
            Reject, EndOfStream, CloseStumbles, SvJobRuns, SvJobStarts, SvJobBreaks, Breaks,
            table, registry, vars

\* For every size of the tables and number of games: until a thread waits for its players,
\* no entry of the table is lost and no open connection is forgotten.
THEOREM ForgetsNobody == Spec => []NobodyForgotten
<1>1. Init => NobodyForgotten
  BY DEF Init, NobodyForgotten, Unused
<1>2. SeatsInv /\ TableInv /\ NobodyForgotten /\ [Next]_vars => NobodyForgotten'
  BY NextForgetsNobody
<1> QED BY <1>1, <1>2, InitSeats, InitTable, NextKeepsSeats, NextKeepsTable, PTL DEF Spec

-----------------------------------------------------------------------------
(* The records and the seats *)

RecordsInv ==
  /\ \A c \in 1 .. cl_count : cl[c].sock_fd \in Sockets
  /\ \A g \in Games, k \in Seats : sv[g].players[k] \in 0 .. cl_count
  /\ \A g \in Games : g >= sv_count =>
       /\ \A k \in Seats : sv[g].players[k] = NULL
       /\ \A h \in Phases : hearts[g][h] = 0

LEMMA VisitedSeats ==
  ASSUME NEW s \in ServerType, NEW k \in Seats, NEW fd, NEW j \in Seats
  PROVE  \/ Visited(s, k, fd).players[j] = s.players[j]
         \/ /\ Visited(s, k, fd).players[j] = NULL
            /\ s.players[j] # NULL /\ cl[s.players[j]].sock_fd = fd
<1>1. s.players \in [Seats -> Clients \cup {NULL}]
  BY DEF ServerType
<1>2. CASE k < s.players_count /\ s.players[k] # NULL /\ cl[s.players[k]].sock_fd = fd
  <2> DEFINE p == [s.players EXCEPT ![k] = NULL]
  <2>1. Visited(s, k, fd) = [s EXCEPT !.players = p, !.players_count = s.players_count - 1]
    BY <1>2 DEF Visited
  <2>2. Visited(s, k, fd).players = p
    <3> HIDE DEF p
    <3> QED BY <2>1 DEF ServerType
  <2> QED BY <1>1, <1>2, <2>2
<1>3. CASE ~(k < s.players_count /\ s.players[k] # NULL /\ cl[s.players[k]].sock_fd = fd)
  BY <1>3 DEF Visited
<1> QED BY <1>2, <1>3

\* A departure empties seats of its own descriptor only.
LEMMA UnseatedSeats ==
  ASSUME NEW s \in ServerType, NEW fd, NEW j \in Seats
  PROVE  \/ Unseated(s, fd).players[j] = s.players[j]
         \/ /\ Unseated(s, fd).players[j] = NULL
            /\ s.players[j] # NULL /\ cl[s.players[j]].sock_fd = fd
<1> DEFINE Kept(p, q) ==
      p.players[j] = q.players[j] \/
        (p.players[j] = NULL /\ q.players[j] # NULL /\ cl[q.players[j]].sock_fd = fd)
<1> DEFINE a == Visited(s, 0, fd)
           b == Visited(a, 1, fd)
           d == Visited(b, 2, fd)
<1>0. 0 \in Seats /\ 1 \in Seats /\ 2 \in Seats /\ 3 \in Seats
  BY DEF Seats
<1>1. a \in ServerType /\ Kept(a, s)
  BY <1>0, VisitedExact, VisitedSeats
<1> HIDE DEF a
<1>2. b \in ServerType /\ Kept(b, a)
  BY <1>0, <1>1, VisitedExact, VisitedSeats
<1> HIDE DEF b
<1>3. d \in ServerType /\ Kept(d, b)
  BY <1>0, <1>2, VisitedExact, VisitedSeats
<1> HIDE DEF d
<1>4. Kept(Visited(d, 3, fd), d)
  BY <1>0, <1>3, VisitedSeats
<1>5. Unseated(s, fd) = Visited(d, 3, fd)
  BY DEF Unseated, a, b, d
<1> QED BY <1>1, <1>2, <1>3, <1>4, <1>5

LEMMA SeatedSeats ==
  ASSUME NEW s \in ServerType, NEW c, NEW k \in Seats
  PROVE  Seated(s, c).players[k] = IF s.players[k] = NULL THEN c ELSE s.players[k]
<1> DEFINE p == [j \in Seats |-> IF s.players[j] = NULL THEN c ELSE s.players[j]]
<1>1. Seated(s, c) = [s EXCEPT !.players = p,
                               !.players_count = s.players_count + 4 - Taken(s.players)]
  BY DEF Seated, ServerType
<1>2. Seated(s, c).players = p
  <2> HIDE DEF p
  <2> QED BY <1>1 DEF ServerType
<1> QED BY <1>2

Rewritten(c, id, g) == [cl EXCEPT ![c].id = id, ![c].affected_sv_id = g]

\* What a join of client c does to game g, whose seats are those of s until then.
Joining(c, g, s) ==
  /\ FoundClient(temp, c) /\ g <= sv_count
  /\ ~s.freed /\ s.players_count < 4 /\ \E k \in Seats : s.players[k] = NULL
  /\ g < sv_count => s = sv[g]
  /\ g >= sv_count => \A k \in Seats : s.players[k] = NULL
  /\ sv' = IF g = NoGame THEN sv ELSE [sv EXCEPT ![g] = Seated(s, c)]
  /\ sv_count' = IF g = sv_count /\ g # NoGame THEN sv_count + 1 ELSE sv_count
  /\ cl' = Rewritten(c, SeatId(s.players, cl[c].id), g)
  /\ \A f \in Games \cup {NoGame}, h \in Phases :
       f # g \/ h # "created" => hearts'[f][h] = hearts[f][h]

LEMMA JoinFacts ==
  ASSUME SeatsInv, NEW mode \in Modes, Join(mode)
  PROVE  \E c \in 1 .. cl_count, g \in Games \cup {NoGame}, s \in ServerType : Joining(c, g, s)
<1>1. PICK c \in 1 .. cl_count, g \in 0 .. sv_count :
        /\ FoundClient(temp, c) /\ FoundServer(mode, g)
        /\ LET s == IF g < sv_count THEN sv[g] ELSE InitServer(mode)
           IN /\ ~s.freed
              /\ sv' = IF g = NoGame THEN sv ELSE [sv EXCEPT ![g] = Seated(s, c)]
              /\ sv_count' = IF g = sv_count /\ g # NoGame THEN sv_count + 1 ELSE sv_count
              /\ cl' = [cl EXCEPT ![c].id = SeatId(s.players, @), ![c].affected_sv_id = g]
              /\ hearts' = IF s.running = 0 THEN [hearts EXCEPT ![g].created = @ + 1] ELSE hearts
  BY DEF Join
<1> DEFINE s == IF g < sv_count THEN sv[g] ELSE InitServer(mode)
<1>2. /\ g \in Games \cup {NoGame} /\ g <= sv_count
      /\ g < sv_count => g \in Games
  BY TablesAssumption DEF SeatsInv, TypeOK, Games, NoGame
<1>3. s \in ServerType /\ s.players_count = Taken(s.players) /\ s.players_count < 4
  <2>1. CASE g < sv_count
    <3>1. Suits(g, mode)
      BY <1>1, <2>1 DEF FoundServer
    <3> QED BY <1>1, <1>2, <2>1, <3>1 DEF SeatsInv, TypeOK, SeatCountExact, Suits
  <2>2. CASE ~(g < sv_count)
    <3>1. s = InitServer(mode)
      BY <2>2
    <3> HIDE DEF s
    <3>2. s \in ServerType /\ s.players_count = Taken(s.players)
      BY <3>1, InitServerExact
    <3>3. s.players_count = 0
      BY <3>1 DEF InitServer
    <3> QED BY <3>2, <3>3
  <2> QED BY <2>1, <2>2
<1>4. /\ FoundClient(temp, c) /\ ~s.freed
      /\ sv_count' = IF g = sv_count /\ g # NoGame THEN sv_count + 1 ELSE sv_count
      /\ sv' = IF g = NoGame THEN sv ELSE [sv EXCEPT ![g] = Seated(s, c)]
      /\ cl' = Rewritten(c, SeatId(s.players, cl[c].id), g)
  BY <1>1 DEF Rewritten
<1>5. g < sv_count => s = sv[g]
  OBVIOUS
<1>6. g >= sv_count => \A k \in Seats : s.players[k] = NULL
  BY <1>2 DEF InitServer, SeatsInv, TypeOK
<1> HIDE DEF s
<1>7. \E k \in Seats : s.players[k] = NULL
  <2>1. 0 \in Seats /\ 1 \in Seats /\ 2 \in Seats /\ 3 \in Seats
    BY DEF Seats
  <2> QED BY <1>3, <2>1 DEF Taken, One
<1>8. \A f \in Games \cup {NoGame}, h \in Phases :
        f # g \/ h # "created" => hearts'[f][h] = hearts[f][h]
  BY <1>1, <1>2 DEF SeatsInv, TypeOK, Phases
<1>9. Joining(c, g, s)
  BY <1>2, <1>3, <1>4, <1>5, <1>6, <1>7, <1>8 DEF Joining
<1> QED BY <1>2, <1>3, <1>9

\* The records a join finds and leaves.
LEMMA JoinRecords ==
  ASSUME SeatsInv, NEW c \in 1 .. cl_count, NEW id, NEW g,
         cl' = Rewritten(c, id, g)
  PROVE  /\ \A d \in 1 .. cl_count :
              cl'[d].sock_fd = cl[d].sock_fd /\ cl'[d].ready = cl[d].ready
         /\ \A d \in 1 .. cl_count : d # c => cl'[d] = cl[d]
         /\ cl'[c].id = id /\ cl'[c].affected_sv_id = g
<1>1. cl \in [Clients -> ClientType] /\ c \in Clients /\ 1 .. cl_count \subseteq Clients
  BY TablesAssumption DEF SeatsInv, TypeOK, Clients
<1>2. cl[c] \in ClientType
  BY <1>1
<1> DEFINE r == [cl[c] EXCEPT !.id = id]
<1>3. DOMAIN r = {"sock_fd", "id", "ready", "affected_sv_id"}
      /\ r.sock_fd = cl[c].sock_fd /\ r.ready = cl[c].ready /\ r.id = id
  BY <1>2 DEF ClientType
<1>4. cl' = [cl EXCEPT ![c] = [r EXCEPT !.affected_sv_id = g]]
  BY <1>1 DEF Rewritten
<1> HIDE DEF r
<1>5. cl'[c] = [r EXCEPT !.affected_sv_id = g] /\ \A d \in Clients : d # c => cl'[d] = cl[d]
  BY <1>1, <1>4
<1>6. /\ cl'[c].sock_fd = cl[c].sock_fd /\ cl'[c].ready = cl[c].ready
      /\ cl'[c].id = id /\ cl'[c].affected_sv_id = g
  BY <1>3, <1>5
<1> QED BY <1>1, <1>5, <1>6

\* What a departure does.
LEMMA CloseFacts ==
  ASSUME SeatsInv, CloseAndFree
  PROVE  \E c \in 1 .. cl_count, g \in Games :
           /\ FoundClient(temp, c) /\ cl[c].sock_fd = temp
           /\ sv' = [sv EXCEPT ![g] = Unseated(sv[g], temp)]
           /\ g < sv_count
<1>1. PICK c \in 1 .. cl_count :
        /\ FoundClient(temp, c) /\ cl[c].affected_sv_id < sv_count
        /\ sv' = [sv EXCEPT ![cl[c].affected_sv_id] = Unseated(@, cl[c].sock_fd)]
  BY DEF CloseAndFree
<1>2. c \in Clients /\ cl[c] \in ClientType
  BY TablesAssumption DEF SeatsInv, TypeOK, Clients
<1>3. cl[c].affected_sv_id \in Games
  BY <1>1, <1>2, TablesAssumption DEF SeatsInv, TypeOK, ClientType, Games, NoGame
<1>4. cl[c].sock_fd = temp
  BY <1>1, TablesAssumption DEF FoundClient, NULL, SeatsInv, TypeOK
<1> QED BY <1>1, <1>3, <1>4

LEMMA AcceptRecords ==
  ASSUME SeatsInv, NEW fd \in Sockets \ open, Accept(fd)
  PROVE  /\ cl_count' \in Nat /\ cl_count <= cl_count'
         /\ \A c \in 1 .. cl_count : cl'[c] = cl[c]
         /\ \A c \in 1 .. cl_count' :
              c \in 1 .. cl_count
              \/ /\ cl'[c].sock_fd = fd /\ cl'[c].ready \in ReadyGarbage
                 /\ c > cl_count
<1>1. cl \in [Clients -> ClientType] /\ cl_count \in 0 .. MAX_CLIENTS /\ MAX_CLIENTS \in Nat
  BY TablesAssumption DEF SeatsInv, TypeOK
<1>2. CASE cl_count < MAX_CLIENTS
  <2>1. PICK ready \in ReadyGarbage, affected \in GameGarbage :
          /\ cl' = [cl EXCEPT ![cl_count + 1] =
                     [sock_fd |-> fd, id |-> 0, ready |-> ready,
                      affected_sv_id |-> affected]]
          /\ cl_count' = cl_count + 1
    BY <1>2 DEF Accept
  <2>2. cl_count + 1 \in Clients /\ \A c \in 1 .. cl_count : c \in Clients /\ c # cl_count + 1
    BY <1>1, <1>2 DEF Clients
  <2>3. cl'[cl_count + 1].sock_fd = fd /\ cl'[cl_count + 1].ready = ready
    BY <1>1, <2>1, <2>2
  <2>4. \A c \in 1 .. cl_count : cl'[c] = cl[c]
    BY <1>1, <2>1, <2>2
  <2>5. \A c \in 1 .. cl_count' : c \in 1 .. cl_count \/ c = cl_count + 1
    BY <1>1, <2>1
  <2> QED BY <1>1, <2>1, <2>3, <2>4, <2>5
<1>3. CASE ~(cl_count < MAX_CLIENTS)
  BY <1>1, <1>3 DEF Accept, registry
<1> QED BY <1>2, <1>3

LEMMA ReadyRecords ==
  ASSUME SeatsInv, Ready
  PROVE  \E c \in 1 .. cl_count :
           /\ FoundClient(temp, c) /\ cl'[c].ready = 1
           /\ \A d \in 1 .. cl_count :
                /\ cl'[d].sock_fd = cl[d].sock_fd /\ cl'[d].id = cl[d].id
                /\ cl'[d].affected_sv_id = cl[d].affected_sv_id
                /\ d # c => cl'[d].ready = cl[d].ready
<1>1. PICK c \in 1 .. cl_count : FoundClient(temp, c) /\ cl' = [cl EXCEPT ![c].ready = 1]
  BY DEF Ready
<1>2. cl \in [Clients -> ClientType] /\ c \in Clients /\ 1 .. cl_count \subseteq Clients
  BY TablesAssumption DEF SeatsInv, TypeOK, Clients
<1>3. \A d \in Clients : cl[d] \in ClientType
  BY <1>2
<1>4. \A d \in Clients : cl'[d] = IF d = c THEN [cl[d] EXCEPT !.ready = 1] ELSE cl[d]
  BY <1>1, <1>2
<1>5. \A d \in Clients :
        /\ cl'[d].sock_fd = cl[d].sock_fd /\ cl'[d].id = cl[d].id
        /\ cl'[d].affected_sv_id = cl[d].affected_sv_id
        /\ cl'[d].ready = IF d = c THEN 1 ELSE cl[d].ready
  BY <1>3, <1>4 DEF ClientType
<1> QED BY <1>1, <1>2, <1>5

\* What the threads of the games do to the seats.
LEMMA ThreadFacts ==
  ASSUME SeatsInv, NEW g \in Games \cup {NoGame},
         SvJobRuns(g) \/ SvJobClears(g) \/ (g \in Games /\ SvJobStarts(g))
  PROVE  /\ UNCHANGED <<cl, cl_count, sv_count, open, pc, temp, poll_i>>
         /\ \A f \in Games : /\ sv'[f].players = sv[f].players
                             /\ sv'[f].players_count = sv[f].players_count
                             /\ sv'[f].freed = sv[f].freed
         /\ \A f \in Games \cup {NoGame}, h \in Phases : f # g => hearts'[f][h] = hearts[f][h]
         /\ \E h \in Phases : hearts[g][h] > 0
<1>1. sv \in [Games -> ServerType] /\ hearts \in [Games \cup {NoGame} -> [Phases -> Nat]]
  BY DEF SeatsInv, TypeOK
<1>2. \A f \in Games \cup {NoGame}, h \in Phases : f # g => hearts'[f][h] = hearts[f][h]
  BY <1>1 DEF SvJobRuns, SvJobClears, SvJobStarts, Moves
<1>3. \E h \in Phases : hearts[g][h] > 0
  BY DEF SvJobRuns, SvJobClears, SvJobStarts, Moves, Phases
<1>4. UNCHANGED <<cl, cl_count, sv_count, open, pc, temp, poll_i>>
  BY DEF SvJobRuns, SvJobClears, SvJobStarts, registry, handler
<1>5. ASSUME NEW f \in Games
      PROVE  /\ sv'[f].players = sv[f].players
             /\ sv'[f].players_count = sv[f].players_count
             /\ sv'[f].freed = sv[f].freed
  <2>1. CASE sv' = sv
    BY <2>1
  <2>2. CASE g # NoGame /\ sv' = [sv EXCEPT ![g].running = 1]
    <3>1. sv[f] \in ServerType
      BY <1>1
    <3>2. sv'[f] = IF f = g THEN [sv[f] EXCEPT !.running = 1] ELSE sv[f]
      BY <1>1, <2>2
    <3> QED BY <3>1, <3>2 DEF ServerType
  <2> QED BY <2>1, <2>2 DEF SvJobRuns, SvJobClears, SvJobStarts
<1> QED BY <1>2, <1>3, <1>4, <1>5

LEMMA InitRecords == Init => RecordsInv
<1> SUFFICES ASSUME Init PROVE RecordsInv
  OBVIOUS
<1>1. \A g \in Games, k \in Seats : sv[g].players[k] = NULL
  BY DEF Init, InitServer
<1>2. cl_count = 0 /\ \A g \in Games, h \in Phases : hearts[g][h] = 0
  BY DEF Init
<1> QED BY <1>1, <1>2 DEF RecordsInv, NULL

\* The registries and the games are left as they were.
LEMMA RecordsStill ==
  ASSUME RecordsInv, UNCHANGED <<cl, cl_count, sv, sv_count, hearts>>
  PROVE  RecordsInv'
  BY DEF RecordsInv

LEMMA AcceptKeepsRecords ==
  ASSUME SeatsInv, RecordsInv, NEW fd \in Sockets \ open, Accept(fd)
  PROVE  RecordsInv'
<1>1. /\ cl_count \in Nat /\ cl_count' \in Nat /\ cl_count <= cl_count'
      /\ \A c \in 1 .. cl_count : cl'[c] = cl[c]
      /\ \A c \in 1 .. cl_count' : c \in 1 .. cl_count \/ cl'[c].sock_fd = fd
  BY AcceptRecords, TablesAssumption DEF SeatsInv, TypeOK
<1>2. UNCHANGED <<sv, sv_count, hearts>>
  BY DEF Accept, games
<1>3. \A c \in 1 .. cl_count' : cl'[c].sock_fd \in Sockets
  BY <1>1 DEF RecordsInv
<1>4. 0 .. cl_count \subseteq 0 .. cl_count'
  BY <1>1
<1> QED BY <1>2, <1>3, <1>4 DEF RecordsInv

LEMMA JoinKeepsRecords ==
  ASSUME SeatsInv, RecordsInv, NEW mode \in Modes, Join(mode)
  PROVE  RecordsInv'
<1>0. PICK c \in 1 .. cl_count, g \in Games \cup {NoGame}, s \in ServerType : Joining(c, g, s)
  BY JoinFacts
<1>1. /\ g <= sv_count
      /\ g < sv_count => s = sv[g]
      /\ g >= sv_count => \A k \in Seats : s.players[k] = NULL
      /\ sv' = IF g = NoGame THEN sv ELSE [sv EXCEPT ![g] = Seated(s, c)]
      /\ sv_count' = IF g = sv_count /\ g # NoGame THEN sv_count + 1 ELSE sv_count
      /\ cl' = Rewritten(c, SeatId(s.players, cl[c].id), g)
      /\ \A f \in Games \cup {NoGame}, h \in Phases :
           f # g \/ h # "created" => hearts'[f][h] = hearts[f][h]
  BY <1>0 DEF Joining
<1>2. cl_count' = cl_count /\ cl_count \in Nat /\ c \in 0 .. cl_count /\ NULL \in 0 .. cl_count
  BY TablesAssumption DEF Join, SeatsInv, TypeOK, NULL
<1>3. \A d \in 1 .. cl_count : cl'[d].sock_fd = cl[d].sock_fd
  BY <1>1, JoinRecords
<1>4. sv \in [Games -> ServerType] /\ sv_count \in Nat
      /\ Games \subseteq Nat /\ NoGame \notin Games
  BY TablesAssumption DEF SeatsInv, TypeOK, Games, NoGame
<1>5. ASSUME NEW f \in Games, f = g PROVE f < sv_count'
  <2>1. sv_count' = IF f = sv_count THEN sv_count + 1 ELSE sv_count
    BY <1>1, <1>4, <1>5
  <2>2. f <= sv_count /\ f \in Nat /\ sv_count \in Nat
    BY <1>1, <1>4, <1>5
  <2> QED BY <2>1, <2>2
<1>6. ASSUME NEW f \in Games, NEW k \in Seats
      PROVE  sv'[f].players[k] \in 0 .. cl_count
  <2>1. CASE f = g
    <3>1. sv'[f] = Seated(s, c) /\ (s.players[k] = NULL \/ s = sv[g])
      BY <1>1, <1>4, <2>1
    <3> QED BY <1>2, <2>1, <3>1, SeatedSeats DEF RecordsInv
  <2>2. CASE f # g
    BY <1>1, <1>4, <2>2 DEF RecordsInv
  <2> QED BY <2>1, <2>2
<1>7. ASSUME NEW f \in Games, f >= sv_count'
      PROVE  /\ \A k \in Seats : sv'[f].players[k] = NULL
             /\ \A h \in Phases : hearts'[f][h] = 0
  <2>1. f # g /\ f >= sv_count
    BY <1>1, <1>4, <1>5, <1>7
  <2> QED BY <1>1, <1>4, <2>1 DEF RecordsInv
<1> QED BY <1>2, <1>3, <1>6, <1>7 DEF RecordsInv

LEMMA CloseKeepsRecords == SeatsInv /\ RecordsInv /\ CloseAndFree => RecordsInv'
<1> SUFFICES ASSUME SeatsInv, RecordsInv, CloseAndFree PROVE RecordsInv'
  OBVIOUS
<1>1. PICK g \in Games : sv' = [sv EXCEPT ![g] = Unseated(sv[g], temp)]
  BY CloseFacts
<1>2. UNCHANGED <<cl, cl_count, sv_count, hearts>> /\ NULL \in 0 .. cl_count
  BY TablesAssumption DEF CloseAndFree, registry, SeatsInv, TypeOK, NULL
<1>3. \A f \in Games, k \in Seats : sv'[f].players[k] \in {sv[f].players[k], NULL}
  BY <1>1, UnseatedSeats DEF SeatsInv, TypeOK
<1> QED BY <1>2, <1>3 DEF RecordsInv

LEMMA EndsKeepsRecords ==
  ASSUME SeatsInv, RecordsInv, NEW g \in Games, SvJobEnds(g)
  PROVE  RecordsInv'
<1>1. sv' = [sv EXCEPT ![g] = ShutDown(sv[g])] /\ UNCHANGED <<cl, cl_count, sv_count, hearts>>
  BY DEF SvJobEnds, registry
<1>2. \A k \in Seats : ShutDown(sv[g]).players[k] \in {sv[g].players[k], NULL}
  BY DEF ShutDown, SeatsInv, TypeOK, ServerType
<1>3. \A f \in Games, k \in Seats : sv'[f].players[k] \in {sv[f].players[k], NULL}
  BY <1>1, <1>2 DEF SeatsInv, TypeOK
<1>4. NULL \in 0 .. cl_count
  BY TablesAssumption DEF SeatsInv, TypeOK, NULL
<1> QED BY <1>1, <1>3, <1>4 DEF RecordsInv

LEMMA ThreadKeepsRecords ==
  ASSUME SeatsInv, RecordsInv, NEW g \in Games \cup {NoGame},
         SvJobRuns(g) \/ SvJobClears(g) \/ (g \in Games /\ SvJobStarts(g))
  PROVE  RecordsInv'
<1>1. /\ UNCHANGED <<cl, cl_count, sv_count>>
      /\ \A f \in Games : sv'[f].players = sv[f].players
      /\ \A f \in Games \cup {NoGame}, h \in Phases : f # g => hearts'[f][h] = hearts[f][h]
      /\ \E h \in Phases : hearts[g][h] > 0
  BY ThreadFacts
<1>2. \A f \in Games : f >= sv_count => f # g
  BY <1>1 DEF RecordsInv
<1> QED BY <1>1, <1>2 DEF RecordsInv

LEMMA NextKeepsRecords == SeatsInv /\ RecordsInv /\ [Next]_vars => RecordsInv'
<1> SUFFICES ASSUME SeatsInv, RecordsInv, [Next]_vars PROVE RecordsInv'
  OBVIOUS
<1>1. CASE \E fd \in Sockets \ open : Accept(fd)
  BY <1>1, AcceptKeepsRecords
<1>2. CASE \E mode \in Modes : Join(mode)
  BY <1>2, JoinKeepsRecords
<1>3. CASE Ready
  <2>1. /\ \A d \in 1 .. cl_count : cl'[d].sock_fd = cl[d].sock_fd
        /\ UNCHANGED <<cl_count, sv, sv_count, hearts>>
    BY <1>3, ReadyRecords DEF Ready, games
  <2> QED BY <2>1 DEF RecordsInv
<1>4. CASE CloseAndFree
  BY <1>4, CloseKeepsRecords
<1>5. CASE PollReturns \/ NoAccept \/ AcceptFull \/ AcceptFails \/ PollAgain
           \/ (\E e \in Entries : Visit(e)) \/ Unregistered \/ LostGame \/ Chat \/ Reject
           \/ EndOfStream \/ SendInit \/ CloseStumbles \/ (\E g \in Games : SvJobBreaks(g))
           \/ UNCHANGED vars
  <2>1. UNCHANGED <<cl, cl_count, sv, sv_count, hearts>>
    BY <1>5 DEF PollReturns, NoAccept, AcceptFull, AcceptFails, PollAgain, Visit, Unregistered,
                LostGame, Chat, Reject, EndOfStream, SendInit, CloseStumbles, SvJobBreaks,
                Breaks, registry, games, vars
  <2> QED BY <2>1, RecordsStill
<1>6. CASE \E g \in Games \cup {NoGame} : SvJobRuns(g) \/ SvJobClears(g)
  BY <1>6, ThreadKeepsRecords
<1>7. CASE \E g \in Games : SvJobStarts(g) \/ SvJobEnds(g)
  BY <1>7, ThreadKeepsRecords, EndsKeepsRecords
<1> QED BY <1>1, <1>2, <1>3, <1>4, <1>5, <1>6, <1>7 DEF Next

-----------------------------------------------------------------------------
(* The seat a connection waits to be told *)

\* The first record with that descriptor has its seat, or a game that is not listed.
Holds(fd) ==
  \E c \in 1 .. cl_count :
    /\ FoundClient(fd, c)
    /\ \/ cl[c].affected_sv_id = NoGame
       \/ /\ cl[c].affected_sv_id < sv_count
          /\ sv[cl[c].affected_sv_id].players[cl[c].id] = c

AwaitedInv ==
  \A e \in Entries :
    clients[e].fd \in Sockets /\ clients[e].events = "OUT" => Holds(clients[e].fd)

LEMMA AwaitedImplied == SeatsInv /\ AwaitedInv => AwaitedSeatIsHeld
<1> SUFFICES ASSUME SeatsInv, AwaitedInv,
                    NEW e \in Entries, clients[e].fd \in Sockets, clients[e].events = "OUT"
             PROVE  \E c \in 1 .. cl_count :
                      /\ FoundClient(clients[e].fd, c)
                      /\ cl[c].affected_sv_id < sv_count =>
                           sv[cl[c].affected_sv_id].players[cl[c].id] = c
  BY DEF AwaitedSeatIsHeld
<1>1. PICK c \in 1 .. cl_count :
        /\ FoundClient(clients[e].fd, c)
        /\ \/ cl[c].affected_sv_id = NoGame
           \/ sv[cl[c].affected_sv_id].players[cl[c].id] = c
  BY DEF AwaitedInv, Holds
<1>2. cl[c].affected_sv_id = NoGame => ~(cl[c].affected_sv_id < sv_count)
  BY TablesAssumption DEF SeatsInv, TypeOK, NoGame
<1> QED BY <1>1, <1>2

LEMMA InitAwaited == Init => AwaitedInv
  BY SocketsAssumption DEF Init, AwaitedInv, Unused

\* A record found stays found as records are added and their seats change.
LEMMA FoundStays ==
  ASSUME SeatsInv, NEW fd, NEW c \in 1 .. cl_count, FoundClient(fd, c),
         cl_count' \in Nat, cl_count <= cl_count',
         \A d \in 1 .. cl_count : cl'[d].sock_fd = cl[d].sock_fd
  PROVE  c \in 1 .. cl_count' /\ FoundClient(fd, c)'
<1>1. cl_count \in Nat /\ c # NULL
  BY TablesAssumption DEF SeatsInv, TypeOK, NULL
<1>2. cl[c].sock_fd = fd /\ \A k \in 1 .. c - 1 : cl[k].sock_fd # fd
  BY <1>1 DEF FoundClient
<1>3. c \in 1 .. cl_count' /\ \A k \in 1 .. c - 1 : k \in 1 .. cl_count
  BY <1>1
<1> QED BY <1>2, <1>3 DEF FoundClient

LEMMA FoundFd ==
  ASSUME SeatsInv, NEW fd, NEW c \in 1 .. cl_count, FoundClient(fd, c)
  PROVE  cl[c].sock_fd = fd
  BY TablesAssumption DEF FoundClient, SeatsInv, TypeOK, NULL

\* What was held is held as long as records, games and the seat itself stay.
LEMMA HoldsStays ==
  ASSUME SeatsInv, NEW fd, Holds(fd),
         cl_count' \in Nat, cl_count <= cl_count', sv_count <= sv_count', sv_count' \in Nat,
         \A d \in 1 .. cl_count :
           /\ cl'[d].sock_fd = cl[d].sock_fd
           /\ cl[d].sock_fd = fd => /\ cl'[d].id = cl[d].id
                                    /\ cl'[d].affected_sv_id = cl[d].affected_sv_id,
         \A d \in 1 .. cl_count, g \in Games, k \in Seats :
           cl[d].sock_fd = fd /\ sv[g].players[k] = d => sv'[g].players[k] = d
  PROVE  Holds(fd)'
<1>1. PICK c \in 1 .. cl_count :
        /\ FoundClient(fd, c)
        /\ \/ cl[c].affected_sv_id = NoGame
           \/ /\ cl[c].affected_sv_id < sv_count
              /\ sv[cl[c].affected_sv_id].players[cl[c].id] = c
  BY DEF Holds
<1>2. cl[c].sock_fd = fd
  BY <1>1, FoundFd
<1>3. c \in 1 .. cl_count' /\ FoundClient(fd, c)'
  BY <1>1, FoundStays
<1>4. cl[c] \in ClientType /\ sv_count \in Nat /\ sv_count <= MAX_SERVERS
  BY TablesAssumption DEF SeatsInv, TypeOK, Clients
<1>5. cl[c].affected_sv_id < sv_count => cl[c].affected_sv_id \in Games /\ cl[c].id \in Seats
  BY <1>4, TablesAssumption DEF ClientType, Games, NoGame
<1>6. /\ cl'[c].id = cl[c].id /\ cl'[c].affected_sv_id = cl[c].affected_sv_id
  BY <1>2
<1>7. cl[c].affected_sv_id < sv_count => cl[c].affected_sv_id < sv_count'
  BY <1>4, <1>5 DEF Games
<1> QED BY <1>1, <1>2, <1>3, <1>5, <1>6, <1>7 DEF Holds

\* The same for a step that leaves the records and the games alone, and asks poll for
\* nothing new.
LEMMA AwaitedStill ==
  ASSUME AwaitedInv, UNCHANGED <<cl, cl_count, sv, sv_count>>,
         \A e \in Entries :
           clients'[e].fd \in Sockets /\ clients'[e].events = "OUT" =>
             clients'[e].fd = clients[e].fd /\ clients[e].events = "OUT"
  PROVE  AwaitedInv'
  BY DEF AwaitedInv, Holds, FoundClient

LEMMA SeatIdFree ==
  ASSUME NEW p \in [Seats -> Clients \cup {NULL}], NEW id, \E k \in Seats : p[k] = NULL
  PROVE  SeatId(p, id) \in Seats /\ p[SeatId(p, id)] = NULL
<1>1. \E k \in Seats : p[k] = NULL /\ \A j \in Seats : j > k => p[j] # NULL
  BY DEF Seats
<1> QED BY <1>1 DEF SeatId

LEMMA AcceptAwaited ==
  ASSUME SeatsInv, TableInv, AwaitedInv, NEW fd \in Sockets \ open, Accept(fd)
  PROVE  AwaitedInv'
<1>1. /\ cl_count' \in Nat /\ cl_count <= cl_count'
      /\ \A c \in 1 .. cl_count : cl'[c] = cl[c]
  BY AcceptRecords
<1>2. UNCHANGED <<sv, sv_count>> /\ sv_count \in Nat
  BY TablesAssumption DEF Accept, games, SeatsInv, TypeOK
<1>3. PICK e \in Entries :
        \A d \in Entries :
          /\ clients'[d].fd = IF d = e THEN fd ELSE clients[d].fd
          /\ clients'[d].events = IF d = e THEN "IN" ELSE clients[d].events
  BY EntryAdded
<1> SUFFICES ASSUME NEW d \in Entries, clients'[d].fd \in Sockets, clients'[d].events = "OUT"
             PROVE  Holds(clients[d].fd)' /\ clients'[d].fd = clients[d].fd
  BY DEF AwaitedInv, Holds, FoundClient
<1>4. clients'[d].fd = clients[d].fd /\ clients[d].events = "OUT"
  BY <1>3
<1> DEFINE f == clients[d].fd
<1>5. Holds(f)
  BY <1>4 DEF AwaitedInv
<1> QED BY <1>1, <1>2, <1>4, <1>5, HoldsStays DEF Holds, FoundClient

LEMMA JoinAwaited ==
  ASSUME SeatsInv, TableInv, RecordsInv, AwaitedInv, NEW mode \in Modes, Join(mode)
  PROVE  AwaitedInv'
<1>0. PICK c \in 1 .. cl_count, g \in Games \cup {NoGame}, s \in ServerType : Joining(c, g, s)
  BY JoinFacts
<1>1. /\ FoundClient(temp, c) /\ g <= sv_count /\ \E k \in Seats : s.players[k] = NULL
      /\ g < sv_count => s = sv[g]
      /\ sv' = IF g = NoGame THEN sv ELSE [sv EXCEPT ![g] = Seated(s, c)]
      /\ sv_count' = IF g = sv_count /\ g # NoGame THEN sv_count + 1 ELSE sv_count
      /\ cl' = Rewritten(c, SeatId(s.players, cl[c].id), g)
  BY <1>0 DEF Joining
<1>2. PICK id : id = SeatId(s.players, cl[c].id)
  OBVIOUS
<1>3. id \in Seats /\ s.players[id] = NULL
  <2>1. s.players \in [Seats -> Clients \cup {NULL}]
    BY DEF ServerType
  <2> QED BY <1>1, <1>2, <2>1, SeatIdFree
<1>11. /\ \A d \in 1 .. cl_count :
            cl'[d].sock_fd = cl[d].sock_fd /\ cl'[d].ready = cl[d].ready
       /\ \A d \in 1 .. cl_count : d # c => cl'[d] = cl[d]
       /\ cl'[c].id = id /\ cl'[c].affected_sv_id = g
  BY <1>1, <1>2, JoinRecords
<1>4. /\ sv \in [Games -> ServerType] /\ sv_count \in Nat /\ cl_count \in Nat
      /\ cl_count' = cl_count /\ sv_count' \in Nat /\ sv_count <= sv_count'
      /\ Games \subseteq Nat /\ NULL \notin 1 .. cl_count
  <2>1. sv_count \in Nat /\ cl_count \in Nat /\ NULL \notin 1 .. cl_count
    BY TablesAssumption DEF SeatsInv, TypeOK, NULL
  <2>2. sv_count' \in Nat /\ sv_count <= sv_count'
    BY <1>1, <2>1
  <2> QED BY <2>1, <2>2 DEF SeatsInv, TypeOK, Join, Games
<1>5. cl[c].sock_fd = temp /\ temp \in Sockets
  BY <1>1, FoundFd DEF RecordsInv
<1>6. AtEntry /\ clients' = [clients EXCEPT ![poll_i].events = "OUT"]
  BY DEF Join, AtEntry
<1>7. \A e \in Entries :
        /\ clients'[e].fd = clients[e].fd
        /\ clients'[e].events = IF e = poll_i THEN "OUT" ELSE clients[e].events
  BY <1>6, EventsSet
<1> SUFFICES ASSUME NEW e \in Entries, clients'[e].fd \in Sockets, clients'[e].events = "OUT"
             PROVE  Holds(clients[e].fd)' /\ clients'[e].fd = clients[e].fd
  BY DEF AwaitedInv, Holds, FoundClient
<1>8. CASE e = poll_i
  <2>1. clients[e].fd = temp
    BY <1>6, <1>7, <1>8 DEF TableInv
  <2>2. c \in 1 .. cl_count' /\ (temp = clients[e].fd) /\ cl'[c].sock_fd = temp
        /\ \A k \in 1 .. c - 1 : cl'[k].sock_fd # temp
    <3>1. \A k \in 1 .. c - 1 : k \in 1 .. cl_count /\ cl[k].sock_fd # temp
      BY <1>1, <1>4 DEF FoundClient
    <3> QED BY <1>11, <1>4, <1>5, <2>1, <3>1
  <2>3. g # NoGame => g \in Games /\ g < sv_count' /\ sv'[g].players[id] = c
    <3>1. g # NoGame => g \in Games /\ sv'[g] = Seated(s, c)
      BY <1>1, <1>4
    <3>2. g # NoGame => g < sv_count'
      BY <1>1, <1>4, <3>1
    <3> QED BY <1>3, <3>1, <3>2, SeatedSeats
  <2> QED BY <1>11, <1>7, <2>1, <2>2, <2>3 DEF Holds, FoundClient
<1>9. CASE e # poll_i
  <2>0. PICK f : f = clients[e].fd
    OBVIOUS
  <2>1. f # temp /\ clients[e].events = "OUT" /\ f \in Sockets
    BY <1>5, <1>6, <1>7, <1>9, <2>0 DEF TableInv
  <2>2. Holds(f)
    BY <2>0, <2>1 DEF AwaitedInv
  <2>3. ASSUME NEW d \in 1 .. cl_count, NEW h \in Games, NEW k \in Seats,
               sv[h].players[k] = d
        PROVE  sv'[h].players[k] = d
    <3>1. CASE h = g
      <4>1. g < sv_count
        BY <1>4, <2>3, <3>1 DEF RecordsInv
      <4>2. s = sv[h] /\ sv'[h] = Seated(s, c)
        BY <1>1, <1>4, <3>1, <4>1, TablesAssumption DEF Games, NoGame
      <4> QED BY <1>4, <2>3, <4>2, SeatedSeats
    <3>2. CASE h # g
      BY <1>1, <1>4, <2>3, <3>2
    <3> QED BY <3>1, <3>2
  <2>4. \A d \in 1 .. cl_count :
          /\ cl'[d].sock_fd = cl[d].sock_fd
          /\ cl[d].sock_fd = f => /\ cl'[d].id = cl[d].id
                                  /\ cl'[d].affected_sv_id = cl[d].affected_sv_id
    BY <1>11, <1>5, <2>1
  <2>5. Holds(f)'
    <3>1. \A d \in 1 .. cl_count, h \in Games, k \in Seats :
            cl[d].sock_fd = f /\ sv[h].players[k] = d => sv'[h].players[k] = d
      BY <2>3
    <3>2. cl_count' \in Nat /\ cl_count <= cl_count' /\ sv_count <= sv_count'
          /\ sv_count' \in Nat
      BY <1>4
    <3> QED BY <2>2, <2>4, <3>1, <3>2, HoldsStays
  <2> QED BY <1>7, <2>0, <2>5 DEF Holds, FoundClient
<1> QED BY <1>8, <1>9

LEMMA ReadyAwaited == SeatsInv /\ AwaitedInv /\ Ready => AwaitedInv'
<1> SUFFICES ASSUME SeatsInv, AwaitedInv, Ready PROVE AwaitedInv'
  OBVIOUS
<1>1. \A d \in 1 .. cl_count :
        /\ cl'[d].sock_fd = cl[d].sock_fd /\ cl'[d].id = cl[d].id
        /\ cl'[d].affected_sv_id = cl[d].affected_sv_id
  BY ReadyRecords
<1>2. UNCHANGED <<cl_count, sv, sv_count>> /\ cl_count \in Nat /\ sv_count \in Nat
  BY TablesAssumption DEF Ready, games, SeatsInv, TypeOK
<1>3. \A e \in Entries :
        /\ clients'[e].events = clients[e].events
        /\ clients'[e].fd = IF e = poll_i THEN NoSocket ELSE clients[e].fd
  BY FdSet DEF Ready
<1> SUFFICES ASSUME NEW e \in Entries, clients'[e].fd \in Sockets, clients'[e].events = "OUT",
                    NEW f, f = clients'[e].fd
             PROVE  Holds(f)'
  BY DEF AwaitedInv, Holds, FoundClient
<1>4. f = clients[e].fd /\ clients[e].events = "OUT" /\ f \in Sockets
  BY <1>3, SocketsAssumption
<1>5. Holds(f)
  BY <1>4 DEF AwaitedInv
<1> QED BY <1>1, <1>2, <1>5, HoldsStays

LEMMA CloseAwaited == SeatsInv /\ TableInv /\ RecordsInv /\ AwaitedInv /\ CloseAndFree => AwaitedInv'
<1> SUFFICES ASSUME SeatsInv, TableInv, RecordsInv, AwaitedInv, CloseAndFree PROVE AwaitedInv'
  OBVIOUS
<1>1. PICK c \in 1 .. cl_count, g \in Games :
        cl[c].sock_fd = temp /\ sv' = [sv EXCEPT ![g] = Unseated(sv[g], temp)]
  BY CloseFacts
<1>2. UNCHANGED <<cl, cl_count, sv_count>> /\ cl_count \in Nat /\ sv_count \in Nat
  BY TablesAssumption DEF CloseAndFree, registry, SeatsInv, TypeOK
<1>3. \A e \in Entries :
        /\ clients'[e].events = clients[e].events
        /\ clients'[e].fd = IF e = poll_i THEN NoSocket ELSE clients[e].fd
  BY FdSet DEF CloseAndFree
<1>4. temp \in Sockets /\ AtEntry
  BY <1>1 DEF RecordsInv, CloseAndFree, AtEntry
<1> SUFFICES ASSUME NEW e \in Entries, clients'[e].fd \in Sockets, clients'[e].events = "OUT",
                    NEW f, f = clients'[e].fd
             PROVE  Holds(f)'
  BY DEF AwaitedInv, Holds, FoundClient
<1>5. f = clients[e].fd /\ clients[e].events = "OUT" /\ f \in Sockets /\ e # poll_i
  BY <1>3, SocketsAssumption
<1>6. Holds(f) /\ f # temp
  BY <1>4, <1>5 DEF AwaitedInv, TableInv
<1>7. ASSUME NEW d \in 1 .. cl_count, NEW h \in Games, NEW k \in Seats,
             cl[d].sock_fd = f, sv[h].players[k] = d
      PROVE  sv'[h].players[k] = d
  BY <1>1, <1>6, <1>7, UnseatedSeats DEF SeatsInv, TypeOK
<1>8. \A d \in 1 .. cl_count, h \in Games, k \in Seats :
        cl[d].sock_fd = f /\ sv[h].players[k] = d => sv'[h].players[k] = d
  BY <1>7
<1> QED BY <1>2, <1>6, <1>8, HoldsStays

LEMMA ThreadAwaited ==
  ASSUME SeatsInv, AwaitedInv, NEW g \in Games \cup {NoGame},
         SvJobRuns(g) \/ (g \in Games /\ SvJobStarts(g))
  PROVE  AwaitedInv'
<1>1. /\ UNCHANGED <<cl, cl_count, sv_count>>
      /\ \A f \in Games : sv'[f].players = sv[f].players
  BY ThreadFacts
<1>2. clients' = clients /\ cl_count \in Nat /\ sv_count \in Nat
  BY TablesAssumption DEF SvJobRuns, SvJobStarts, table, SeatsInv, TypeOK
<1> SUFFICES ASSUME NEW e \in Entries, clients'[e].fd \in Sockets, clients'[e].events = "OUT",
                    NEW f, f = clients'[e].fd
             PROVE  Holds(f)'
  BY DEF AwaitedInv, Holds, FoundClient
<1>3. Holds(f)
  BY <1>2 DEF AwaitedInv
<1> QED BY <1>1, <1>2, <1>3, HoldsStays

\* Nothing is awaited in a table that has been emptied.
LEMMA EmptiedAwaited ==
  ASSUME \A e \in Entries : clients'[e].fd \notin Sockets
  PROVE  AwaitedInv'
  BY DEF AwaitedInv

LEMMA NextKeepsAwaited ==
  SeatsInv /\ TableInv /\ RecordsInv /\ AwaitedInv /\ [Next]_vars => AwaitedInv'
<1> SUFFICES ASSUME SeatsInv, TableInv, RecordsInv, AwaitedInv, [Next]_vars PROVE AwaitedInv'
  OBVIOUS
<1>1. CASE \E fd \in Sockets \ open : Accept(fd)
  BY <1>1, AcceptAwaited
<1>2. CASE \E mode \in Modes : Join(mode)
  BY <1>2, JoinAwaited
<1>3. CASE Ready
  BY <1>3, ReadyAwaited
<1>4. CASE CloseAndFree
  BY <1>4, CloseAwaited
<1>5. CASE PollReturns
  <2>1. UNCHANGED <<cl, cl_count, sv, sv_count>>
    BY <1>5 DEF PollReturns, registry, games
  <2> QED BY <1>5, <2>1, RevisedByPoll, AwaitedStill
<1>6. CASE PollAgain
  <2>1. UNCHANGED <<cl, cl_count, sv, sv_count>>
    BY <1>6 DEF PollAgain, registry, games
  <2> QED BY <1>6, <2>1, RevisedAgain, AwaitedStill
<1>7. CASE SendInit
  <2>1. UNCHANGED <<cl, cl_count, sv, sv_count>>
    BY <1>7 DEF SendInit, registry, games
  <2>2. clients' = clients \/ clients' = [clients EXCEPT ![poll_i].events = "IN"]
    BY <1>7 DEF SendInit
  <2>3. \A e \in Entries :
          clients'[e].fd = clients[e].fd
          /\ (clients'[e].events = clients[e].events \/ clients'[e].events = "IN")
    BY <2>2, EventsSet
  <2> QED BY <2>1, <2>3, AwaitedStill
<1>8. CASE NoAccept \/ AcceptFull \/ AcceptFails
           \/ (\E e \in Entries : Visit(e)) \/ Unregistered \/ LostGame \/ Chat \/ Reject
           \/ EndOfStream \/ CloseStumbles \/ (\E g \in Games : SvJobBreaks(g))
           \/ UNCHANGED vars
  <2>1. UNCHANGED <<clients, cl, cl_count, sv, sv_count>>
    BY <1>8 DEF NoAccept, AcceptFull, AcceptFails, Visit, Unregistered, LostGame, Chat, Reject,
                EndOfStream, CloseStumbles, SvJobBreaks, Breaks, table, registry, games, vars
  <2> QED BY <2>1, AwaitedStill
<1>9. CASE \E g \in Games \cup {NoGame} : SvJobRuns(g)
  BY <1>9, ThreadAwaited
<1>10. CASE \E g \in Games \cup {NoGame} : SvJobClears(g)
  <2>1. \A e \in Entries : clients'[e] = Cleared
    BY <1>10 DEF SvJobClears
  <2> QED BY <2>1, EmptiedAwaited, SocketsAssumption DEF Cleared
<1>11. CASE \E g \in Games : SvJobStarts(g)
  BY <1>11, ThreadAwaited
<1>12. CASE \E g \in Games : SvJobEnds(g)
  <2>1. \A e \in Entries : clients'[e].fd \notin Sockets
    BY <1>12 DEF SvJobEnds, MayEnd, Emptied, table, TableInv, StaysEmpty
  <2> QED BY <2>1, EmptiedAwaited
<1> QED BY <1>1, <1>2, <1>3, <1>4, <1>5, <1>6, <1>7, <1>8, <1>9, <1>10, <1>11, <1>12 DEF Next

\* For every size of the tables and whatever malloc leaves in a record, a connection is
\* told a seat that its own record holds, or no seat of a listed game at all.
THEOREM AwaitedSeatHeld == Spec => []AwaitedSeatIsHeld
<1>1. SeatsInv /\ AwaitedInv => AwaitedSeatIsHeld
  BY AwaitedImplied
<1> QED BY <1>1, InitSeats, InitTable, InitRecords, InitAwaited, NextKeepsSeats, NextKeepsTable,
           NextKeepsRecords, NextKeepsAwaited, PTL DEF Spec

-----------------------------------------------------------------------------
(* The clients that are ready *)

\* A ready connection is left to its game: no entry watches it and the handler is not
\* at it.  That the handler's own connection is open rests on it: a game that ends
\* while the handler is at an entry closes ready connections only.
Left(c) ==
  /\ Emptied \/ cl[c].sock_fd \in open
  /\ \A e \in Entries : clients[e].fd # cl[c].sock_fd
  /\ AtEntry => temp # cl[c].sock_fd

AllReady(g) == \A k \in Seats : sv[g].players[k] # NULL /\ cl[sv[g].players[k]].ready = 1

ReadyInv ==
  /\ \A c \in 1 .. cl_count : cl[c].ready = 1 => Left(c)
  /\ AtEntry /\ temp \in Sockets => temp \in open
  /\ \A g \in Games : hearts[g].playing > 0 /\ ~sv[g].freed => AllReady(g)

ReadyContext == SeatsInv /\ TableInv /\ RecordsInv /\ ReadyInv

LEMMA InitReady == Init => ReadyInv
<1> SUFFICES ASSUME Init PROVE ReadyInv
  OBVIOUS
<1>1. cl_count = 0 /\ pc = "poll" /\ \A g \in Games : hearts[g].playing = 0
  BY DEF Init, Phases
<1> QED BY <1>1 DEF ReadyInv, AtEntry

\* Connections that are watched stay so or are dropped, those that are open stay open.
LEMMA ReadyStill ==
  ASSUME RecordsInv, ReadyInv, UNCHANGED <<cl, cl_count, sv, hearts, open>>,
         AtEntry' => AtEntry /\ temp' = temp,
         \A e \in Entries : clients'[e].fd \in Sockets => clients'[e].fd = clients[e].fd
  PROVE  ReadyInv'
<1>1. \A c \in 1 .. cl_count : cl[c].sock_fd \in Sockets
  BY DEF RecordsInv
<1> QED BY <1>1 DEF ReadyInv, Left, AllReady, Emptied

LEMMA VisitReady ==
  ASSUME ReadyContext, NEW e \in Entries, Visit(e)
  PROVE  ReadyInv'
<1>1. temp' = clients[e].fd /\ UNCHANGED <<clients, open, cl, cl_count, sv, hearts>>
  BY DEF Visit, table, registry, games
<1>2. temp' \in Sockets => temp' \in open
  BY <1>1 DEF ReadyContext, TableInv, EntriesWatchOpen
<1>3. \A c \in 1 .. cl_count : cl[c].ready = 1 => temp' # cl[c].sock_fd
  BY <1>1 DEF ReadyContext, ReadyInv, Left
<1> QED BY <1>1, <1>2, <1>3 DEF ReadyContext, ReadyInv, Left, AllReady, Emptied

LEMMA AcceptReady ==
  ASSUME ReadyContext, ReadyGarbage = {0}, NEW fd \in Sockets \ open, Accept(fd)
  PROVE  ReadyInv'
<1>1. SeatsInv /\ TableInv /\ ReadyInv
  BY DEF ReadyContext
<1>2. /\ cl_count' \in Nat /\ cl_count <= cl_count' /\ cl_count \in Nat
      /\ \A c \in 1 .. cl_count : cl'[c] = cl[c]
      /\ \A c \in 1 .. cl_count' : c \in 1 .. cl_count \/ cl'[c].ready = 0
  BY <1>1, AcceptRecords, TablesAssumption DEF SeatsInv, TypeOK
<1>3. PICK e \in Entries :
        \A d \in Entries : clients'[d].fd = IF d = e THEN fd ELSE clients[d].fd
  BY <1>1, EntryAdded
<1>4. UNCHANGED <<sv, hearts>> /\ open' = open \cup {fd} /\ pc' = "visit"
  BY DEF Accept, games, Go
<1>5. ~Emptied
  BY <1>1, AcceptEarly
<1>6. \A c \in 1 .. cl_count' : cl'[c].ready = 1 => Left(c)'
  <2> SUFFICES ASSUME NEW c \in 1 .. cl_count', cl'[c].ready = 1 PROVE Left(c)'
    OBVIOUS
  <2>1. c \in 1 .. cl_count /\ cl'[c] = cl[c]
    BY <1>2
  <2>2. cl[c].sock_fd \in open /\ \A d \in Entries : clients[d].fd # cl[c].sock_fd
    BY <1>1, <1>5, <2>1 DEF ReadyInv, Left
  <2>3. fd # cl[c].sock_fd
    BY <2>2
  <2> QED BY <1>3, <1>4, <2>1, <2>2, <2>3 DEF Left, AtEntry
<1>7. \A g \in Games : hearts'[g].playing > 0 /\ ~sv'[g].freed => AllReady(g)'
  <2> SUFFICES ASSUME NEW g \in Games, hearts'[g].playing > 0, ~sv'[g].freed
               PROVE  AllReady(g)'
    OBVIOUS
  <2>1. AllReady(g)
    BY <1>1, <1>4 DEF ReadyInv
  <2>2. \A k \in Seats : sv[g].players[k] \in 1 .. cl_count
    BY <1>2, <2>1 DEF AllReady, ReadyContext, RecordsInv, NULL
  <2> QED BY <1>2, <1>4, <2>1, <2>2 DEF AllReady
<1> QED BY <1>4, <1>6, <1>7 DEF ReadyInv, AtEntry

LEMMA JoinReady ==
  ASSUME ReadyContext, NEW mode \in Modes, Join(mode)
  PROVE  ReadyInv'
<1>1. SeatsInv /\ TableInv /\ RecordsInv /\ ReadyInv
  BY DEF ReadyContext
<1>2. PICK c \in 1 .. cl_count, g \in Games \cup {NoGame}, s \in ServerType : Joining(c, g, s)
  BY <1>1, JoinFacts
<1>3. \A d \in 1 .. cl_count :
        cl'[d].sock_fd = cl[d].sock_fd /\ cl'[d].ready = cl[d].ready
  <2>1. cl' = Rewritten(c, SeatId(s.players, cl[c].id), g)
    BY <1>2 DEF Joining
  <2> QED BY <1>1, <2>1, JoinRecords
<1>4. cl_count' = cl_count /\ open' = open /\ pc' = "visit"
  BY DEF Join, Done
<1>5. \A e \in Entries : clients'[e].fd = clients[e].fd
  BY <1>1, EventsSet DEF Join
<1>6. \A h \in {"waiting", "playing"}, f \in Games \cup {NoGame} : hearts'[f][h] = hearts[f][h]
  BY <1>2 DEF Joining, Phases
<1>7. Emptied => Emptied'
  BY <1>6 DEF Emptied
<1>8. \A d \in 1 .. cl_count' : cl'[d].ready = 1 => Left(d)'
  BY <1>1, <1>3, <1>4, <1>5, <1>7 DEF ReadyInv, Left, AtEntry
<1>9. ASSUME NEW f \in Games, hearts'[f].playing > 0, ~sv'[f].freed
      PROVE  AllReady(f)'
  <2>1. hearts[f].playing > 0
    BY <1>6, <1>9
  <2>2. sv'[f] = sv[f] \/ (f = g /\ g # NoGame)
    BY <1>1, <1>2 DEF Joining, SeatsInv, TypeOK
  <2>3. CASE sv'[f] = sv[f]
    <3>1. AllReady(f)
      BY <1>1, <1>9, <2>1, <2>3 DEF ReadyInv
    <3>2. \A k \in Seats : sv[f].players[k] \in 1 .. cl_count
      BY <1>1, <3>1, TablesAssumption DEF AllReady, RecordsInv, NULL, SeatsInv, TypeOK
    <3> QED BY <1>3, <2>3, <3>1, <3>2 DEF AllReady
  <2>4. CASE f = g /\ g # NoGame
    <3>1. g < sv_count
      <4>1. hearts[f]["playing"] # 0
        BY <2>1
      <4>2. ~(f >= sv_count)
        BY <1>1, <4>1 DEF RecordsInv, Phases
      <4>3. f \in Nat /\ sv_count \in Nat
        BY <1>1, TablesAssumption DEF SeatsInv, TypeOK, Games
      <4> QED BY <2>4, <4>2, <4>3
    <3>2. s = sv[f] /\ ~s.freed /\ \E k \in Seats : s.players[k] = NULL
      BY <1>2, <2>4, <3>1 DEF Joining
    <3> QED BY <1>1, <2>1, <3>2 DEF ReadyInv, AllReady
  <2> QED BY <2>2, <2>3, <2>4
<1> QED BY <1>4, <1>8, <1>9 DEF ReadyInv, AtEntry

LEMMA ReadyReady == ReadyContext /\ Ready => ReadyInv'
<1> SUFFICES ASSUME ReadyContext, Ready PROVE ReadyInv'
  OBVIOUS
<1>1. SeatsInv /\ TableInv /\ RecordsInv /\ ReadyInv
  BY DEF ReadyContext
<1>2. PICK c \in 1 .. cl_count :
        /\ FoundClient(temp, c) /\ cl'[c].ready = 1
        /\ \A d \in 1 .. cl_count :
             /\ cl'[d].sock_fd = cl[d].sock_fd
             /\ d # c => cl'[d].ready = cl[d].ready
  BY <1>1, ReadyRecords
<1>3. cl[c].sock_fd = temp /\ temp \in Sockets /\ temp \in open /\ AtEntry
  BY <1>1, <1>2, FoundFd DEF RecordsInv, ReadyInv, Ready, AtEntry
<1>4. cl_count' = cl_count /\ UNCHANGED <<open, sv, hearts>> /\ pc' = "visit"
  BY DEF Ready, Done, games
<1>5. \A e \in Entries : clients'[e].fd = IF e = poll_i THEN NoSocket ELSE clients[e].fd
  BY <1>1, FdSet DEF Ready
<1>6. \A e \in Entries : clients'[e].fd # temp
  BY <1>1, <1>3, <1>5, SocketsAssumption DEF TableInv
<1>7. ASSUME NEW d \in 1 .. cl_count', cl'[d].ready = 1
      PROVE  Left(d)'
  <2>1. CASE d = c
    BY <1>2, <1>3, <1>4, <1>6, <2>1 DEF Left, AtEntry
  <2>2. CASE d # c
    <3>1. cl'[d].sock_fd = cl[d].sock_fd /\ cl[d].sock_fd \in Sockets /\ Left(d)
      BY <1>1, <1>2, <1>4, <1>7, <2>2 DEF ReadyInv, RecordsInv
    <3>2. Emptied => Emptied'
      BY <1>4 DEF Emptied
    <3> QED BY <1>4, <1>5, <3>1, <3>2, SocketsAssumption DEF Left, AtEntry
  <2> QED BY <2>1, <2>2
<1>8. ASSUME NEW g \in Games, hearts'[g].playing > 0, ~sv'[g].freed
      PROVE  AllReady(g)'
  <2>1. AllReady(g)
    BY <1>1, <1>4, <1>8 DEF ReadyInv
  <2>2. \A k \in Seats : sv[g].players[k] \in 1 .. cl_count
    BY <1>1, <2>1, TablesAssumption DEF AllReady, RecordsInv, NULL, SeatsInv, TypeOK
  <2> QED BY <1>2, <1>4, <2>1, <2>2 DEF AllReady
<1> QED BY <1>4, <1>7, <1>8 DEF ReadyInv, AtEntry

\* The departure of a connection that the handler is at unseats nobody who is ready.
LEMMA CloseReady == ReadyContext /\ CloseAndFree => ReadyInv'
<1> SUFFICES ASSUME ReadyContext, CloseAndFree PROVE ReadyInv'
  OBVIOUS
<1>1. SeatsInv /\ TableInv /\ RecordsInv /\ ReadyInv
  BY DEF ReadyContext
<1>2. PICK g \in Games : sv' = [sv EXCEPT ![g] = Unseated(sv[g], temp)]
  BY <1>1, CloseFacts
<1>3. UNCHANGED <<cl, cl_count, hearts>> /\ open' = open \ {temp} /\ pc' = "visit" /\ AtEntry
  BY DEF CloseAndFree, Done, registry, AtEntry
<1>4. \A e \in Entries : clients'[e].fd = IF e = poll_i THEN NoSocket ELSE clients[e].fd
  BY <1>1, FdSet DEF CloseAndFree
<1>5. ASSUME NEW d \in 1 .. cl_count', cl'[d].ready = 1
      PROVE  Left(d)'
  <2>1. cl[d].sock_fd \in Sockets /\ Left(d)
    BY <1>1, <1>3, <1>5 DEF ReadyInv, RecordsInv
  <2>2. Emptied => Emptied'
    BY <1>3 DEF Emptied
  <2> QED BY <1>3, <1>4, <2>1, <2>2, SocketsAssumption DEF Left, AtEntry
<1>6. ASSUME NEW f \in Games, hearts'[f].playing > 0, ~sv'[f].freed
      PROVE  AllReady(f)'
  <2>1. sv[f] \in ServerType
    BY <1>1 DEF SeatsInv, TypeOK
  <2>2. sv'[f].freed = sv[f].freed
    BY <1>1, <1>2, <2>1, UnseatedExact DEF SeatsInv, TypeOK
  <2>3. AllReady(f)
    BY <1>1, <1>3, <1>6, <2>2 DEF ReadyInv
  <2>4. \A k \in Seats : sv[f].players[k] \in 1 .. cl_count
    BY <1>1, <2>3, TablesAssumption DEF AllReady, RecordsInv, NULL, SeatsInv, TypeOK
  <2>5. \A k \in Seats : cl[sv[f].players[k]].sock_fd # temp
    BY <1>1, <1>3, <2>3, <2>4 DEF AllReady, ReadyInv, Left
  <2>6. \A k \in Seats : sv'[f].players[k] = sv[f].players[k]
    BY <1>1, <1>2, <2>1, <2>5, UnseatedSeats DEF SeatsInv, TypeOK
  <2> QED BY <1>3, <2>3, <2>6 DEF AllReady
<1> QED BY <1>3, <1>5, <1>6 DEF ReadyInv, AtEntry

LEMMA ThreadReady ==
  ASSUME ReadyContext, NEW g \in Games \cup {NoGame},
         SvJobRuns(g) \/ SvJobClears(g) \/ (g \in Games /\ SvJobStarts(g))
  PROVE  ReadyInv'
<1>1. SeatsInv /\ TableInv /\ RecordsInv /\ ReadyInv
  BY DEF ReadyContext
<1>2. /\ UNCHANGED <<cl, cl_count, open, pc, temp>>
      /\ \A f \in Games : sv'[f].players = sv[f].players /\ sv'[f].freed = sv[f].freed
      /\ \A f \in Games \cup {NoGame}, h \in Phases : f # g => hearts'[f][h] = hearts[f][h]
  BY <1>1, ThreadFacts
<1>3. hearts \in [Games \cup {NoGame} -> [Phases -> Nat]]
  BY <1>1 DEF SeatsInv, TypeOK
<1>4. \A e \in Entries : clients'[e].fd \in Sockets => clients'[e].fd = clients[e].fd
  BY SocketsAssumption DEF SvJobRuns, SvJobClears, SvJobStarts, table, Cleared
<1>5. Emptied => Emptied'
  <2>1. hearts[g].waiting > 0 \/ hearts[g].playing > 0 =>
          hearts'[g].waiting > 0 \/ hearts'[g].playing > 0
    BY <1>3 DEF SvJobRuns, SvJobClears, SvJobStarts, Moves, Phases
  <2> QED BY <1>2, <2>1 DEF Emptied, Phases
<1>6. ASSUME NEW d \in 1 .. cl_count', cl'[d].ready = 1
      PROVE  Left(d)'
  <2>1. cl[d].sock_fd \in Sockets /\ Left(d)
    BY <1>1, <1>2, <1>6 DEF ReadyInv, RecordsInv
  <2> QED BY <1>2, <1>4, <1>5, <2>1 DEF Left, AtEntry
<1>7. ASSUME NEW f \in Games, hearts'[f].playing > 0, ~sv'[f].freed
      PROVE  AllReady(f)'
  <2>1. CASE SvJobStarts(f)
    <3>1. sv[f] \in ServerType /\ sv[f].players_count = 4 /\ ~HasGap(sv[f])
      BY <1>1, <2>1 DEF SeatsInv, TypeOK, SvJobStarts
    <3>2. \A k \in Seats : k < 4 /\ sv[f].players[k] # NULL
      BY <3>1 DEF HasGap, Seats
    <3> QED BY <1>2, <2>1, <3>2 DEF AllReady, SvJobStarts
  <2>2. CASE ~SvJobStarts(f)
    <3>1. hearts'[f].playing = hearts[f].playing
      <4>1. CASE f = g
        BY <1>3, <2>2, <4>1 DEF SvJobRuns, SvJobClears, Moves, Phases
      <4>2. CASE f # g
        BY <1>2, <4>2 DEF Phases
      <4> QED BY <4>1, <4>2
    <3> QED BY <1>1, <1>2, <1>7, <3>1 DEF ReadyInv, AllReady
  <2> QED BY <2>1, <2>2
<1> QED BY <1>1, <1>2, <1>6, <1>7 DEF ReadyInv, AtEntry

\* A game that ends closes the connections of ready clients, or of nobody.
LEMMA EndsReady ==
  ASSUME ReadyContext, NEW g \in Games, SvJobEnds(g)
  PROVE  ReadyInv'
<1>1. SeatsInv /\ TableInv /\ RecordsInv /\ ReadyInv
  BY DEF ReadyContext
<1>2. /\ UNCHANGED <<clients, cl, cl_count, hearts, pc, temp>>
      /\ sv' = [sv EXCEPT ![g] = ShutDown(sv[g])]
      /\ open' = open \ { cl[sv[g].players[k]].sock_fd : k \in 0 .. sv[g].players_count - 1 }
      /\ MayEnd(g) /\ ~sv[g].freed
  BY DEF SvJobEnds, table, handler, registry
<1>3. Emptied /\ Emptied'
  BY <1>2 DEF MayEnd, Emptied
<1>4. sv[g] \in ServerType /\ sv[g].players_count \in 0 .. 4
  BY <1>1 DEF SeatsInv, TypeOK, ServerType
<1>5. ASSUME AtEntry, temp \in Sockets
      PROVE  temp \in open'
  <2>1. temp \in open
    BY <1>1, <1>5 DEF ReadyInv
  <2>2. CASE sv[g].players_count = 0
    BY <1>2, <2>1, <2>2
  <2>3. CASE hearts[g].playing > 0
    <3>1. AllReady(g)
      BY <1>1, <1>2, <2>3 DEF ReadyInv
    <3>2. ASSUME NEW k \in 0 .. sv[g].players_count - 1
          PROVE  cl[sv[g].players[k]].sock_fd # temp
      <4>1. k \in Seats
        BY <1>4 DEF Seats
      <4>2. sv[g].players[k] \in 1 .. cl_count
        BY <1>1, <3>1, <4>1, TablesAssumption DEF AllReady, RecordsInv, NULL, SeatsInv, TypeOK
      <4> QED BY <1>1, <1>5, <3>1, <4>1, <4>2 DEF AllReady, ReadyInv, Left
    <3> QED BY <1>2, <2>1, <3>2
  <2> QED BY <1>2, <2>2, <2>3 DEF MayEnd
<1>6. ASSUME NEW f \in Games, hearts'[f].playing > 0, ~sv'[f].freed
      PROVE  AllReady(f)'
  <2>1. f # g
    BY <1>1, <1>2, <1>4, <1>6, ShutDownType DEF SeatsInv, TypeOK
  <2>2. sv'[f] = sv[f]
    BY <1>1, <1>2, <2>1 DEF SeatsInv, TypeOK
  <2> QED BY <1>1, <1>2, <1>6, <2>2 DEF ReadyInv, AllReady
<1>7. \A d \in 1 .. cl_count' : cl'[d].ready = 1 => Left(d)'
  BY <1>1, <1>2, <1>3 DEF ReadyInv, Left, AtEntry
<1> QED BY <1>2, <1>5, <1>6, <1>7 DEF ReadyInv, AtEntry

LEMMA NextKeepsReady ==
  ASSUME ReadyGarbage = {0}, ReadyContext, [Next]_vars
  PROVE  ReadyInv'
<1>1. CASE \E fd \in Sockets \ open : Accept(fd)
  BY <1>1, AcceptReady
<1>2. CASE \E mode \in Modes : Join(mode)
  BY <1>2, JoinReady
<1>3. CASE Ready \/ CloseAndFree
  BY <1>3, ReadyReady, CloseReady
<1>4. CASE \E e \in Entries : Visit(e)
  BY <1>4, VisitReady
<1>5. CASE PollReturns \/ PollAgain
  <2>1. UNCHANGED <<cl, cl_count, sv, hearts, open>> /\ ~AtEntry'
    BY <1>5 DEF PollReturns, PollAgain, registry, games, Go, AtEntry
  <2>2. \A e \in Entries : clients'[e].fd = clients[e].fd
    BY <1>5, RevisedByPoll, RevisedAgain DEF ReadyContext
  <2> QED BY <2>1, <2>2, ReadyStill DEF ReadyContext
<1>6. CASE SendInit
  <2>1. UNCHANGED <<cl, cl_count, sv, hearts, open>> /\ (AtEntry' => AtEntry /\ temp' = temp)
    BY <1>6 DEF SendInit, registry, games, Done, Go, AtEntry
  <2>2. clients' = clients \/ clients' = [clients EXCEPT ![poll_i].events = "IN"]
    BY <1>6 DEF SendInit
  <2>3. \A e \in Entries : clients'[e].fd = clients[e].fd
    BY <2>2, EventsSet DEF ReadyContext
  <2> QED BY <2>1, <2>3, ReadyStill DEF ReadyContext
<1>7. CASE NoAccept \/ AcceptFull \/ AcceptFails \/ Unregistered \/ LostGame \/ Chat \/ Reject
           \/ EndOfStream \/ CloseStumbles \/ (\E g \in Games : SvJobBreaks(g))
           \/ UNCHANGED vars
  <2>1. UNCHANGED <<clients, cl, cl_count, sv, hearts, open>>
    BY <1>7 DEF NoAccept, AcceptFull, AcceptFails, Unregistered, LostGame, Chat, Reject,
                EndOfStream, CloseStumbles, SvJobBreaks, Breaks, table, registry, games, vars
  <2>2. AtEntry' => AtEntry /\ temp' = temp
    BY <1>7 DEF NoAccept, AcceptFull, AcceptFails, Unregistered, LostGame, Chat, Reject,
                EndOfStream, CloseStumbles, SvJobBreaks, Breaks, Go, Done, AtEntry, handler, vars
  <2> QED BY <2>1, <2>2, ReadyStill DEF ReadyContext
<1>8. CASE \E g \in Games \cup {NoGame} : SvJobRuns(g) \/ SvJobClears(g)
  BY <1>8, ThreadReady
<1>9. CASE \E g \in Games : SvJobStarts(g) \/ SvJobEnds(g)
  BY <1>9, ThreadReady, EndsReady
<1> QED BY <1>1, <1>2, <1>3, <1>4, <1>5, <1>6, <1>7, <1>8, <1>9 DEF Next

\* A step that changes a seat that is taken.
SeatsKept ==
  \A g \in Games, k \in Seats :
    sv[g].players[k] # NULL /\ sv'[g].players[k] # sv[g].players[k] =>
      /\ sv'[g].players[k] = NULL
      /\ sv'[g].freed \/ cl[sv[g].players[k]].sock_fd \in open \ open'

LEMMA NextKeepsSeatsTaken ==
  ASSUME ReadyContext, [Next]_vars
  PROVE  SeatsKept
<1>1. SeatsInv /\ TableInv /\ RecordsInv /\ ReadyInv
  BY DEF ReadyContext
<1>2. CASE \E mode \in Modes : Join(mode)
  <2>1. PICK c \in 1 .. cl_count, g \in Games \cup {NoGame}, s \in ServerType : Joining(c, g, s)
    BY <1>1, <1>2, JoinFacts
  <2>2. ASSUME NEW f \in Games, NEW k \in Seats, sv[f].players[k] # NULL
        PROVE  sv'[f].players[k] = sv[f].players[k]
    <3>1. sv'[f] = sv[f] \/ (f = g /\ sv'[f] = Seated(s, c))
      BY <1>1, <2>1 DEF Joining, SeatsInv, TypeOK
    <3>2. f = g => g < sv_count
      <4>1. f \in Nat /\ sv_count \in Nat
        BY <1>1, TablesAssumption DEF SeatsInv, TypeOK, Games
      <4> QED BY <1>1, <2>2, <4>1 DEF RecordsInv
    <3> QED BY <2>1, <2>2, <3>1, <3>2, SeatedSeats DEF Joining
  <2> QED BY <2>2 DEF SeatsKept
<1>3. CASE CloseAndFree
  <2>1. PICK g \in Games : sv' = [sv EXCEPT ![g] = Unseated(sv[g], temp)]
    BY <1>1, <1>3, CloseFacts
  <2>2. open' = open \ {temp} /\ AtEntry
    BY <1>3 DEF CloseAndFree, AtEntry
  <2> SUFFICES ASSUME NEW f \in Games, NEW k \in Seats, sv[f].players[k] # NULL,
                      sv'[f].players[k] # sv[f].players[k]
               PROVE  /\ sv'[f].players[k] = NULL
                      /\ cl[sv[f].players[k]].sock_fd \in open \ open'
    BY DEF SeatsKept
  <2>3. sv'[f].players[k] = NULL /\ cl[sv[f].players[k]].sock_fd = temp
    BY <1>1, <2>1, UnseatedSeats DEF SeatsInv, TypeOK
  <2>4. sv[f].players[k] \in 1 .. cl_count
    BY <1>1, TablesAssumption DEF RecordsInv, NULL, SeatsInv, TypeOK
  <2>5. temp \in Sockets
    BY <1>1, <2>3, <2>4 DEF RecordsInv
  <2> QED BY <1>1, <2>2, <2>3, <2>5 DEF ReadyInv
<1>4. CASE \E g \in Games : SvJobEnds(g)
  <2>1. PICK g \in Games : sv' = [sv EXCEPT ![g] = ShutDown(sv[g])]
    BY <1>4 DEF SvJobEnds
  <2>2. \A k \in Seats : ShutDown(sv[g]).players[k] \in {sv[g].players[k], NULL}
    BY <1>1 DEF ShutDown, SeatsInv, TypeOK, ServerType
  <2>3. ShutDown(sv[g]).freed
    BY <1>1, ShutDownType DEF SeatsInv, TypeOK
  <2> QED BY <1>1, <2>1, <2>2, <2>3 DEF SeatsKept, SeatsInv, TypeOK
<1>5. CASE \/ \E g \in Games \cup {NoGame} : SvJobRuns(g) \/ SvJobClears(g)
           \/ \E g \in Games : SvJobStarts(g)
  BY <1>1, <1>5, ThreadFacts DEF SeatsKept
<1>6. CASE PollReturns \/ NoAccept \/ AcceptFull \/ AcceptFails \/ PollAgain
           \/ (\E fd \in Sockets \ open : Accept(fd)) \/ (\E e \in Entries : Visit(e))
           \/ Unregistered \/ LostGame \/ Ready \/ Chat \/ Reject \/ EndOfStream \/ SendInit
           \/ CloseStumbles \/ (\E g \in Games : SvJobBreaks(g)) \/ UNCHANGED vars
  <2>1. sv' = sv
    BY <1>6 DEF PollReturns, NoAccept, AcceptFull, AcceptFails, PollAgain, Accept, Visit,
                Unregistered, LostGame, Ready, Chat, Reject, EndOfStream, SendInit,
                CloseStumbles, SvJobBreaks, Breaks, games, vars
  <2> QED BY <2>1 DEF SeatsKept
<1> QED BY <1>2, <1>3, <1>4, <1>5, <1>6 DEF Next

\* For every size of the tables and number of games, where malloc leaves zeros in the
\* records: nobody loses a seat but with the whole game or by a close of the descriptor
\* of the holder, which was open.
THEOREM OnlyLeavers ==
  ASSUME ReadyGarbage = {0}
  PROVE  Spec => OnlyLeaversLoseSeats
<1>1. Init => ReadyContext
  BY InitSeats, InitTable, InitRecords, InitReady DEF ReadyContext
<1>2. ReadyContext /\ [Next]_vars => ReadyContext'
  BY NextKeepsSeats, NextKeepsTable, NextKeepsRecords, NextKeepsReady DEF ReadyContext
<1>3. ReadyContext /\ [Next]_vars => SeatsKept
  BY NextKeepsSeatsTaken
<1> QED BY <1>1, <1>2, <1>3, PTL DEF Spec, OnlyLeaversLoseSeats, SeatsKept
=============================================================================
