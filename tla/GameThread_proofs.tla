------------------------- MODULE GameThread_proofs -------------------------
(***************************************************************************)
(* What GameThread keeps true for any number of clients, whatever their    *)
(* records came with, and any size of to_transmit.                         *)
(***************************************************************************)
EXTENDS GameThread, TLAPS

One(P) == IF P THEN 1 ELSE 0

Taken(p) == One(p[0] # NULL) + One(p[1] # NULL) + One(p[2] # NULL) + One(p[3] # NULL)

\* The count of players is behind the seats by the step the handler is about to take.
CountInv ==
  /\ players_count = Taken(players) - One(hpc = "count") + One(hpc = "uncount")
  /\ hpc \in {"count", "uncount"} => hi \in Seats
  /\ hpc # "idle" => temp \in Clients /\ link[temp] = "watched"

\* Seat k of players_fd names the client of seat k, left to the thread.
Counted(k) ==
  \/ players_fd[k] \in Dirty
  \/ /\ players_fd[k] # NULL /\ players[k] = players_fd[k]
     /\ ready[players[k]] = 1 /\ link[players[k]] = "handed"

\* A pass counts one player a seat at most: when it has counted as many as it has
\* gone through, it has counted each of them.
PassInv ==
  /\ \A c \in Clients \ Dirty : ready[c] = 1 => link[c] = "handed"
  /\ pc = "take" =>
       IF players[i] = NULL THEN hpc \notin {"join", "count"} ELSE ready[players[i]] = 1
  /\ pc \in {"scan", "look", "take", "rest"} =>
       nb_ready <= i /\ (nb_ready = i => \A k \in Seats : k < i => Counted(k))
  /\ pc \in Playing => \A k \in Seats : Counted(k)
  /\ pc = "serve" => max = 4

ThreadInv == TypeOK /\ CountInv /\ PassInv

\* The client counted at seat k has not been replaced.
StillThere(k) == players[k] \in {players_fd[k], NULL}

\* While somebody joins, nobody leaves: the seats a pass has counted, as many as it has
\* gone through if it counts them all, stay taken, and by those it has counted.  The
\* thread has run once it scans.
JoinInv ==
  /\ pc \in {"scan", "look", "take", "rest"} /\ nb_ready = i =>
       \A k \in Seats : k < i =>
         StillThere(k) /\ (hpc \in {"join", "count"} => players[k] # NULL)
  /\ pc \in Playing \cup {"spin"} =>
       \A k \in Seats :
         StillThere(k) /\ (hpc \in {"join", "count"} => players[k] # NULL)
  /\ pc \notin {"off", "created", "broken"} => running = 1

PromiseInv == ThreadInv /\ JoinInv

-----------------------------------------------------------------------------
(* The thread and the handler *)

LEMMA InitThread == Init => ThreadInv
<1> SUFFICES ASSUME Init PROVE ThreadInv
  OBVIOUS
<1>1. TypeOK
  BY ThreadAssumption DEF Init, TypeOK, Playing, Seats
<1>2. CountInv
  BY DEF Init, CountInv, Taken, One, Seats
<1>3. PassInv
  BY DEF Init, PassInv, Playing
<1> QED BY <1>1, <1>2, <1>3 DEF ThreadInv

\* Leaving the defined behaviour moves nothing else.
LEMMA BreaksKeeps ==
  ASSUME ThreadInv, Breaks
  PROVE  ThreadInv'
<1> USE DEF ThreadInv, Breaks, seats, peers, handler, scan, loop
<1>1. TypeOK'
  BY DEF TypeOK, Playing
<1>2. CountInv'
  BY DEF CountInv, Taken
<1>3. PassInv'
  BY DEF PassInv, Playing
<1> QED BY <1>1, <1>2, <1>3

LEMMA VisitKeeps ==
  ASSUME ThreadInv, NEW c \in Clients, NEW op \in {"join", "ready", "leave"}, Visit(c, op)
  PROVE  ThreadInv'
<1> USE DEF ThreadInv, Visit, HandlerAt, Watching, seats, peers, thread, scan, loop
<1>1. TypeOK'
  BY ThreadAssumption DEF TypeOK, CountInv, Playing, Taken, One, Seats, PassInv
<1>2. CountInv'
  BY ThreadAssumption DEF CountInv, Taken, One, TypeOK, Seats
<1>3. PassInv'
  BY ThreadAssumption DEF PassInv, Counted, TypeOK, CountInv, Playing, Seats
<1> QED BY <1>1, <1>2, <1>3

LEMMA ReconnectKeeps ==
  ASSUME ThreadInv, NEW c \in Clients, Reconnect(c)
  PROVE  ThreadInv'
<1> USE DEF ThreadInv, Reconnect, HandlerAt, seats, handler, thread, scan, loop
<1>1. TypeOK'
  BY ThreadAssumption DEF TypeOK, CountInv, Playing, Taken, One, Seats, PassInv
<1>2. CountInv'
  BY ThreadAssumption DEF CountInv, Taken, One, TypeOK, Seats
<1>3. PassInv'
  BY ThreadAssumption DEF PassInv, Counted, TypeOK, CountInv, Playing, Seats
<1> QED BY <1>1, <1>2, <1>3

LEMMA JoinSeatKeeps ==
  ASSUME ThreadInv, JoinSeat
  PROVE  ThreadInv'
<1> USE DEF ThreadInv, JoinSeat, HandlerAt, HandlerGoes, seats, peers, thread, scan, loop
<1>1. TypeOK'
  BY ThreadAssumption DEF TypeOK, CountInv, Playing, Taken, One, Seats, PassInv
<1>2. CountInv'
  BY ThreadAssumption DEF CountInv, Taken, One, TypeOK, Seats
<1>3. PassInv'
  BY ThreadAssumption DEF PassInv, Counted, TypeOK, CountInv, Playing, Seats
<1> QED BY <1>1, <1>2, <1>3

LEMMA JoinCountKeeps ==
  ASSUME ThreadInv, JoinCount
  PROVE  ThreadInv'
<1> USE DEF ThreadInv, JoinCount, HandlerAt, HandlerGoes, seats, peers, thread, scan, loop
<1>1. TypeOK'
  BY ThreadAssumption DEF TypeOK, CountInv, Playing, Taken, One, Seats, PassInv
<1>2. CountInv'
  BY ThreadAssumption DEF CountInv, Taken, One, TypeOK, Seats
<1>3. PassInv'
  BY ThreadAssumption DEF PassInv, Counted, TypeOK, CountInv, Playing, Seats
<1> QED BY <1>1, <1>2, <1>3

LEMMA JoinEndsKeeps ==
  ASSUME ThreadInv, JoinEnds
  PROVE  ThreadInv'
<1> USE DEF ThreadInv, JoinEnds, HandlerAt, HandlerGoes, seats, peers, thread, scan, loop
<1>1. TypeOK'
  BY ThreadAssumption DEF TypeOK, CountInv, Playing, Taken, One, Seats, PassInv
<1>2. CountInv'
  BY ThreadAssumption DEF CountInv, Taken, One, TypeOK, Seats
<1>3. PassInv'
  BY ThreadAssumption DEF PassInv, Counted, TypeOK, CountInv, Playing, Seats
<1> QED BY <1>1, <1>2, <1>3

LEMMA ReadyKeeps ==
  ASSUME ThreadInv, Ready
  PROVE  ThreadInv'
<1> USE DEF ThreadInv, Ready, HandlerAt, HandlerGoes, seats, peers, thread, scan, loop, Handed
<1>1. TypeOK'
  BY ThreadAssumption DEF TypeOK, CountInv, Playing, Taken, One, Seats, PassInv
<1>2. CountInv'
  BY ThreadAssumption DEF CountInv, Taken, One, TypeOK, Seats
<1>3. PassInv'
  BY ThreadAssumption DEF PassInv, Counted, TypeOK, CountInv, Playing, Seats
<1> QED BY <1>1, <1>2, <1>3

LEMMA LeaveSeatKeeps ==
  ASSUME ThreadInv, LeaveSeat
  PROVE  ThreadInv'
<1> USE DEF ThreadInv, LeaveSeat, HandlerAt, HandlerGoes, seats, peers, thread, scan, loop
<1>1. TypeOK'
  BY ThreadAssumption DEF TypeOK, CountInv, Playing, Taken, One, Seats, PassInv
<1>2. CountInv'
  BY ThreadAssumption DEF CountInv, Taken, One, TypeOK, Seats
<1>3. PassInv'
  BY ThreadAssumption DEF PassInv, Counted, TypeOK, CountInv, Playing, Seats
<1> QED BY <1>1, <1>2, <1>3

LEMMA LeaveCountKeeps ==
  ASSUME ThreadInv, LeaveCount
  PROVE  ThreadInv'
<1> USE DEF ThreadInv, LeaveCount, HandlerAt, HandlerGoes, seats, peers, thread, scan, loop
<1>1. TypeOK'
  BY ThreadAssumption DEF TypeOK, CountInv, Playing, Taken, One, Seats, PassInv
<1>2. CountInv'
  BY ThreadAssumption DEF CountInv, Taken, One, TypeOK, Seats
<1>3. PassInv'
  BY ThreadAssumption DEF PassInv, Counted, TypeOK, CountInv, Playing, Seats
<1> QED BY <1>1, <1>2, <1>3

LEMMA LeaveEndsKeeps ==
  ASSUME ThreadInv, LeaveEnds
  PROVE  ThreadInv'
<1> USE DEF ThreadInv, LeaveEnds, HandlerAt, HandlerGoes, seats, peers, thread, scan, loop
<1>1. TypeOK'
  BY ThreadAssumption DEF TypeOK, CountInv, Playing, Taken, One, Seats, PassInv
<1>2. CountInv'
  BY ThreadAssumption DEF CountInv, Taken, One, TypeOK, Seats
<1>3. PassInv'
  BY ThreadAssumption DEF PassInv, Counted, TypeOK, CountInv, Playing, Seats
<1> QED BY <1>1, <1>2, <1>3

LEMMA SvJobRunsKeeps ==
  ASSUME ThreadInv, SvJobRuns
  PROVE  ThreadInv'
<1> USE DEF ThreadInv, SvJobRuns, seats, peers, handler, scan, loop
<1>1. TypeOK'
  BY ThreadAssumption DEF TypeOK, CountInv, Playing, Taken, One, Seats, PassInv
<1>2. CountInv'
  BY ThreadAssumption DEF CountInv, Taken, One, TypeOK, Seats
<1>3. PassInv'
  BY ThreadAssumption DEF PassInv, Counted, TypeOK, CountInv, Playing, Seats
<1> QED BY <1>1, <1>2, <1>3

LEMMA SvJobClearsKeeps ==
  ASSUME ThreadInv, SvJobClears
  PROVE  ThreadInv'
<1> USE DEF ThreadInv, SvJobClears, seats, peers, handler, scan, loop, NextPass, ReadyAtFirst
<1>1. TypeOK'
  BY ThreadAssumption DEF TypeOK, CountInv, Playing, Taken, One, Seats, PassInv
<1>2. CountInv'
  BY ThreadAssumption DEF CountInv, Taken, One, TypeOK, Seats
<1>3. PassInv'
  BY ThreadAssumption DEF PassInv, Counted, TypeOK, CountInv, Playing, Seats
<1> QED BY <1>1, <1>2, <1>3

LEMMA ScanTestKeeps ==
  ASSUME ThreadInv, ScanTest
  PROVE  ThreadInv'
<1> USE DEF ThreadInv, ScanTest, seats, peers, handler, scan, loop
<1>1. TypeOK'
  BY ThreadAssumption DEF TypeOK, CountInv, Playing, Taken, One, Seats, PassInv
<1>2. CountInv'
  BY ThreadAssumption DEF CountInv, Taken, One, TypeOK, Seats
<1>3. PassInv'
  BY ThreadAssumption DEF PassInv, Counted, TypeOK, CountInv, Playing, Seats
<1> QED BY <1>1, <1>2, <1>3

LEMMA ScanLookKeeps ==
  ASSUME ThreadInv, ScanLook
  PROVE  ThreadInv'
<1> USE DEF ThreadInv, ScanLook, seats, peers, handler, scan, loop, IsReady
<1>1. TypeOK'
  BY ThreadAssumption DEF TypeOK, CountInv, Playing, Taken, One, Seats, PassInv
<1>2. CountInv'
  BY ThreadAssumption DEF CountInv, Taken, One, TypeOK, Seats
<1>3. PassInv'
  BY ThreadAssumption DEF PassInv, Counted, TypeOK, CountInv, Playing, Seats
<1> QED BY <1>1, <1>2, <1>3

LEMMA ScanTakeKeeps ==
  ASSUME ThreadInv, ScanTake
  PROVE  ThreadInv'
<1> USE DEF ThreadInv, ScanTake, seats, peers, handler, scan, loop
<1>1. TypeOK'
  BY ThreadAssumption DEF TypeOK, CountInv, Playing, Taken, One, Seats, PassInv
<1>2. CountInv'
  BY ThreadAssumption DEF CountInv, Taken, One, TypeOK, Seats
<1>3. PassInv'
  BY ThreadAssumption DEF PassInv, Counted, TypeOK, CountInv, Playing, Seats
<1> QED BY <1>1, <1>2, <1>3

LEMMA ScanEndsKeeps ==
  ASSUME ThreadInv, ScanEnds
  PROVE  ThreadInv'
<1> USE DEF ThreadInv, ScanEnds, seats, peers, handler, scan, loop, NextPass, ReadyAtFirst, Enough
<1>1. TypeOK'
  BY ThreadAssumption DEF TypeOK, CountInv, Playing, Taken, One, Seats, PassInv
<1>2. CountInv'
  BY ThreadAssumption DEF CountInv, Taken, One, TypeOK, Seats
<1>3. PassInv'
  BY ThreadAssumption DEF PassInv, Counted, TypeOK, CountInv, Playing, Seats
<1> QED BY <1>1, <1>2, <1>3

LEMMA SetupKeeps ==
  ASSUME ThreadInv, Setup
  PROVE  ThreadInv'
<1> USE DEF ThreadInv, Setup, seats, peers, handler, scan, loop
<1>1. TypeOK'
  BY ThreadAssumption DEF TypeOK, CountInv, Playing, Taken, One, Seats, PassInv
<1>2. CountInv'
  BY ThreadAssumption DEF CountInv, Taken, One, TypeOK, Seats
<1>3. PassInv'
  BY ThreadAssumption DEF PassInv, Counted, TypeOK, CountInv, Playing, Seats
<1> QED BY <1>1, <1>2, <1>3

LEMMA PollKeeps ==
  ASSUME ThreadInv, Poll
  PROVE  ThreadInv'
<1> USE DEF ThreadInv, Poll, seats, peers, handler, scan, loop
<1>1. TypeOK'
  BY ThreadAssumption DEF TypeOK, CountInv, Playing, Taken, One, Seats, PassInv
<1>2. CountInv'
  BY ThreadAssumption DEF CountInv, Taken, One, TypeOK, Seats
<1>3. PassInv'
  BY ThreadAssumption DEF PassInv, Counted, TypeOK, CountInv, Playing, Seats
<1> QED BY <1>1, <1>2, <1>3

LEMMA EndOfStreamKeeps ==
  ASSUME ThreadInv, EndOfStream
  PROVE  ThreadInv'
<1> USE DEF ThreadInv, EndOfStream, seats, peers, handler, scan, loop
<1>1. TypeOK'
  BY ThreadAssumption DEF TypeOK, CountInv, Playing, Taken, One, Seats, PassInv
<1>2. CountInv'
  BY ThreadAssumption DEF CountInv, Taken, One, TypeOK, Seats
<1>3. PassInv'
  BY ThreadAssumption DEF PassInv, Counted, TypeOK, CountInv, Playing, Seats
<1> QED BY <1>1, <1>2, <1>3

LEMMA TurnKeeps ==
  ASSUME ThreadInv, Turn
  PROVE  ThreadInv'
<1> USE DEF ThreadInv, Turn, seats, peers, handler, scan, loop, Ongoing
<1>1. TypeOK'
  BY ThreadAssumption DEF TypeOK, CountInv, Playing, Taken, One, Seats, PassInv
<1>2. CountInv'
  BY ThreadAssumption DEF CountInv, Taken, One, TypeOK, Seats
<1>3. PassInv'
  BY ThreadAssumption DEF PassInv, Counted, TypeOK, CountInv, Playing, Seats
<1> QED BY <1>1, <1>2, <1>3

LEMMA ServeKeeps ==
  ASSUME ThreadInv, NEW revents, Serve(revents)
  PROVE  ThreadInv'
<1> USE DEF ThreadInv, Serve, seats, peers, handler, scan, loop, Listens
<1>1. TypeOK'
  BY ThreadAssumption DEF TypeOK, CountInv, Playing, Taken, One, Seats, PassInv
<1>2. CountInv'
  BY ThreadAssumption DEF CountInv, Taken, One, TypeOK, Seats
<1>3. PassInv'
  BY ThreadAssumption DEF PassInv, Counted, TypeOK, CountInv, Playing, Seats
<1> QED BY <1>1, <1>2, <1>3

LEMMA WhenBroken ==
  VisitCleared \/ LeaveStumbles \/ ScanBreaks \/ PollBeyond \/ ServeBreaks \/ TurnBreaks
    => Breaks
  BY DEF VisitCleared, LeaveStumbles, ScanBreaks, PollBeyond, ServeBreaks, TurnBreaks

\* Every step keeps the invariant.
LEMMA ThreadStep == ThreadInv /\ [Next]_vars => ThreadInv'
<1> SUFFICES ASSUME ThreadInv, [Next]_vars PROVE ThreadInv'
  OBVIOUS
<1>1. CASE Handler
  BY <1>1, VisitKeeps, ReconnectKeeps, JoinSeatKeeps, JoinCountKeeps, JoinEndsKeeps, ReadyKeeps, LeaveSeatKeeps,
     LeaveCountKeeps, LeaveEndsKeeps, WhenBroken, BreaksKeeps
  DEF Handler
<1>2. CASE Waits
  BY <1>2, SvJobRunsKeeps, SvJobClearsKeeps, ScanTestKeeps, ScanLookKeeps, ScanTakeKeeps,
     ScanEndsKeeps, SetupKeeps, WhenBroken, BreaksKeeps
  DEF Waits
<1>3. CASE Plays
  BY <1>3, PollKeeps, ServeKeeps, EndOfStreamKeeps, TurnKeeps, WhenBroken, BreaksKeeps
  DEF Plays
<1>4. CASE UNCHANGED vars
  <2> USE <1>4 DEF ThreadInv, vars, seats, peers, handler, thread, scan, loop
  <2>1. TypeOK'
    BY DEF TypeOK, Playing
  <2>2. CountInv'
    BY DEF CountInv, Taken
  <2>3. PassInv'
    BY DEF PassInv, Counted, Playing
  <2> QED BY <2>1, <2>2, <2>3
<1> QED BY <1>1, <1>2, <1>3, <1>4 DEF Next

THEOREM ThreadAlways == Spec => []ThreadInv
  BY InitThread, ThreadStep, PTL DEF Spec

\* For any clients and any size of to_transmit, every variable of the thread and of
\* the handler keeps its type: no loop reads a seat that is not one of the four.
THEOREM ThreadTypeCorrect == Spec => []TypeOK
<1>1. ThreadInv => TypeOK
  BY DEF ThreadInv
<1> QED BY <1>1, ThreadAlways, PTL

\* For any clients, a game that is played polls the clients of its four seats, which
\* are ready and left to the thread, whatever the handler did during the pass.
THEOREM StartsWithReady == Spec => []StartsReady
<1>1. ThreadInv => StartsReady
  BY DEF ThreadInv, PassInv, Counted, StartsReady
<1> QED BY <1>1, ThreadAlways, PTL

-----------------------------------------------------------------------------
(* The game as GameSeats *)

LEMMA InitPromise == Init => PromiseInv
  BY InitThread DEF PromiseInv, Init, JoinInv, Playing

LEMMA HandlerJoin ==
  ASSUME PromiseInv, Handler
  PROVE  JoinInv'
<1> USE DEF PromiseInv, ThreadInv, JoinInv, StillThere, Playing
<1>1. CASE \E c \in Clients, op \in {"join", "ready", "leave"} : Visit(c, op)
  BY <1>1 DEF Visit, Watching, seats, peers, thread, scan
<1>2. CASE (\E c \in Clients : Reconnect(c)) \/ Ready
  BY <1>2 DEF Reconnect, Ready, HandlerAt, HandlerGoes, seats, handler, thread, scan
<1>3. CASE JoinSeat \/ JoinCount
  BY <1>3, ThreadAssumption
  DEF JoinSeat, JoinCount, HandlerAt, HandlerGoes, seats, thread, scan, TypeOK, CountInv, Seats
<1>4. CASE JoinEnds
  BY <1>4 DEF JoinEnds, HandlerGoes, seats, thread, scan
<1>5. CASE LeaveSeat \/ LeaveCount \/ LeaveEnds
  BY <1>5 DEF LeaveSeat, LeaveCount, LeaveEnds, HandlerAt, HandlerGoes, seats, thread, scan, TypeOK, Seats
<1>6. CASE VisitCleared \/ LeaveStumbles
  BY <1>6, WhenBroken DEF Breaks
<1> QED BY <1>1, <1>2, <1>3, <1>4, <1>5, <1>6 DEF Handler

LEMMA ThreadJoin ==
  ASSUME PromiseInv, Waits \/ Plays
  PROVE  JoinInv'
<1> USE DEF PromiseInv, ThreadInv, JoinInv, StillThere, Playing
<1>1. CASE SvJobRuns \/ SvJobClears
  BY <1>1 DEF SvJobRuns, SvJobClears, NextPass, ReadyAtFirst, seats, handler, Seats
<1>2. CASE ScanTest \/ ScanLook
  BY <1>2 DEF ScanTest, ScanLook, seats, handler, scan, PassInv, TypeOK
<1>3. CASE ScanTake
  BY <1>3 DEF ScanTake, seats, handler, PassInv, TypeOK, Seats
<1>4. CASE ScanEnds
  BY <1>4 DEF ScanEnds, NextPass, ReadyAtFirst, Enough, seats, handler, scan, PassInv, TypeOK, Seats
<1>5. CASE Setup \/ Poll \/ EndOfStream \/ Turn \/ \E revents \in {"NONE", "IN", "OUT", "HUP"} : Serve(revents)
  BY <1>5 DEF Setup, Poll, EndOfStream, Turn, Serve, seats, handler, scan
<1>6. CASE ScanBreaks \/ PollBeyond \/ ServeBreaks \/ TurnBreaks
  BY <1>6, WhenBroken DEF Breaks
<1> QED BY <1>1, <1>2, <1>3, <1>4, <1>5, <1>6 DEF Waits, Plays

LEMMA PromiseStep == PromiseInv /\ [Next]_vars => PromiseInv'
<1> SUFFICES ASSUME PromiseInv, [Next]_vars PROVE PromiseInv'
  OBVIOUS
<1>1. ThreadInv'
  BY ThreadStep DEF PromiseInv
<1>2. ASSUME UNCHANGED vars PROVE JoinInv'
  BY <1>2 DEF PromiseInv, JoinInv, StillThere, vars, seats, handler, thread, scan
<1>3. JoinInv'
  BY <1>2, HandlerJoin, ThreadJoin DEF Next, PromiseInv
<1> QED BY <1>1, <1>3 DEF PromiseInv

\* A seat is given to the client that joins, and taken from the one that leaves, which
\* has not said it was ready, else its connection would not be watched.
LEMMA HandlerGame ==
  ASSUME PromiseInv, Handler
  PROVE  [Game!Next]_(Game!vars)
<1> USE DEF PromiseInv, ThreadInv, Playing, Phase, SaidReady
<1>1. CASE \/ \E c \in Clients, op \in {"join", "ready", "leave"} : Visit(c, op)
           \/ \E c \in Clients : Reconnect(c)
           \/ JoinCount \/ LeaveCount \/ LeaveEnds
  BY <1>1 DEF Visit, Reconnect, JoinCount, LeaveCount, LeaveEnds, seats, peers, handler, thread, Game!vars
<1>2. CASE JoinEnds
  <2>1. pc \in {"off", "created"} \/ pc' = pc
    BY <1>2 DEF JoinEnds, JoinInv, HandlerAt, Alive
  <2>2. Phase' = Phase
    BY <1>2, <2>1 DEF JoinEnds
  <2> QED BY <1>2, <2>2 DEF JoinEnds, seats, peers, Game!vars
<1>3. CASE JoinSeat
  <2>1. temp \in Clients /\ players \in [Seats -> Clients \cup {NULL}]
    BY <1>3 DEF JoinSeat, HandlerAt, CountInv, TypeOK
  <2>2. CASE players[hi] = NULL
    <3>1. Phase = "filling" /\ Phase' = "filling" /\ SaidReady' = SaidReady
      BY <1>3, <2>2 DEF JoinSeat, HandlerAt, Alive, JoinInv, peers, thread
    <3>2. players' = [players EXCEPT ![hi] = temp] /\ hi \in Seats
      BY <1>3, <2>2 DEF JoinSeat
    <3> HIDE DEF Phase, SaidReady, PromiseInv, ThreadInv
    <3>3. Game!Take
      BY <2>1, <2>2, <3>1, <3>2 DEF Game!Take, Game!Seats, Seats
    <3> QED BY <3>3 DEF Game!Next
  <2>3. CASE players[hi] # NULL
    BY <1>3, <2>3 DEF JoinSeat, peers, thread, Game!vars
  <2> QED BY <2>2, <2>3
<1>4. CASE LeaveSeat
  <2>1. temp \in Clients \ SaidReady /\ players \in [Seats -> Clients \cup {NULL}]
    BY <1>4 DEF LeaveSeat, HandlerAt, CountInv, PassInv, TypeOK
  <2>2. CASE players[hi] = temp
    <3>1. Phase # "over" /\ Phase' = Phase /\ SaidReady' = SaidReady
      BY <1>4 DEF LeaveSeat, HandlerAt, Alive, peers, thread
    <3>2. players' = [players EXCEPT ![hi] = NULL]
      BY <1>4, <2>2 DEF LeaveSeat
    <3> HIDE DEF Phase, SaidReady, PromiseInv, ThreadInv
    <3>3. Game!Leave
      BY <2>1, <2>2, <3>1, <3>2 DEF Game!Leave, Game!Seats, Seats
    <3> QED BY <3>3 DEF Game!Next
  <2>3. CASE players[hi] # temp
    BY <1>4, <2>3 DEF LeaveSeat, peers, thread, Game!vars
  <2> QED BY <2>2, <2>3
<1>5. CASE Ready
  <2>1. temp \in Clients /\ ready' = [ready EXCEPT ![temp] = 1] /\ ready \in [Clients -> {0, 1}]
    BY <1>5 DEF Ready, HandlerAt, CountInv, TypeOK
  <2>2. UNCHANGED <<players, pc>>
    BY <1>5 DEF Ready, seats, thread
  <2>3. CASE temp \in Dirty
    <3>1. SaidReady' = SaidReady
      BY <2>1, <2>3
    <3> QED BY <2>2, <3>1 DEF Game!vars
  <2>4. CASE temp \notin Dirty
    <3>1. SaidReady' = SaidReady \cup {temp}
      BY <2>1, <2>4
    <3> QED BY <2>1, <2>2, <2>4, <3>1 DEF Game!Next, Game!GetReady
  <2> QED BY <2>3, <2>4
<1>6. CASE VisitCleared \/ LeaveStumbles
  BY <1>6 DEF VisitCleared, LeaveStumbles, HandlerAt, Alive, Breaks, seats, peers, Game!Next, Game!End
<1> QED BY <1>1, <1>2, <1>3, <1>4, <1>5, <1>6 DEF Handler

\* The pass that counts four starts the game: the four it has counted one after the
\* other are all there, and ready, when it ends.
LEMMA ThreadGame ==
  ASSUME PromiseInv, Waits \/ Plays
  PROVE  [Game!Next]_(Game!vars)
<1> USE DEF PromiseInv, ThreadInv, Playing, Phase, SaidReady
<1>1. CASE \/ SvJobRuns \/ SvJobClears \/ ScanTest \/ ScanLook \/ ScanTake \/ Setup
           \/ Poll \/ EndOfStream \/ Turn
           \/ \E revents \in {"NONE", "IN", "OUT", "HUP"} : Serve(revents)
  <2>1. UNCHANGED <<players, ready>>
    BY <1>1 DEF SvJobRuns, SvJobClears, ScanTest, ScanLook, ScanTake, Setup, Poll, EndOfStream, Turn, Serve, seats, peers
  <2>2. Phase' = Phase
    BY <1>1 DEF SvJobRuns, SvJobClears, NextPass, ScanTest, ScanLook, ScanTake, Setup, Poll, EndOfStream, Turn, Serve
  <2> QED BY <2>1, <2>2 DEF Game!vars
<1>2. CASE ScanEnds
  <2>1. UNCHANGED <<players, ready>> /\ Phase = "filling" /\ SaidReady' = SaidReady
    BY <1>2 DEF ScanEnds, seats, peers
  <2>2. CASE Enough
    <3>1. Phase' = "playing" /\ i = 4 /\ nb_ready = 4
      BY <1>2, <2>2 DEF ScanEnds, Enough, PassInv, TypeOK
    <3>2. \A k \in Seats : \/ players[k] \in SaidReady \cup Dirty
                           \/ players[k] = NULL /\ Dirty # {}
      BY <1>2, <3>1 DEF ScanEnds, PassInv, JoinInv, StillThere, Counted, TypeOK, Seats
    <3> HIDE DEF Phase, SaidReady, PromiseInv, ThreadInv
    <3>3. Game!Start
      BY <2>1, <3>1, <3>2 DEF Game!Start, Game!Seats, Seats
    <3> QED BY <3>3 DEF Game!Next
  <2>3. CASE ~Enough
    BY <1>2, <2>1, <2>3 DEF ScanEnds, NextPass, Game!vars
  <2> QED BY <2>2, <2>3
<1>3. CASE ScanBreaks \/ PollBeyond \/ ServeBreaks \/ TurnBreaks
  BY <1>3 DEF ScanBreaks, PollBeyond, ServeBreaks, TurnBreaks, Breaks, seats, peers, Game!Next, Game!End
<1> QED BY <1>1, <1>2, <1>3 DEF Waits, Plays

\* For any clients, whatever their records came with and however the thread and the
\* handler interleave their reads and writes of the seats, the game behaves as GameSeats
\* says.
THEOREM GameAsPromised == Spec => SeatsAsPromised
<1>1. Init => Game!Init
  <2>1. Init => SaidReady = {}
    <3>1. Init => \A c \in Clients \ Dirty : ready[c] = 0
      BY DEF Init
    <3> QED BY <3>1 DEF SaidReady
  <2>2. Init => Phase = "filling"
    BY DEF Init, Phase, Playing
  <2> QED BY <2>1, <2>2 DEF Init, Game!Init, Game!Seats, Seats
<1>2. PromiseInv /\ [Next]_vars => [Game!Next]_(Game!vars)
  <2>1. UNCHANGED vars => UNCHANGED Game!vars
    BY DEF vars, seats, peers, thread, Game!vars, Phase, SaidReady
  <2> QED BY <2>1, HandlerGame, ThreadGame DEF Next
<1> QED BY <1>1, <1>2, InitPromise, PromiseStep, PTL DEF Spec, SeatsAsPromised, Game!Spec
=============================================================================
