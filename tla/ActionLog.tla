----------------------------- MODULE ActionLog -----------------------------
(***************************************************************************)
(* The actions of the players of one game, from their clients to           *)
(* player_handle_input: datagrams that may be lost, duplicated and         *)
(* reordered, the log the game thread keeps of them (msgs_clients, a row   *)
(* per seat), and find_last_msg, which picks from the whole row, at every  *)
(* turn of the game loop, the action to apply.                             *)
(*                                                                         *)
(* The count of a row's messages, nb_sent, is kept in the record of the    *)
(* client that holds the seat: a client with several seats has one count   *)
(* for several rows, and tells the server the last of its seats only.      *)
(***************************************************************************)
EXTENDS Protocol, Sequences, FiniteSets

CONSTANTS
  PLAYERS_COUNT,  \* seats of the game, 4 when sv_job starts it
  Clients,        \* the clients that may hold them
  FIRST,          \* the number of a client's first message
  LOG_SIZE,       \* messages a row has room for, 8191*2
  ActionsSent,    \* actions the clients ask for
  IdGarbage,      \* what decoded_id may hold before a header is decoded into it
  NbGarbage,      \* what nb_sent may hold in a new client's record
  RowGarbage,     \* [num, action] that an element of a row may hold unwritten
  MAX_SENT,       \* bound: messages a client sends
  MAX_ALL         \* bound: messages all of them send

Seats == 0 .. PLAYERS_COUNT - 1
Slots == 0 .. LOG_SIZE - 1
NotApplied == 8

ASSUME LogAssumption ==
  /\ PLAYERS_COUNT \in 1 .. 4
  /\ FIRST \in 0 .. NUMBERS - 1 /\ LOG_SIZE \in Nat \ {0} /\ MAX_SENT \in Nat
  /\ ActionsSent \subseteq 0 .. 7
  /\ IdGarbage \subseteq 0 .. 255
  /\ NbGarbage \subseteq Int
  /\ RowGarbage \subseteq [num : 0 .. NUMBERS - 1, action : 0 .. 7]

VARIABLES
  holder,        \* sv->players, by seat
  sent,          \* the actions each client has sent, in order
  msgs_clients,  \* per seat and slot; `at' is the message's place in sent, or 0
  nb_sent,       \* per client
  ac,            \* per seat, the action last given to player_handle_input
  undefined      \* the program has left its defined behaviour

vars == <<holder, sent, msgs_clients, nb_sent, ac, undefined>>

-----------------------------------------------------------------------------
(* find_last_msg, on the first nb messages of a row *)

First(nb) == Slots \cap 0 .. nb - 1

Zeros(row, nb) == { k \in First(nb) : row[k].num = 0 }

\* The loop stops at the second message numbered 0.
SecondZero(row, nb) ==
  { k \in Zeros(row, nb) :
      \E j \in Zeros(row, k) : \A z \in Zeros(row, k) : z = j }

\* Mutant: the last message that arrived.
Highest_Latest(row, nb) == { k \in First(nb) : k = nb - 1 /\ row[k].num > 0 }

\* Mutant: the loop goes one message too far.
Highest_Beyond(row, nb) ==
  { k \in First(nb + 1) :
      /\ row[k].num > 0
      /\ \A j \in First(nb + 1) : row[j].num <= row[k].num
      /\ \A j \in First(k) : row[j].num # row[k].num }

\* The first of the messages with the highest number, 0 excluded.
Highest(row, nb) ==
  { k \in First(nb) :
      /\ row[k].num > 0
      /\ \A j \in First(nb) : row[j].num <= row[k].num
      /\ \A j \in First(k)  : row[j].num # row[k].num }

\* Mutant: the second zero is looked for after the highest number.
Decisive_HighestFirst(row, nb) ==
  IF Highest(row, nb) # {} THEN Highest(row, nb) ELSE SecondZero(row, nb)

\* The message whose action is returned.
Decisive(row, nb) ==
  LET second == SecondZero(row, nb)
  IN IF second # {} THEN second ELSE Highest(row, nb)

\* With no such message the action is res, 0: UP.
FindLastMsg(row, nb) ==
  LET decisive == Decisive(row, nb)
  IN IF decisive = {} THEN 0 ELSE row[CHOOSE k \in decisive : TRUE].action

-----------------------------------------------------------------------------
(* Clients and seats *)

HasSeat(c) == \E i \in Seats : holder[i] = c

\* The seat a client was told: the last it was given.
Told(c) == CHOOSE i \in Seats : holder[i] = c /\ \A j \in Seats : holder[j] = c => j <= i

\* The identifier in the header of a message of c, decoded into a variable that holds
\* `held'.
DecodedId(c, held) == IdOf(EncodeHeader(5, Told(c), 0), held)

\* Numbers go from 8191 to 0.
Number(k) == (FIRST + k - 1) % NUMBERS

\* The k-th message of a client, as logged.
Message(c, k) ==
  LET word == EncodeAction(Number(k), sent[c][k])
  IN [num |-> NumOf(word), action |-> ActionOf(word), from |-> c, at |-> k]

-----------------------------------------------------------------------------

Init ==
  /\ holder \in [Seats -> Clients]
  /\ sent = [c \in Clients |-> <<>>]
  /\ \E g \in [Seats -> RowGarbage] :
       msgs_clients = [i \in Seats |-> [k \in Slots |->
         [num |-> g[i].num, action |-> g[i].action, from |-> holder[i], at |-> 0]]]
  /\ nb_sent \in [Clients -> NbGarbage]
  /\ ac = [i \in Seats |-> NotApplied]
  /\ undefined = FALSE

\* The messages sent so far.
Messages == { m \in Clients \X (1 .. MAX_SENT) : m[2] <= Len(sent[m[1]]) }

Send(c, action) ==
  /\ ~undefined
  /\ HasSeat(c) /\ Len(sent[c]) < MAX_SENT /\ Cardinality(Messages) < MAX_ALL
  /\ sent' = [sent EXCEPT ![c] = Append(@, action)]
  /\ UNCHANGED <<holder, msgs_clients, nb_sent, ac, undefined>>

\* Mutant: the message overwrites the last one of the row.
Slot_Last(i) == IF nb_sent[holder[i]] = 0 THEN 0 ELSE nb_sent[holder[i]] - 1

\* Where the next message for seat i goes.
Slot(i) == nb_sent[holder[i]]

\* find_last_msg reads no further than the rows.
ReadsInside == \A i \in Seats : nb_sent[holder[i]] <= LOG_SIZE

\* One turn of the game loop: the k-th message of c arrives, for the first time or
\* not; it is logged and an action is applied for every seat.
Receive(c, k) ==
  /\ ~undefined
  /\ \E g \in IdGarbage :
       LET id == DecodedId(c, g)
       IN /\ id \in Seats /\ Slot(id) \in Slots /\ ReadsInside
          /\ msgs_clients' = [msgs_clients EXCEPT ![id][Slot(id)] = Message(c, k)]
          /\ nb_sent' = [nb_sent EXCEPT ![holder[id]] = @ + 1]
          /\ ac' = [i \in Seats |-> FindLastMsg(msgs_clients'[i], nb_sent'[holder[i]])]
  /\ UNCHANGED <<holder, sent, undefined>>

\* The identifier names no seat, the message is written outside its row, or another
\* row is read outside.
ReceiveOutside(c) ==
  /\ ~undefined
  /\ \E g \in IdGarbage :
       LET id == DecodedId(c, g)
       IN id \in Seats => Slot(id) \notin Slots \/ ~ReadsInside
  /\ undefined' = TRUE
  /\ UNCHANGED <<holder, sent, msgs_clients, nb_sent, ac>>

Next ==
  \E c \in Clients :
    \/ \E action \in ActionsSent : Send(c, action)
    \/ \E k \in 1 .. Len(sent[c]) : Receive(c, k)
    \/ sent[c] # <<>> /\ ReceiveOutside(c)

Spec == Init /\ [][Next]_vars

-----------------------------------------------------------------------------
(* Properties *)

Entry ==
  [ num : 0 .. NUMBERS - 1, action : 0 .. 7, from : Clients, at : 0 .. MAX_SENT ]

Logged(i) == nb_sent[holder[i]]

\* Every variable has its type; in particular the number and the action read from a word
\* stay within 13 and 3 bits.  Nothing bounds a count.
TypeOK ==
  /\ holder \in [Seats -> Clients]
  /\ sent \in [Clients -> Seq(ActionsSent)]
  /\ \A c \in Clients : Len(sent[c]) <= MAX_SENT
  /\ msgs_clients \in [Seats -> [Slots -> Entry]]
  /\ nb_sent \in [Clients -> Int]
  /\ ac \in [Seats -> 0 .. 7 \cup {NotApplied}]
  /\ undefined \in BOOLEAN

\* What has been logged stays logged, at its place, although rows share counts.
LogOnlyGrows ==
  [][ \A i \in Seats :
        /\ Logged(i)' >= Logged(i)
        /\ \A k \in Slots : k < Logged(i) => msgs_clients'[i][k] = msgs_clients[i][k] ]_vars

\* A message that comes late, or again, never brings back an older action: the
\* number in force does not decrease, as long as number 0 has come once at most.
NeverBackwards ==
  [][ \A i \in Seats :
        SecondZero(msgs_clients'[i], Logged(i)') = {} =>
          \A k \in Decisive(msgs_clients[i], Logged(i)),
             m \in Decisive(msgs_clients'[i], Logged(i)') :
            msgs_clients'[i][m].num >= msgs_clients[i][k].num ]_vars

\* Once number 0 has come twice (numbers have started again, or a datagram was
\* duplicated) the same action is applied at every turn till the end of the game.
FrozenAfterSecondZero ==
  [][ \A i \in Seats :
        SecondZero(msgs_clients[i], Logged(i)) # {} /\ ac[i] # NotApplied =>
          ac'[i] = ac[i] ]_vars

\* The seats whose number has the bits of seat j.
Covering(j) == { i \in Seats : i \div 2 >= j \div 2 /\ i % 2 >= j % 2 }

\* A logged message carries the number and the action its client gave it, whatever
\* the widths it went through; and it is in a row whose number has all the bits of its
\* client's seat, for decoding adds what the variable held and removes nothing.
LoggedAsSent ==
  \A i \in Seats, k \in Slots :
    LET m == msgs_clients[i][k]
    IN m.at > 0 => /\ m.at <= Len(sent[m.from])
                   /\ m.num = Number(m.at) /\ m.action = sent[m.from][m.at]
                   /\ i \in Covering(Told(m.from))

\* A client whose seat's bits are in the number of seat i has asked for the action.
AskedFor(i, action) ==
  \E c \in Clients : /\ \E k \in 1 .. Len(sent[c]) : sent[c][k] = action
                     /\ i \in Covering(Told(c))

\* What a row holds where it is counted and was never written.
LeftInRow(i, action) ==
  \E k \in First(Logged(i)), g \in RowGarbage :
    msgs_clients[i][k].at = 0 /\ g.action = action

\* A player does nothing that no client asked for, for a row that decoding may lead
\* its message to, but go up, or what its row was left with by memory in a slot that was
\* counted and never written: find_last_msg stays within the count, which may have
\* started from anything and grows with messages for another row of the same client.
AppliedWasAsked ==
  \A i \in Seats :
    ac[i] \notin {0, NotApplied} => AskedFor(i, ac[i]) \/ LeftInRow(i, ac[i])

(* The log implements a register per seat *)

\* The register a row amounts to.
RegisterOf(row, nb) ==
  LET zeros   == Zeros(row, nb)
      second  == SecondZero(row, nb)
      highest == Highest(row, nb)
  IN [ num    |-> IF second # {} \/ highest = {} THEN 0
                  ELSE row[CHOOSE k \in highest : TRUE].num,
       action |-> FindLastMsg(row, nb),
       zeros  |-> IF second # {} THEN 2 ELSE IF zeros # {} THEN 1 ELSE 0 ]

Registers == INSTANCE LastAction WITH
  reg   <- [i \in Seats |-> RegisterOf(msgs_clients[i], Logged(i))],
  Start <- { RegisterOf([k \in Slots |-> g], n) : g \in RowGarbage, n \in NbGarbage }

\* Searching the whole log at every turn changes the action of a seat only as one
\* register would: for a message numbered higher than all before it, or for the second
\* numbered 0, and then never again.
ActsAsRegisters == Registers!Spec

(* A statement of the protocol's documentation *)

\* protocol_client_messages.h: "if NUM == 8191, next will be 0".  So numbers go on
\* after they start again: messages that come in order are each applied in turn.
NumbersGoOn ==
  \A i \in Seats :
    Logged(i) > 0
      /\ (\A k \in 0 .. Logged(i) - 1 :
             msgs_clients[i][k].from = holder[i] /\ msgs_clients[i][k].at = k + 1)
    => ac[i] = msgs_clients[i][Logged(i) - 1].action
=============================================================================
