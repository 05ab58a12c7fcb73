-------------------------- MODULE ActionLog_proofs --------------------------
(***************************************************************************)
(* What ActionLog guarantees whatever the number of messages, their order, *)
(* their copies and their losses, and whatever the memory held before.     *)
(***************************************************************************)
EXTENDS ActionLog, WellFoundedInduction, TLAPS

-----------------------------------------------------------------------------
(* find_last_msg on one row, and on the same row later *)

Row == [Slots -> Entry]

\* Row s with n messages is row r with m of them, or more.
Extends(r, m, s, n) ==
  /\ m \in Int /\ n \in Int /\ m <= n
  /\ \A k \in Slots : k < m => s[k] = r[k]

\* What decides is a message of the row, so what is returned is an action.
LEMMA FindLastMsgType ==
  ASSUME NEW row \in Row, NEW nb \in Int
  PROVE  FindLastMsg(row, nb) \in 0 .. 7
<1>1. Decisive(row, nb) \subseteq First(nb)
  BY DEF Decisive, SecondZero, Highest, Zeros
<1>2. First(nb) \subseteq Slots
  BY DEF First
<1>3. CASE Decisive(row, nb) = {}
  BY <1>3 DEF FindLastMsg
<1>4. CASE Decisive(row, nb) # {}
  <2> DEFINE k == CHOOSE k \in Decisive(row, nb) : TRUE
  <2>1. k \in Slots
    BY <1>1, <1>2, <1>4
  <2> QED BY <1>4, <2>1 DEF FindLastMsg, Row, Entry
<1> QED BY <1>3, <1>4

\* The messages numbered 0 before a place both rows have are the same.
LEMMA ZerosKept ==
  ASSUME NEW r \in Row, NEW s \in Row, NEW m \in Int, NEW n \in Int,
         Extends(r, m, s, n), NEW k \in Int, k <= m
  PROVE  Zeros(s, k) = Zeros(r, k)
  BY LogAssumption DEF Zeros, First, Extends, Slots

\* A second message numbered 0 remains the second one.
LEMMA SecondZeroKept ==
  ASSUME NEW r \in Row, NEW s \in Row, NEW m \in Int, NEW n \in Int,
         Extends(r, m, s, n)
  PROVE  SecondZero(r, m) \subseteq SecondZero(s, n)
<1> SUFFICES ASSUME NEW k \in SecondZero(r, m) PROVE k \in SecondZero(s, n)
  OBVIOUS
<1>1. k \in Zeros(r, m) /\ k \in Slots /\ k \in Int /\ k < m /\ k <= m
  BY LogAssumption DEF SecondZero, Zeros, First, Slots
<1>2. Zeros(s, k) = Zeros(r, k)
  BY <1>1, ZerosKept
<1>3. Zeros(s, m) = Zeros(r, m)
  BY ZerosKept
<1>4. k \in Zeros(s, n)
  BY <1>1, <1>3 DEF Zeros, First, Extends
<1> QED BY <1>2, <1>4 DEF SecondZero

\* No row has two second messages numbered 0.
LEMMA SecondZeroUnique ==
  ASSUME NEW row \in Row, NEW nb \in Int,
         NEW j \in SecondZero(row, nb), NEW k \in SecondZero(row, nb)
  PROVE  j = k
<1>1. /\ j \in Slots /\ k \in Slots /\ j \in Nat /\ k \in Nat
      /\ row[j].num = 0 /\ row[k].num = 0
  BY LogAssumption DEF SecondZero, Zeros, First, Slots
<1>2. ASSUME NEW a \in SecondZero(row, nb), NEW b \in SecondZero(row, nb), a < b
      PROVE  FALSE
  <2>1. a \in First(b) /\ a \in Nat /\ b \in Nat /\ row[a].num = 0
    BY <1>2, LogAssumption DEF SecondZero, Zeros, First, Slots
  <2>2. a \in Zeros(row, b)
    BY <2>1 DEF Zeros
  <2>3. PICK z \in Zeros(row, a) : TRUE
    BY DEF SecondZero
  <2>4. z \in Zeros(row, b) /\ z < a
    BY <1>2, <2>1, <2>3, LogAssumption DEF Zeros, First, Slots
  <2> QED BY <2>1, <2>2, <2>4 DEF SecondZero
<1> QED BY <1>1, <1>2

-----------------------------------------------------------------------------
(* The words a message goes through *)

\* Reading an action's word gives what was written, for every value of its fields.
LEMMA ActionRoundTrip ==
  ASSUME NEW num \in 0 .. NUMBERS - 1, NEW action \in 0 .. 7
  PROVE  /\ NumOf(EncodeAction(num, action)) = num
         /\ ActionOf(EncodeAction(num, action)) = action
  BY DEF NumOf, ActionOf, EncodeAction, NUMBERS, WORDS

\* Fields in range do not overlap.
LEMMA EncodedSum ==
  ASSUME NEW codereq \in 0 .. NUMBERS - 1, NEW id \in 0 .. 3, NEW eq \in {0, 1}
  PROVE  EncodeHeader(codereq, id, eq) = codereq * 8 + id * 2 + eq
<1>1. codereq % NUMBERS = codereq
  BY DEF NUMBERS
<1>2. id % 4 = id
  BY id \in {0, 1, 2, 3}
<1>3. eq = IF eq = 0 THEN 0 ELSE 1
  OBVIOUS
<1> QED BY <1>1, <1>2, <1>3, Zenon DEF EncodeHeader

\* An identifier survives the header whatever the code and the team, but for the
\* bits the variable of 8 bits held, which are added.
LEMMA IdRoundTrip ==
  ASSUME NEW codereq \in 0 .. NUMBERS - 1, NEW id \in 0 .. 3, NEW eq \in {0, 1},
         NEW held \in 0 .. 255
  PROVE  LET got == IdOf(EncodeHeader(codereq, id, eq), held)
         IN /\ got \in 0 .. 255
            /\ got <= 3 => got \div 2 >= id \div 2 /\ got % 2 >= id % 2
            /\ held = 0 => got = id
<1> DEFINE h == EncodeHeader(codereq, id, eq)
           a == id \div 2
           b == id % 2
           high == held \div 4
<1>1. h = codereq * 8 + id * 2 + eq
  BY EncodedSum
<1>2. a \in {0, 1} /\ b \in {0, 1} /\ id = 2 * a + b /\ codereq \in Nat
  BY DEF NUMBERS
<1>3. h \div 2 = 4 * codereq + id /\ h \div 4 = 2 * codereq + a
  BY <1>1, <1>2
<1>4. (h \div 4) % 2 = a /\ (h \div 2) % 2 = b
  BY <1>2, <1>3
<1>5. high \in 0 .. 63 /\ (held = 0 => high = 0 /\ held \div 2 % 2 = 0 /\ held % 2 = 0)
  OBVIOUS
<1> DEFINE x == OrBit(a, held \div 2 % 2)
           y == OrBit(b, held % 2)
<1>6. /\ x \in {0, 1} /\ y \in {0, 1} /\ x >= a /\ y >= b
      /\ held = 0 => x = a /\ y = b
  BY <1>2, <1>5 DEF OrBit
<1>7. IdOf(h, held) = 4 * high + 2 * x + y
  BY <1>4 DEF IdOf
<1> HIDE DEF h, a, b, x, y, high
<1>8. /\ 4 * high + 2 * x + y \in 0 .. 255
      /\ 4 * high + 2 * x + y <= 3 => high = 0
      /\ (2 * x + y) \div 2 = x /\ (2 * x + y) % 2 = y
      /\ high = 0 => 4 * high + 2 * x + y = 2 * x + y
  BY <1>5, <1>6
<1> QED BY <1>2, <1>5, <1>6, <1>7, <1>8 DEF h, a, b

\* The code and the team come back as they were given.
LEMMA HeaderRoundTrip ==
  ASSUME NEW codereq \in 0 .. NUMBERS - 1, NEW id \in 0 .. 3, NEW eq \in {0, 1}
  PROVE  LET header == EncodeHeader(codereq, id, eq)
         IN header \in 0 .. WORDS - 1 /\ CodeOf(header) = codereq /\ EqOf(header) = eq
<1>1. EncodeHeader(codereq, id, eq) = codereq * 8 + id * 2 + eq
  BY EncodedSum
<1>2. (codereq * 8 + id * 2 + eq) \div 8 = codereq /\ (codereq * 8 + id * 2 + eq) % 2 = eq
  BY DEF NUMBERS
<1>3. codereq * 8 + id * 2 + eq \in 0 .. WORDS - 1
  <2>1. codereq \in Nat /\ codereq <= 8191 /\ id \in Nat /\ id <= 3 /\ eq \in Nat /\ eq <= 1
    BY DEF NUMBERS
  <2>2. codereq * 8 + id * 2 + eq \in Nat /\ codereq * 8 + id * 2 + eq <= 65535
    BY <2>1
  <2>3. WORDS - 1 \in Int /\ codereq * 8 + id * 2 + eq <= WORDS - 1
    BY <2>2 DEF WORDS
  <2>4. ASSUME NEW n \in Nat, NEW w \in Int, n <= w PROVE n \in 0 .. w
    BY <2>4
  <2> QED BY <2>2, <2>3, <2>4
<1> DEFINE h == EncodeHeader(codereq, id, eq)
<1>4. h \in 0 .. WORDS - 1 /\ h \div 8 = codereq /\ h % 2 = eq
  BY <1>1, <1>2, <1>3
<1>5. CodeOf(h) = h \div 8 /\ EqOf(h) = h % 2
  BY Zenon DEF CodeOf, EqOf
<1> HIDE DEF h
<1>6. h \in 0 .. WORDS - 1 /\ CodeOf(h) = codereq /\ EqOf(h) = eq
  BY <1>4, <1>5
<1> QED BY <1>6 DEF h

LEMMA NumberType ==
  ASSUME NEW k \in Nat
  PROVE  Number(k) \in 0 .. NUMBERS - 1
<1>1. FIRST + k - 1 \in Int
  <2>1. FIRST \in 0 .. NUMBERS - 1
    BY LogAssumption, Zenon
  <2>2. FIRST \in Int
    BY <2>1 DEF NUMBERS
  <2> QED BY <2>2
<1>2. ASSUME NEW n \in Int PROVE n % NUMBERS \in 0 .. NUMBERS - 1
  BY DEF NUMBERS
<1> QED BY <1>1, <1>2, Zenon DEF Number

LEMMA MessageKept ==
  ASSUME NEW c \in Clients, NEW k \in Nat, sent[c][k] \in ActionsSent
  PROVE  Message(c, k) = [num |-> Number(k), action |-> sent[c][k], from |-> c, at |-> k]
<1>1. sent[c][k] \in 0 .. 7
  BY LogAssumption
<1> QED BY <1>1, NumberType, ActionRoundTrip DEF Message

-----------------------------------------------------------------------------
(* Type correctness *)

\* However identifiers are decoded, whatever the counts, the rows and the variable held
\* before: the fields of every entry, and the actions applied, keep to their widths.  A
\* count is any integer: nothing in the code bounds it.
THEOREM LogTypeCorrect == Spec => []TypeOK
<1>1. Init => TypeOK
  <2> SUFFICES ASSUME Init PROVE TypeOK
    OBVIOUS
  <2>1. PICK g \in [Seats -> RowGarbage] :
          msgs_clients = [i \in Seats |-> [k \in Slots |->
            [num |-> g[i].num, action |-> g[i].action, from |-> holder[i], at |-> 0]]]
    BY DEF Init
  <2>2. holder \in [Seats -> Clients]
    BY DEF Init
  <2>3. ASSUME NEW i \in Seats
        PROVE  [num |-> g[i].num, action |-> g[i].action, from |-> holder[i], at |-> 0] \in Entry
    BY <2>2, LogAssumption DEF Entry
  <2>4. msgs_clients \in [Seats -> [Slots -> Entry]]
    BY <2>1, <2>3
  <2>5. sent \in [Clients -> Seq(ActionsSent)] /\ \A c \in Clients : Len(sent[c]) <= MAX_SENT
    BY LogAssumption DEF Init
  <2>6. nb_sent \in [Clients -> Int]
    BY LogAssumption DEF Init
  <2> QED BY <2>2, <2>4, <2>5, <2>6 DEF Init, TypeOK, NotApplied
<1>2. TypeOK /\ [Next]_vars => TypeOK'
  <2> SUFFICES ASSUME TypeOK, [Next]_vars PROVE TypeOK'
    OBVIOUS
  <2>1. ASSUME NEW c \in Clients, NEW action \in ActionsSent, Send(c, action)
        PROVE  TypeOK'
    <3>1. sent' \in [Clients -> Seq(ActionsSent)]
      BY <2>1 DEF Send, TypeOK
    <3>2. ASSUME NEW d \in Clients PROVE Len(sent'[d]) <= MAX_SENT
      <4>1. CASE d = c
        BY <2>1, <4>1, LogAssumption DEF Send, TypeOK
      <4>2. CASE d # c
        BY <2>1, <4>2 DEF Send, TypeOK
      <4> QED BY <4>1, <4>2
    <3> QED BY <2>1, <3>1, <3>2 DEF Send, TypeOK
  <2>2. ASSUME NEW c \in Clients, NEW k \in 1 .. Len(sent[c]), Receive(c, k)
        PROVE  TypeOK'
    <3>1. PICK id \in Seats :
            /\ Slot(id) \in Slots
            /\ msgs_clients' = [msgs_clients EXCEPT ![id][Slot(id)] = Message(c, k)]
            /\ nb_sent' = [nb_sent EXCEPT ![holder[id]] = @ + 1]
            /\ ac' = [i \in Seats |-> FindLastMsg(msgs_clients'[i], nb_sent'[holder[i]])]
      BY <2>2 DEF Receive
    <3>2. Message(c, k) \in Entry
      <4>1. sent[c] \in Seq(ActionsSent) /\ Len(sent[c]) <= MAX_SENT
        BY DEF TypeOK
      <4>2. sent[c][k] \in ActionsSent
        BY <4>1
      <4>3. k \in 0 .. MAX_SENT
        BY <4>1, LogAssumption
      <4>4. Message(c, k) = [num |-> Number(k), action |-> sent[c][k], from |-> c, at |-> k]
        BY <4>1, <4>2, <4>3, MessageKept
      <4>5. Number(k) \in 0 .. NUMBERS - 1 /\ sent[c][k] \in 0 .. 7
        <5>1. k \in Nat
          BY <4>3, LogAssumption
        <5> QED BY <4>2, <5>1, NumberType, LogAssumption
      <4>6. ASSUME NEW n \in 0 .. NUMBERS - 1, NEW a \in 0 .. 7
            PROVE  [num |-> n, action |-> a, from |-> c, at |-> k] \in Entry
        BY <4>3 DEF Entry
      <4> QED BY <4>4, <4>5, <4>6
    <3>3. msgs_clients' \in [Seats -> [Slots -> Entry]]
      BY <3>1, <3>2 DEF TypeOK
    <3>4. nb_sent' \in [Clients -> Int]
      BY <3>1 DEF TypeOK
    <3>5. ac' \in [Seats -> 0 .. 7 \cup {NotApplied}]
      <4>1. ASSUME NEW i \in Seats
            PROVE  FindLastMsg(msgs_clients'[i], nb_sent'[holder[i]]) \in 0 .. 7
        <5>1. msgs_clients'[i] \in Row /\ nb_sent'[holder[i]] \in Int
          BY <3>3, <3>4 DEF Row, TypeOK
        <5> QED BY <5>1, FindLastMsgType
      <4> QED BY <3>1, <4>1
    <3> QED BY <2>2, <3>3, <3>4, <3>5 DEF Receive, TypeOK
  <2>3. ASSUME NEW c \in Clients, ReceiveOutside(c) PROVE TypeOK'
    BY <2>3 DEF ReceiveOutside, TypeOK
  <2>4. CASE UNCHANGED vars
    BY <2>4 DEF vars, TypeOK
  <2> QED BY <2>1, <2>2, <2>3, <2>4 DEF Next
<1> QED BY <1>1, <1>2, PTL DEF Spec

-----------------------------------------------------------------------------
(* The rows *)

\* A step leaves the logged part of every row as it was.
LEMMA RowsExtended ==
  ASSUME TypeOK, TypeOK', [Next]_vars, NEW i \in Seats
  PROVE  /\ Extends(msgs_clients[i], Logged(i), msgs_clients'[i], Logged(i)')
         /\ msgs_clients[i] \in Row /\ msgs_clients'[i] \in Row
         /\ Logged(i) \in Int /\ Logged(i)' \in Int
<1>1. /\ msgs_clients[i] \in Row /\ msgs_clients'[i] \in Row
      /\ Logged(i) \in Int /\ Logged(i)' \in Int
  BY DEF TypeOK, Row, Logged
<1>2. ASSUME NEW c \in Clients, NEW k \in 1 .. Len(sent[c]), Receive(c, k)
      PROVE  Extends(msgs_clients[i], Logged(i), msgs_clients'[i], Logged(i)')
  <2>1. PICK id \in Seats :
          /\ Slot(id) \in Slots
          /\ msgs_clients' = [msgs_clients EXCEPT ![id][Slot(id)] = Message(c, k)]
          /\ nb_sent' = [nb_sent EXCEPT ![holder[id]] = @ + 1]
          /\ holder' = holder
    BY <1>2 DEF Receive
  <2>2. Logged(i) <= Logged(i)'
    <3>1. holder[i] \in Clients /\ nb_sent \in [Clients -> Int]
      BY DEF TypeOK
    <3> QED BY <2>1, <3>1 DEF Logged
  <2>3. ASSUME NEW j \in Slots, j < Logged(i)
        PROVE  msgs_clients'[i][j] = msgs_clients[i][j]
    <3>1. CASE i = id
      <4>1. Slot(id) = Logged(i) /\ j # Slot(id)
        BY <2>3, <3>1, <1>1 DEF Slot, Logged, Slots
      <4> QED BY <2>1, <3>1, <4>1, <1>1 DEF TypeOK
    <3>2. CASE i # id
      BY <2>1, <3>2 DEF TypeOK
    <3> QED BY <3>1, <3>2
  <2> QED BY <1>1, <2>2, <2>3 DEF Extends
<1>3. CASE UNCHANGED <<holder, msgs_clients, nb_sent>>
  BY <1>1, <1>3 DEF Extends, Logged
<1> QED BY <1>1, <1>2, <1>3 DEF Next, Send, ReceiveOutside, vars

\* No row ever loses or overwrites a logged message (LogOnlyGrows).
THEOREM LogKept == Spec => LogOnlyGrows
<1>1. TypeOK /\ TypeOK' /\ [Next]_vars =>
        \A i \in Seats :
          /\ Logged(i)' >= Logged(i)
          /\ \A k \in Slots : k < Logged(i) => msgs_clients'[i][k] = msgs_clients[i][k]
  <2> SUFFICES ASSUME TypeOK, TypeOK', [Next]_vars, NEW i \in Seats
               PROVE  /\ Logged(i)' >= Logged(i)
                      /\ \A k \in Slots : k < Logged(i) =>
                           msgs_clients'[i][k] = msgs_clients[i][k]
    OBVIOUS
  <2> QED BY RowsExtended DEF Extends
<1> QED BY <1>1, LogTypeCorrect, PTL DEF Spec, LogOnlyGrows

\* Late and repeated messages never bring back an older action (NeverBackwards).
THEOREM NumbersKept == Spec => NeverBackwards
<1> DEFINE Kept(i) ==
      SecondZero(msgs_clients'[i], Logged(i)') = {} =>
        \A k \in Decisive(msgs_clients[i], Logged(i)),
           m \in Decisive(msgs_clients'[i], Logged(i)') :
          msgs_clients'[i][m].num >= msgs_clients[i][k].num
<1>1. TypeOK /\ TypeOK' /\ [Next]_vars => \A i \in Seats : Kept(i)
  <2> SUFFICES ASSUME TypeOK, TypeOK', [Next]_vars, NEW i \in Seats,
                      SecondZero(msgs_clients'[i], Logged(i)') = {},
                      NEW k \in Decisive(msgs_clients[i], Logged(i)),
                      NEW m \in Decisive(msgs_clients'[i], Logged(i)')
               PROVE  msgs_clients'[i][m].num >= msgs_clients[i][k].num
    OBVIOUS
  <2> DEFINE r == msgs_clients[i]
             s == msgs_clients'[i]
             a == Logged(i)
             b == Logged(i)'
  <2>1. Extends(r, a, s, b) /\ r \in Row /\ s \in Row /\ a \in Int /\ b \in Int
    BY RowsExtended
  <2>2. SecondZero(r, a) = {}
    BY <2>1, SecondZeroKept
  <2>3. k \in Highest(r, a) /\ m \in Highest(s, b)
    BY <2>2 DEF Decisive
  <2> HIDE DEF r, s, a, b
  <2>4. k \in Slots /\ k < a /\ k \in First(b) /\ m \in Slots
    BY <2>1, <2>3, LogAssumption DEF Highest, First, Slots, Extends
  <2>5. s[k] = r[k]
    BY <2>1, <2>4 DEF Extends
  <2>6. s[k].num <= s[m].num
    BY <2>3, <2>4 DEF Highest
  <2>7. s[k].num \in Int /\ s[m].num \in Int
    BY <2>1, <2>4, LogAssumption DEF Row, Entry
  <2>8. s[m].num >= r[k].num
    BY <2>5, <2>6, <2>7
  <2> QED BY <2>8 DEF r, s
<1> QED BY <1>1, LogTypeCorrect, PTL DEF Spec, NeverBackwards

-----------------------------------------------------------------------------
(* The second message numbered 0 *)

\* What is applied for a seat is what find_last_msg makes of its row.
AppliedIsFound ==
  \A i \in Seats :
    ac[i] # NotApplied => ac[i] = FindLastMsg(msgs_clients[i], Logged(i))

LEMMA AppliedInit == Init => AppliedIsFound
  BY DEF Init, AppliedIsFound

LEMMA AppliedNext ==
  ASSUME TypeOK, AppliedIsFound, [Next]_vars
  PROVE  AppliedIsFound'
<1>1. ASSUME NEW c \in Clients, NEW k \in 1 .. Len(sent[c]), Receive(c, k)
      PROVE  AppliedIsFound'
  BY <1>1 DEF Receive, AppliedIsFound, Logged
<1>2. CASE UNCHANGED <<holder, msgs_clients, nb_sent, ac>>
  BY <1>2 DEF AppliedIsFound, Logged
<1> QED BY <1>1, <1>2 DEF Next, Send, ReceiveOutside, vars

\* Two messages numbered 0 fix the action of a seat for ever
\* (FrozenAfterSecondZero), however many messages follow.
THEOREM SecondZeroFreezes == Spec => FrozenAfterSecondZero
<1> DEFINE Frozen(i) ==
      SecondZero(msgs_clients[i], Logged(i)) # {} /\ ac[i] # NotApplied => ac'[i] = ac[i]
<1>1. TypeOK /\ TypeOK' /\ AppliedIsFound /\ [Next]_vars => \A i \in Seats : Frozen(i)
  <2> SUFFICES ASSUME TypeOK, TypeOK', AppliedIsFound, [Next]_vars, NEW i \in Seats,
                      SecondZero(msgs_clients[i], Logged(i)) # {}, ac[i] # NotApplied
               PROVE  ac'[i] = ac[i]
    OBVIOUS
  <2> DEFINE r == msgs_clients[i]
             s == msgs_clients'[i]
             a == Logged(i)
             b == Logged(i)'
  <2>1. Extends(r, a, s, b) /\ r \in Row /\ s \in Row /\ a \in Int /\ b \in Int
    BY RowsExtended
  <2>2. PICK k : k \in SecondZero(r, a) /\ k \in SecondZero(s, b)
    BY <2>1, SecondZeroKept
  <2>3. SecondZero(r, a) = {k} /\ SecondZero(s, b) = {k}
    BY <2>1, <2>2, SecondZeroUnique
  <2>4. k \in Slots /\ k < a /\ s[k] = r[k]
    BY <2>1, <2>2, LogAssumption DEF SecondZero, Zeros, First, Slots, Extends
  <2>5. FindLastMsg(r, a) = r[k].action /\ FindLastMsg(s, b) = s[k].action
    BY <2>3 DEF FindLastMsg, Decisive
  <2>6. ac[i] = FindLastMsg(r, a)
    BY DEF AppliedIsFound
  <2>7. ac'[i] = ac[i] \/ ac'[i] = FindLastMsg(s, b)
    BY DEF Next, Send, Receive, ReceiveOutside, vars, Logged
  <2> QED BY <2>4, <2>5, <2>6, <2>7
<1>2. Spec => []AppliedIsFound
  <2>1. TypeOK /\ AppliedIsFound /\ [Next]_vars => AppliedIsFound'
    BY AppliedNext
  <2> QED BY <2>1, AppliedInit, LogTypeCorrect, PTL DEF Spec
<1> QED BY <1>1, <1>2, LogTypeCorrect, PTL DEF Spec, FrozenAfterSecondZero

-----------------------------------------------------------------------------
(* What a logged message carries *)

\* Only a client with a seat sends.
SendersSit == \A c \in Clients : sent[c] # <<>> => HasSeat(c)

\* There is a last of a client's seats,
LEMMA ToldExists ==
  ASSUME TypeOK, NEW c \in Clients, HasSeat(c)
  PROVE  /\ \E i \in Seats : holder[i] = c /\ \A j \in Seats : holder[j] = c => j <= i
         /\ Seats \subseteq 0 .. 3
<1>1. Seats \subseteq 0 .. 3
  BY LogAssumption DEF Seats
<1>2. \E i \in Seats : holder[i] = c /\ \A j \in Seats : holder[j] = c => j <= i
  <2>1. PICK i \in Seats : holder[i] = c
    BY DEF HasSeat
  <2> DEFINE Later(k) == k \in Seats /\ holder[k] = c
  <2>2. ASSUME NEW k \in 0 .. 3, Later(k), \A j \in 0 .. 3 : Later(j) => j <= k
        PROVE  \E m \in Seats : holder[m] = c /\ \A j \in Seats : holder[j] = c => j <= m
    BY <1>1, <2>2
  <2>3. Later(0) \/ Later(1) \/ Later(2) \/ Later(3)
    BY <1>1, <2>1
  <2>4. \E k \in 0 .. 3 : Later(k) /\ \A j \in 0 .. 3 : Later(j) => j <= k
    <3> HIDE DEF Later
    <3>1. CASE Later(3)
      BY <3>1
    <3>2. CASE ~Later(3) /\ Later(2)
      BY <3>2
    <3>3. CASE ~Later(3) /\ ~Later(2) /\ Later(1)
      BY <3>3
    <3>4. CASE ~Later(3) /\ ~Later(2) /\ ~Later(1)
      BY <2>3, <3>4
    <3> QED BY <3>1, <3>2, <3>3, <3>4
  <2> QED BY <2>2, <2>4
<1> QED BY <1>1, <1>2

\* and it is a seat.
LEMMA ToldType ==
  ASSUME TypeOK, NEW c \in Clients, HasSeat(c)
  PROVE  Told(c) \in Seats /\ Seats \subseteq 0 .. 3
  BY ToldExists DEF Told

\* Decoding leads to a seat that covers the client's.
LEMMA DecodedCovers ==
  ASSUME TypeOK, NEW c \in Clients, HasSeat(c), NEW g \in IdGarbage,
         DecodedId(c, g) \in Seats
  PROVE  DecodedId(c, g) \in Covering(Told(c))
<1>1. Told(c) \in 0 .. 3 /\ g \in 0 .. 255 /\ 5 \in 0 .. NUMBERS - 1
  <2>1. g \in 0 .. 255
    BY LogAssumption, Zenon
  <2>2. Told(c) \in 0 .. 3
    BY ToldType, Zenon
  <2>3. 5 \in 0 .. NUMBERS - 1
    BY DEF NUMBERS
  <2> QED BY <2>1, <2>2, <2>3
<1>2. /\ DecodedId(c, g) \div 2 >= Told(c) \div 2
      /\ DecodedId(c, g) % 2 >= Told(c) % 2
  <2>1. DecodedId(c, g) <= 3
    <3>1. DecodedId(c, g) \in 0 .. 3
      BY ToldType, Zenon
    <3> QED BY <3>1
  <2> QED BY <1>1, <2>1, IdRoundTrip DEF DecodedId
<1> QED BY <1>2 DEF Covering

LEMMA LoggedNext ==
  ASSUME TypeOK, SendersSit, LoggedAsSent, [Next]_vars
  PROVE  LoggedAsSent' /\ SendersSit'
<1>1. ASSUME NEW c \in Clients, NEW action \in ActionsSent, Send(c, action)
      PROVE  LoggedAsSent' /\ SendersSit'
  <2>1. ASSUME NEW d \in Clients, NEW k \in 1 .. Len(sent[d])
        PROVE  k <= Len(sent'[d]) /\ sent'[d][k] = sent[d][k]
    <3>1. sent[d] \in Seq(ActionsSent)
      BY DEF TypeOK
    <3> QED BY <1>1, <3>1 DEF Send, TypeOK
  <2>2. holder' = holder /\ msgs_clients' = msgs_clients
    BY <1>1 DEF Send
  <2>3. ASSUME NEW i \in Seats, NEW k \in Slots, msgs_clients[i][k].at > 0
        PROVE  LET m == msgs_clients[i][k]
               IN /\ m.at <= Len(sent'[m.from])
                  /\ m.num = Number(m.at) /\ m.action = sent'[m.from][m.at]
                  /\ i \in Covering(Told(m.from))
    <3> DEFINE m == msgs_clients[i][k]
    <3>1. m \in Entry
      BY DEF TypeOK
    <3>2. /\ m.at <= Len(sent[m.from])
          /\ m.num = Number(m.at) /\ m.action = sent[m.from][m.at]
          /\ i \in Covering(Told(m.from))
      BY <2>3 DEF LoggedAsSent
    <3>3. m.from \in Clients /\ m.at \in Nat /\ Len(sent[m.from]) \in Nat
      BY <3>1, LogAssumption DEF Entry, TypeOK
    <3>4. m.at \in 1 .. Len(sent[m.from])
      BY <2>3, <3>2, <3>3
    <3> QED BY <2>1, <3>2, <3>3, <3>4
  <2>4. LoggedAsSent'
    BY <2>2, <2>3 DEF LoggedAsSent, Told, Covering
  <2>5. SendersSit'
    BY <1>1, <2>2 DEF Send, SendersSit, HasSeat, TypeOK
  <2> QED BY <2>4, <2>5
<1>2. ASSUME NEW c \in Clients, NEW k \in 1 .. Len(sent[c]), Receive(c, k)
      PROVE  LoggedAsSent' /\ SendersSit'
  <2>1. PICK g \in IdGarbage :
          LET id == DecodedId(c, g)
          IN /\ id \in Seats /\ Slot(id) \in Slots
             /\ msgs_clients' = [msgs_clients EXCEPT ![id][Slot(id)] = Message(c, k)]
    BY <1>2 DEF Receive
  <2>2. holder' = holder /\ sent' = sent
    BY <1>2 DEF Receive
  <2>3. sent[c] \in Seq(ActionsSent) /\ k \in Nat /\ k > 0 /\ k <= Len(sent[c])
        /\ sent[c][k] \in ActionsSent /\ sent[c] # <<>>
    BY DEF TypeOK
  <2>4. HasSeat(c)
    BY <2>3 DEF SendersSit
  <2> DEFINE id == DecodedId(c, g)
             n  == Message(c, k)
  <2>5. id \in Covering(Told(c))
    BY <2>1, <2>4, DecodedCovers
  <2>6. n = [num |-> Number(k), action |-> sent[c][k], from |-> c, at |-> k]
    BY <2>3, MessageKept
  <2>7. ASSUME NEW i \in Seats, NEW j \in Slots
        PROVE  msgs_clients'[i][j] = IF i = id /\ j = Slot(id) THEN n ELSE msgs_clients[i][j]
    BY <2>1 DEF TypeOK
  <2> HIDE DEF id, n
  <2>8. ASSUME NEW i \in Seats, NEW j \in Slots, msgs_clients'[i][j].at > 0
        PROVE  LET m == msgs_clients'[i][j]
               IN /\ m.at <= Len(sent[m.from])
                  /\ m.num = Number(m.at) /\ m.action = sent[m.from][m.at]
                  /\ i \in Covering(Told(m.from))
    <3>1. CASE i = id /\ j = Slot(id)
      BY <2>3, <2>5, <2>6, <2>7, <3>1
    <3>2. CASE ~(i = id /\ j = Slot(id))
      BY <2>7, <2>8, <3>2 DEF LoggedAsSent
    <3> QED BY <3>1, <3>2
  <2>9. LoggedAsSent'
    BY <2>2, <2>8 DEF LoggedAsSent, Told, Covering
  <2> QED BY <2>2, <2>9 DEF SendersSit, HasSeat
<1>3. CASE UNCHANGED <<holder, sent, msgs_clients>>
  BY <1>3 DEF LoggedAsSent, Told, Covering, SendersSit, HasSeat
<1> QED BY <1>1, <1>2, <1>3 DEF Next, ReceiveOutside, vars

\* Whatever is lost, repeated or reordered, what is logged is what was sent, in a row
\* whose number has the bits of the sender's seat (LoggedAsSent).
THEOREM LoggedFaithfully == Spec => []LoggedAsSent
<1>1. Init => LoggedAsSent /\ SendersSit
  <2> SUFFICES ASSUME Init PROVE LoggedAsSent /\ SendersSit
    OBVIOUS
  <2>1. \A i \in Seats, k \in Slots : msgs_clients[i][k].at = 0
    BY DEF Init
  <2> QED BY <2>1 DEF Init, LoggedAsSent, SendersSit
<1>2. TypeOK /\ LoggedAsSent /\ SendersSit /\ [Next]_vars => LoggedAsSent' /\ SendersSit'
  BY LoggedNext
<1> QED BY <1>1, <1>2, LogTypeCorrect, PTL DEF Spec

-----------------------------------------------------------------------------
(* What a player does *)

\* What no message was written over is what the row held at first.
UnwrittenIsGarbage ==
  \A i \in Seats, k \in Slots :
    msgs_clients[i][k].at = 0 => \E g \in RowGarbage : msgs_clients[i][k].action = g.action

\* The holder of seat i has no other.
Alone(i) == \A j \in Seats : holder[j] = holder[i] => j = i

\* The logged part of the row of a client with one seat has been written, by whomever.
RowWritten(i) ==
  Alone(i) /\ \A k \in Slots : k < Logged(i) => msgs_clients[i][k].at > 0

LEMMA WrittenNext ==
  ASSUME TypeOK, [Next]_vars
  PROVE  /\ UnwrittenIsGarbage => UnwrittenIsGarbage'
         /\ \A i \in Seats : RowWritten(i) => RowWritten(i)'
<1>1. ASSUME NEW c \in Clients, NEW k \in 1 .. Len(sent[c]), Receive(c, k)
      PROVE  /\ UnwrittenIsGarbage => UnwrittenIsGarbage'
             /\ \A i \in Seats : RowWritten(i) => RowWritten(i)'
  <2>1. PICK id \in Seats :
          /\ Slot(id) \in Slots
          /\ msgs_clients' = [msgs_clients EXCEPT ![id][Slot(id)] = Message(c, k)]
          /\ nb_sent' = [nb_sent EXCEPT ![holder[id]] = @ + 1]
    BY <1>1 DEF Receive
  <2>2. holder' = holder
    BY <1>1 DEF Receive
  <2> DEFINE n == Message(c, k)
  <2>3. n.at > 0
    <3>1. sent[c][k] \in ActionsSent /\ k \in Nat /\ k > 0
      BY DEF TypeOK
    <3> QED BY <3>1, MessageKept
  <2>4. ASSUME NEW i \in Seats, NEW j \in Slots
        PROVE  msgs_clients'[i][j] = IF i = id /\ j = Slot(id) THEN n ELSE msgs_clients[i][j]
    BY <2>1 DEF TypeOK
  <2>5. nb_sent \in [Clients -> Int] /\ holder \in [Seats -> Clients]
    BY DEF TypeOK
  <2> HIDE DEF n
  <2>6. UnwrittenIsGarbage => UnwrittenIsGarbage'
    BY <2>3, <2>4 DEF UnwrittenIsGarbage
  <2>7. ASSUME NEW i \in Seats, RowWritten(i), NEW j \in Slots, j < nb_sent'[holder[i]]
        PROVE  msgs_clients'[i][j].at > 0
    <3>1. CASE i = id /\ j = Slot(id)
      BY <2>3, <2>4, <3>1
    <3>2. CASE i = id /\ j # Slot(id)
      <4>1. j < nb_sent[holder[i]]
        BY <2>1, <2>5, <2>7, <3>2, LogAssumption DEF Slots, Slot
      <4> QED BY <2>4, <2>7, <3>2, <4>1 DEF RowWritten, Logged
    <3>3. CASE i # id
      <4>1. holder[i] # holder[id]
        BY <2>7, <3>3 DEF RowWritten, Alone
      <4>2. j < nb_sent[holder[i]]
        BY <2>1, <2>5, <2>7, <4>1
      <4> QED BY <2>4, <2>7, <3>3, <4>2 DEF RowWritten, Logged
    <3> QED BY <3>1, <3>2, <3>3
  <2>8. \A i \in Seats : RowWritten(i) => RowWritten(i)'
    BY <2>2, <2>7 DEF RowWritten, Alone, Logged
  <2> QED BY <2>6, <2>8
<1>2. CASE UNCHANGED <<holder, msgs_clients, nb_sent>>
  BY <1>2 DEF UnwrittenIsGarbage, RowWritten, Alone, Logged
<1> QED BY <1>1, <1>2 DEF Next, Send, ReceiveOutside, vars

\* The message whose action is applied, and who it came from.
LEMMA AppliedAsked ==
  ASSUME TypeOK, LoggedAsSent, AppliedIsFound, NEW i \in Seats, ac[i] \notin {0, NotApplied}
  PROVE  \E k \in First(Logged(i)) :
           /\ k \in Slots /\ k < Logged(i) /\ ac[i] = msgs_clients[i][k].action
           /\ msgs_clients[i][k].at > 0 => AskedFor(i, ac[i])
<1> DEFINE row == msgs_clients[i]
           nb  == Logged(i)
<1>1. row \in Row /\ nb \in Int
  BY DEF TypeOK, Row, Logged
<1>2. ac[i] = FindLastMsg(row, nb) /\ ac[i] # 0
  BY DEF AppliedIsFound
<1>3. PICK k \in Decisive(row, nb) : ac[i] = row[k].action
  BY <1>2 DEF FindLastMsg
<1>4. k \in First(nb)
  BY <1>3 DEF Decisive, SecondZero, Zeros, Highest
<1>5. k \in Slots /\ k < nb
  BY <1>1, <1>4, LogAssumption DEF First, Slots
<1>6. ASSUME row[k].at > 0 PROVE AskedFor(i, ac[i])
  <2> DEFINE c == row[k].from
  <2>1. /\ row[k].at <= Len(sent[c]) /\ row[k].action = sent[c][row[k].at]
        /\ i \in Covering(Told(c))
    BY <1>5, <1>6 DEF LoggedAsSent
  <2>2. c \in Clients /\ row[k].at \in Nat
    BY <1>1, <1>5, LogAssumption DEF Row, Entry
  <2>3. Len(sent[c]) \in Nat
    BY <2>2 DEF TypeOK
  <2>4. row[k].at \in 1 .. Len(sent[c])
    BY <1>6, <2>1, <2>2, <2>3
  <2> QED BY <1>3, <2>1, <2>2, <2>4 DEF AskedFor
<1> QED BY <1>3, <1>4, <1>5, <1>6

LEMMA AskedInvariants ==
  /\ Spec => []UnwrittenIsGarbage
  /\ Spec => [](LoggedAsSent /\ AppliedIsFound)
<1>1. Init => UnwrittenIsGarbage
  <2> SUFFICES ASSUME Init PROVE UnwrittenIsGarbage
    OBVIOUS
  <2>1. PICK g \in [Seats -> RowGarbage] :
          \A i \in Seats, k \in Slots : msgs_clients[i][k].action = g[i].action
    BY DEF Init
  <2> QED BY <2>1 DEF UnwrittenIsGarbage
<1>2. TypeOK /\ UnwrittenIsGarbage /\ [Next]_vars => UnwrittenIsGarbage'
  BY WrittenNext
<1>3. TypeOK /\ AppliedIsFound /\ [Next]_vars => AppliedIsFound'
  BY AppliedNext
<1> QED BY <1>1, <1>2, <1>3, AppliedInit, LoggedFaithfully, LogTypeCorrect, PTL DEF Spec

\* A player goes up, does what was asked by a client whose seat its number covers, or
\* what its row was left with in a slot counted and never written (AppliedWasAsked): for
\* any garbage in counts, rows and identifiers, and any clients with several seats.
THEOREM AppliesAskedOrGarbage == Spec => []AppliedWasAsked
<1>1. TypeOK /\ LoggedAsSent /\ AppliedIsFound /\ UnwrittenIsGarbage => AppliedWasAsked
  <2> SUFFICES ASSUME TypeOK, LoggedAsSent, AppliedIsFound, UnwrittenIsGarbage, NEW i \in Seats,
                      ac[i] \notin {0, NotApplied}
               PROVE  AskedFor(i, ac[i]) \/ LeftInRow(i, ac[i])
    BY DEF AppliedWasAsked
  <2>1. PICK k \in First(Logged(i)) :
          /\ k \in Slots /\ ac[i] = msgs_clients[i][k].action
          /\ msgs_clients[i][k].at > 0 => AskedFor(i, ac[i])
    BY AppliedAsked
  <2>2. CASE msgs_clients[i][k].at = 0
    BY <2>1, <2>2 DEF UnwrittenIsGarbage, LeftInRow
  <2>3. CASE msgs_clients[i][k].at # 0
    <3>1. msgs_clients[i][k].at \in Nat
      BY <2>1, LogAssumption DEF TypeOK, Entry
    <3> QED BY <2>1, <2>3, <3>1
  <2> QED BY <2>2, <2>3
<1> QED BY <1>1, AskedInvariants, LogTypeCorrect, PTL

\* Where the count of a client with one seat started from 0, its player goes up or does
\* what was asked by a client whose seat its number covers, however identifiers are
\* decoded and whatever the others' counts hold: no unwritten slot is ever read for it.
THEOREM AloneAppliesAsked ==
  ASSUME NEW i \in Seats
  PROVE  Spec /\ Alone(i) /\ Logged(i) = 0
           => [](ac[i] \notin {0, NotApplied} => AskedFor(i, ac[i]))
<1> DEFINE Wanted == ac[i] \notin {0, NotApplied} => AskedFor(i, ac[i])
<1>1. Alone(i) /\ Logged(i) = 0 => RowWritten(i)
  BY LogAssumption DEF RowWritten, Slots
<1>2. TypeOK /\ RowWritten(i) /\ [Next]_vars => RowWritten(i)'
  BY WrittenNext
<1>3. TypeOK /\ LoggedAsSent /\ AppliedIsFound /\ RowWritten(i) => Wanted
  BY AppliedAsked DEF RowWritten
<1> HIDE DEF Wanted
<1>4. Spec /\ Alone(i) /\ Logged(i) = 0 => []Wanted
  BY <1>1, <1>2, <1>3, AskedInvariants, LogTypeCorrect, PTL DEF Spec
<1> QED BY <1>4 DEF Wanted

-----------------------------------------------------------------------------
(* A register per seat *)

LEMMA LeastNat ==
  ASSUME NEW S, S \subseteq Nat, S # {}
  PROVE  \E x \in S : \A y \in S : x <= y
<1> DEFINE R == OpToRel(<, Nat)
<1>1. IsWellFoundedOn(R, Nat)
  BY NatLessThanWellFounded
<1> HIDE DEF R
<1>2. PICK x \in S : \A y \in S : ~ (<<y, x>> \in R)
  BY <1>1, WFMin
<1>3. \A y \in S : <<y, x>> \in R <=> y < x
  BY DEF R, OpToRel
<1>4. ASSUME NEW y \in S PROVE x <= y
  <2>1. ~(y < x) /\ x \in Nat /\ y \in Nat
    BY <1>2, <1>3
  <2> QED BY <2>1
<1> QED BY <1>4

\* A row with zeros but no second one has a single zero.
LEMMA SingleZero ==
  ASSUME NEW row \in Row, NEW nb \in Int,
         Zeros(row, nb) # {}, SecondZero(row, nb) = {}
  PROVE  \E z : Zeros(row, nb) = {z}
<1>1. Zeros(row, nb) \subseteq Nat
  BY LogAssumption DEF Zeros, First, Slots
<1>2. PICK z \in Zeros(row, nb) : \A y \in Zeros(row, nb) : z <= y
  BY <1>1, LeastNat
<1>3. ASSUME Zeros(row, nb) \ {z} # {}
      PROVE  FALSE
  <2>1. PICK k \in Zeros(row, nb) \ {z} : \A y \in Zeros(row, nb) \ {z} : k <= y
    BY <1>1, <1>3, LeastNat
  <2>2. ASSUME NEW y PROVE y \in Zeros(row, k) <=> y = z
    <3>1. y \in Zeros(row, k) => y \in Zeros(row, nb) /\ y < k
      BY <1>1, <2>1, LogAssumption DEF Zeros, First, Slots
    <3>2. z \in Zeros(row, k)
      BY <1>1, <1>2, <2>1, LogAssumption DEF Zeros, First, Slots
    <3>3. y \in Zeros(row, nb) /\ y < k => y = z
      BY <1>1, <2>1
    <3> QED BY <3>1, <3>2, <3>3
  <2>3. k \in SecondZero(row, nb)
    BY <2>1, <2>2 DEF SecondZero
  <2> QED BY <2>3
<1> QED BY <1>2, <1>3

LEMMA GapType ==
  ASSUME NEW a \in 0 .. NUMBERS - 1, NEW b \in 0 .. NUMBERS - 1
  PROVE  NUMBERS - a \in Nat /\ (NUMBERS - a <= NUMBERS - b => b <= a)
  BY DEF NUMBERS

\* A row with a number above 0 has a highest.
LEMMA HighestExists ==
  ASSUME NEW row \in Row, NEW nb \in Int,
         NEW p \in First(nb), row[p].num > 0
  PROVE  Highest(row, nb) # {}
<1> DEFINE Above == { k \in First(nb) : row[k].num > 0 }
           Gaps  == { g \in Nat : \E k \in Above : g = NUMBERS - row[k].num }
<1>1. \A k \in First(nb) : row[k].num \in 0 .. NUMBERS - 1
  BY LogAssumption DEF Row, Entry, First, Slots
<1>2. Gaps \subseteq Nat /\ NUMBERS - row[p].num \in Gaps
  BY <1>1, GapType
<1>3. PICK g \in Gaps : \A h \in Gaps : g <= h
  <2> HIDE DEF Gaps
  <2> QED BY <1>2, LeastNat
<1>4. PICK m \in Above : g = NUMBERS - row[m].num
  BY <1>3
<1>5. ASSUME NEW j \in Above PROVE row[j].num <= row[m].num
  <2>1. row[j].num \in 0 .. NUMBERS - 1 /\ row[m].num \in 0 .. NUMBERS - 1
    BY <1>1
  <2>2. NUMBERS - row[j].num \in Gaps
    BY <2>1, GapType
  <2>3. NUMBERS - row[m].num <= NUMBERS - row[j].num
    BY <1>3, <1>4, <2>2
  <2> QED BY <2>1, <2>3, GapType
<1>6. \A j \in First(nb) : row[j].num <= row[m].num
  BY <1>1, <1>5
<1> DEFINE Best == { k \in Above : row[k].num = row[m].num }
<1>7. PICK f \in Best : \A j \in Best : f <= j
  <2>1. Best \subseteq Nat /\ m \in Best
    BY LogAssumption DEF First, Slots
  <2> HIDE DEF Best
  <2> QED BY <2>1, LeastNat
<1>8. \A j \in First(f) : row[j].num # row[f].num
  <2>1. ASSUME NEW j \in First(f) PROVE j \in First(nb) /\ j < f
    BY <1>7, LogAssumption DEF First, Slots
  <2>2. ASSUME NEW j \in Best PROVE j \in Nat /\ f \in Nat /\ f <= j
    BY <1>7, LogAssumption DEF First, Slots
  <2>3. ASSUME NEW j \in First(f), row[j].num = row[f].num PROVE FALSE
    <3>1. j \in Best
      BY <1>7, <2>1, <2>3
    <3> QED BY <2>1, <2>2, <3>1
  <2> QED BY <2>3
<1>9. f \in Highest(row, nb)
  BY <1>6, <1>7, <1>8 DEF Highest
<1> QED BY <1>9

\* Of two highest there is only one.
LEMMA HighestUnique ==
  ASSUME NEW row \in Row, NEW nb \in Int,
         NEW j \in Highest(row, nb), NEW k \in Highest(row, nb)
  PROVE  j = k
<1>1. j \in First(nb) /\ k \in First(nb)
  BY DEF Highest
<1>2. row[j].num \in Int /\ row[k].num \in Int
  BY <1>1, LogAssumption DEF Row, Entry, First, Slots
<1>3. row[j].num = row[k].num
  BY <1>1, <1>2 DEF Highest
<1>4. j \in Slots /\ k \in Slots /\ j \in Nat /\ k \in Nat
  BY <1>1, LogAssumption DEF First, Slots
<1>5. ~(j < k) /\ ~(k < j)
  BY <1>3, <1>4 DEF Highest, First
<1> QED BY <1>4, <1>5

\* The three forms of a register: settled by a second zero,
LEMMA RegisterSettled ==
  ASSUME NEW row \in Row, NEW nb \in Int, NEW k \in SecondZero(row, nb)
  PROVE  RegisterOf(row, nb) = [num |-> 0, action |-> row[k].action, zeros |-> 2]
<1>1. SecondZero(row, nb) = {k}
  BY SecondZeroUnique
<1>2. FindLastMsg(row, nb) = row[k].action
  BY <1>1 DEF FindLastMsg, Decisive
<1> QED BY <1>1, <1>2 DEF RegisterOf

\* with a highest number,
LEMMA RegisterHighest ==
  ASSUME NEW row \in Row, NEW nb \in Int, SecondZero(row, nb) = {},
         NEW k \in Highest(row, nb)
  PROVE  RegisterOf(row, nb) = [num |-> row[k].num, action |-> row[k].action,
                                zeros |-> IF Zeros(row, nb) # {} THEN 1 ELSE 0]
<1>1. Highest(row, nb) = {k}
  BY HighestUnique
<1>2. FindLastMsg(row, nb) = row[k].action
  BY <1>1 DEF FindLastMsg, Decisive
<1> QED BY <1>1, <1>2 DEF RegisterOf

\* or with none.
LEMMA RegisterEmpty ==
  ASSUME NEW row \in Row, NEW nb \in Int, SecondZero(row, nb) = {},
         Highest(row, nb) = {}
  PROVE  RegisterOf(row, nb) = [num |-> 0, action |-> 0,
                                zeros |-> IF Zeros(row, nb) # {} THEN 1 ELSE 0]
  BY DEF FindLastMsg, Decisive, RegisterOf

LEMMA RegisterType ==
  ASSUME NEW row \in Row, NEW nb \in Int
  PROVE  RegisterOf(row, nb) \in Registers!Register
<1>1. \A k \in First(nb) : row[k].num \in 0 .. NUMBERS - 1 /\ row[k].action \in 0 .. 7
  BY LogAssumption DEF Row, Entry, First, Slots
<1>2. 0 \in 0 .. NUMBERS - 1
  BY DEF NUMBERS
<1>3. CASE SecondZero(row, nb) # {}
  <2>1. PICK k \in SecondZero(row, nb) : k \in First(nb)
    BY <1>3 DEF SecondZero, Zeros
  <2> QED BY <1>1, <1>2, <2>1, RegisterSettled DEF Registers!Register
<1>4. CASE SecondZero(row, nb) = {} /\ Highest(row, nb) # {}
  <2>1. PICK k \in Highest(row, nb) : k \in First(nb)
    BY <1>4 DEF Highest
  <2> QED BY <1>1, <1>4, <2>1, RegisterHighest DEF Registers!Register
<1>5. CASE SecondZero(row, nb) = {} /\ Highest(row, nb) = {}
  BY <1>2, <1>5, RegisterEmpty DEF Registers!Register
<1> QED BY <1>3, <1>4, <1>5

\* One more message in a row is one a register accepts.
LEMMA RegisterNext ==
  ASSUME NEW row \in Row, NEW nb \in Int
  PROVE  Registers!Accepts(RegisterOf(row, nb), RegisterOf(row, nb + 1))
<1> DEFINE n == nb + 1
           m == row[nb]
           r == RegisterOf(row, nb)
           s == RegisterOf(row, n)
<1>0. SUFFICES ASSUME nb \in Slots
               PROVE  Registers!Accepts(r, s)
  <2>1. ASSUME nb \notin Slots PROVE First(n) = First(nb)
    BY <2>1, LogAssumption DEF First, Slots
  <2>2. ASSUME First(n) = First(nb) PROVE r = s
    <3>1. Zeros(row, n) = Zeros(row, nb) /\ Highest(row, n) = Highest(row, nb)
      BY <2>2 DEF Zeros, Highest
    <3>2. SecondZero(row, n) = SecondZero(row, nb)
      BY <3>1 DEF SecondZero
    <3> QED BY <3>1, <3>2 DEF RegisterOf, FindLastMsg, Decisive
  <2>3. r = s => Registers!Accepts(r, s)
    BY DEF Registers!Accepts
  <2> QED BY <2>1, <2>2, <2>3
<1>1. n \in Int /\ nb \in Int /\ n = nb + 1 /\ nb \in Nat /\ nb <= n
  BY <1>0, LogAssumption DEF Slots
<1>2. Extends(row, nb, row, n)
  BY <1>1 DEF Extends
<1>3. \A j \in First(n) : row[j].num \in 0 .. NUMBERS - 1
  BY <1>1, LogAssumption DEF Row, Entry, First, Slots
<1>4. First(n) = First(nb) \cup {nb} /\ nb \in First(n) /\ nb \notin First(nb)
  BY <1>0, <1>1, LogAssumption DEF First, Slots
<1>prefix. \A j \in First(nb) : First(j) \subseteq First(nb) /\ nb \notin First(j)
  BY <1>1, LogAssumption DEF First, Slots
<1> HIDE DEF n
<1>5. Zeros(row, n) = Zeros(row, nb) \cup (IF m.num = 0 THEN {nb} ELSE {})
  BY <1>4 DEF Zeros
<1>6. CASE SecondZero(row, nb) # {}
  <2>1. PICK k \in SecondZero(row, nb) : k \in SecondZero(row, n)
    BY <1>1, <1>2, <1>6, SecondZeroKept
  <2>2. r = s
    BY <1>1, <2>1, RegisterSettled
  <2> QED BY <2>2 DEF Registers!Accepts, n
<1>7. CASE SecondZero(row, nb) = {} /\ m.num = 0 /\ Zeros(row, nb) = {}
  <2>1. Zeros(row, n) = {nb}
    BY <1>5, <1>7
  <2>2. SecondZero(row, n) = {}
    BY <1>7, <2>1 DEF SecondZero
  <2>3. Highest(row, n) = Highest(row, nb)
    <3>1. ASSUME NEW k \in First(n)
          PROVE  k \in Highest(row, n) <=> k \in Highest(row, nb)
      BY <1>3, <1>4, <1>prefix, <1>7 DEF Highest
    <3>2. Highest(row, n) \subseteq First(n) /\ Highest(row, nb) \subseteq First(n)
      BY <1>4 DEF Highest
    <3> QED BY <3>1, <3>2
  <2>4. \E num, action :
          /\ r = [num |-> num, action |-> action, zeros |-> 0]
          /\ s = [num |-> num, action |-> action, zeros |-> 1]
    <3>1. CASE Highest(row, nb) = {}
      BY <1>1, <1>7, <2>1, <2>2, <2>3, <3>1, RegisterEmpty
    <3>2. CASE Highest(row, nb) # {}
      BY <1>1, <1>7, <2>1, <2>2, <2>3, <3>2, RegisterHighest
    <3> QED BY <3>1, <3>2
  <2> HIDE DEF r, s
  <2>5. r.zeros = 0 /\ s = [r EXCEPT !.zeros = 1]
    BY <2>4
  <2> QED BY <2>5 DEF Registers!Accepts, Registers!FirstZero, n, r, s
<1>8. CASE SecondZero(row, nb) = {} /\ m.num = 0 /\ Zeros(row, nb) # {}
  <2>1. PICK z : Zeros(row, nb) = {z}
    BY <1>8, SingleZero
  <2>2. nb \in SecondZero(row, n)
    BY <1>5, <1>8, <2>1 DEF SecondZero
  <2>3. s.zeros = 2 /\ s.num = 0 /\ r.zeros = 1
    BY <1>1, <1>8, <2>2, RegisterSettled DEF RegisterOf
  <2> QED BY <2>3 DEF Registers!Accepts, Registers!SecondZero, n
<1>9. CASE SecondZero(row, nb) = {} /\ m.num # 0
  <2>1. Zeros(row, n) = Zeros(row, nb)
    BY <1>5, <1>9
  <2>2. SecondZero(row, n) = {}
    BY <1>9, <2>1 DEF SecondZero
  <2>3. m.num > 0
    <3>1. m.num \in 0 .. NUMBERS - 1
      BY <1>3, <1>4
    <3>2. ASSUME NEW a \in 0 .. NUMBERS - 1, a # 0 PROVE a > 0
      BY <3>2 DEF NUMBERS
    <3> QED BY <1>9, <3>1, <3>2
  <2>4. CASE \E j \in First(nb) : row[j].num >= m.num
    <3>1. PICK j \in First(nb) : row[j].num >= m.num
      BY <2>4
    <3>2. row[j].num > 0
      BY <1>3, <1>4, <2>3, <3>1
    <3>3. PICK h : h \in Highest(row, nb)
      BY <3>2, HighestExists
    <3>4. m.num <= row[h].num /\ h \in First(nb)
      BY <1>3, <1>4, <3>1, <3>3 DEF Highest
    <3>5. h \in Highest(row, n)
      BY <1>4, <3>3, <3>4 DEF Highest
    <3>6. r = s
      BY <1>1, <1>9, <2>1, <2>2, <3>3, <3>5, RegisterHighest
    <3> QED BY <3>6 DEF Registers!Accepts, n
  <2>5. CASE \A j \in First(nb) : row[j].num < m.num
    <3>1. nb \in Highest(row, n)
      <4>1. ASSUME NEW j \in First(n) PROVE row[j].num <= m.num
        <5>1. row[j].num \in Int /\ m.num \in Int
          BY <1>3, <1>4
        <5>2. CASE j = nb
          BY <5>1, <5>2
        <5>3. CASE j \in First(nb)
          BY <2>5, <5>1, <5>3
        <5> QED BY <1>4, <4>1, <5>2, <5>3
      <4>2. \A j \in First(nb) : row[j].num # m.num
        <5>1. ASSUME NEW j \in First(nb) PROVE row[j].num < m.num /\ row[j].num \in Int
          BY <1>3, <1>4, <2>5
        <5> QED BY <5>1
      <4> QED BY <1>4, <2>3, <4>1, <4>2 DEF Highest
    <3>2. s.num = m.num /\ s.zeros = r.zeros /\ r.zeros < 2
      <4>1. s = [num |-> m.num, action |-> m.action,
                 zeros |-> IF Zeros(row, n) # {} THEN 1 ELSE 0]
        BY <1>1, <2>2, <3>1, RegisterHighest
      <4>2. r.zeros = IF Zeros(row, nb) # {} THEN 1 ELSE 0
        BY <1>9 DEF RegisterOf
      <4> HIDE DEF r, s
      <4> QED BY <2>1, <4>1, <4>2
    <3>3. r.num < s.num
      <4>1. CASE Highest(row, nb) = {}
        <5>1. r.num = 0
          BY <1>9, <4>1 DEF RegisterOf
        <5> QED BY <2>3, <3>2, <5>1
      <4>2. CASE Highest(row, nb) # {}
        <5>1. PICK h : h \in Highest(row, nb)
          BY <4>2
        <5>2. h \in First(nb) /\ r.num = row[h].num
          BY <1>9, <5>1, RegisterHighest DEF Highest
        <5> QED BY <2>5, <3>2, <5>2
      <4> QED BY <4>1, <4>2
    <3>4. s.num > r.num
      <4>1. s.num \in Int /\ r.num \in Int
        BY <1>1, RegisterType DEF Registers!Register
      <4> QED BY <3>3, <4>1
    <3> QED BY <3>2, <3>4 DEF Registers!Accepts, Registers!Higher, n
  <2> QED BY <1>3, <1>4, <2>4, <2>5
<1> QED BY <1>6, <1>7, <1>8, <1>9

\* A register depends on the numbers and the actions of the row's first messages only.
LEMMA RegisterKept ==
  ASSUME NEW r, NEW s, NEW nb \in Int,
         \A k \in First(nb) : s[k].num = r[k].num /\ s[k].action = r[k].action
  PROVE  RegisterOf(s, nb) = RegisterOf(r, nb)
<1>0. \A k \in First(nb) : First(k) \subseteq First(nb)
  BY LogAssumption DEF First, Slots
<1>1. ASSUME NEW k, First(k) \subseteq First(nb) PROVE Zeros(s, k) = Zeros(r, k)
  BY <1>1 DEF Zeros
<1>2. Zeros(s, nb) = Zeros(r, nb) /\ \A k \in Zeros(r, nb) : Zeros(s, k) = Zeros(r, k)
  <2>1. Zeros(r, nb) \subseteq First(nb)
    BY DEF Zeros
  <2> QED BY <1>0, <1>1, <2>1
<1>3. SecondZero(s, nb) = SecondZero(r, nb)
  BY <1>2 DEF SecondZero
<1>4. Highest(s, nb) = Highest(r, nb)
  <2>1. ASSUME NEW k \in First(nb)
        PROVE  k \in Highest(s, nb) <=> k \in Highest(r, nb)
    <3>1. First(k) \subseteq First(nb)
      BY <1>0
    <3> QED BY <3>1 DEF Highest
  <2> QED BY <2>1 DEF Highest
<1>5. Highest(r, nb) \subseteq First(nb) /\ SecondZero(r, nb) \subseteq First(nb)
  BY DEF Highest, SecondZero, Zeros
<1>6. Decisive(s, nb) = Decisive(r, nb) /\ Decisive(r, nb) \subseteq First(nb)
  BY <1>3, <1>4, <1>5 DEF Decisive
<1>7. FindLastMsg(s, nb) = FindLastMsg(r, nb)
  BY <1>6 DEF FindLastMsg
<1>8. Highest(r, nb) # {} =>
        s[CHOOSE k \in Highest(r, nb) : TRUE].num = r[CHOOSE k \in Highest(r, nb) : TRUE].num
  BY <1>5
<1> QED BY <1>2, <1>3, <1>4, <1>7, <1>8 DEF RegisterOf

LEMMA RegistersInit == Init => Registers!Init
<1> SUFFICES ASSUME Init PROVE Registers!Init
  OBVIOUS
<1>1. PICK g \in [Seats -> RowGarbage] :
        msgs_clients = [i \in Seats |-> [k \in Slots |->
          [num |-> g[i].num, action |-> g[i].action, from |-> holder[i], at |-> 0]]]
  BY DEF Init
<1>2. ASSUME NEW i \in Seats
      PROVE  \E h \in RowGarbage, n \in NbGarbage :
               RegisterOf(msgs_clients[i], Logged(i)) = RegisterOf([k \in Slots |-> h], n)
  <2>1. g[i] \in RowGarbage /\ Logged(i) \in NbGarbage
    BY DEF Init, Logged
  <2>2. Logged(i) \in Int
    BY <2>1, LogAssumption
  <2>3. \A k \in First(Logged(i)) :
          /\ msgs_clients[i][k].num = [j \in Slots |-> g[i]][k].num
          /\ msgs_clients[i][k].action = [j \in Slots |-> g[i]][k].action
    BY <1>1 DEF First
  <2>4. RegisterOf(msgs_clients[i], Logged(i)) = RegisterOf([j \in Slots |-> g[i]], Logged(i))
    BY <2>2, <2>3, RegisterKept
  <2> QED BY <2>1, <2>4
<1> DEFINE Regs == [i \in Seats |-> RegisterOf(msgs_clients[i], Logged(i))]
           Held == { RegisterOf([k \in Slots |-> h], n) : h \in RowGarbage, n \in NbGarbage }
<1>3. Regs \in [Seats -> Held]
  <2>1. ASSUME NEW i \in Seats PROVE RegisterOf(msgs_clients[i], Logged(i)) \in Held
    BY <1>2
  <2> HIDE DEF Held
  <2> QED BY <2>1
<1>4. ac = [i \in Seats |-> NotApplied]
  BY DEF Init
<1> QED BY <1>3, <1>4 DEF Registers!Init

LEMMA RegistersStep ==
  ASSUME TypeOK, TypeOK', [Next]_vars
  PROVE  [Registers!Turn]_<<[i \in Seats |-> RegisterOf(msgs_clients[i], Logged(i))], ac>>
<1> DEFINE Of(i) == RegisterOf(msgs_clients[i], Logged(i))
<1>1. ASSUME NEW c \in Clients, NEW k \in 1 .. Len(sent[c]), Receive(c, k)
      PROVE  Registers!Turn
  <2>1. ASSUME NEW i \in Seats
        PROVE  Of(i)' \in Registers!Register /\ Registers!Accepts(Of(i), Of(i)')
    <3> DEFINE r == msgs_clients[i]
               s == msgs_clients'[i]
               a == Logged(i)
               b == Logged(i)'
    <3>1. Extends(r, a, s, b) /\ r \in Row /\ s \in Row /\ a \in Int /\ b \in Int
      BY RowsExtended
    <3>2. b = a \/ b = a + 1
      <4>1. PICK id \in Seats : nb_sent' = [nb_sent EXCEPT ![holder[id]] = @ + 1]
        BY <1>1 DEF Receive
      <4>2. holder' = holder /\ holder \in [Seats -> Clients] /\ nb_sent \in [Clients -> Int]
        BY <1>1 DEF Receive, TypeOK
      <4> QED BY <4>1, <4>2 DEF Logged
    <3>3. Of(i) = RegisterOf(r, a) /\ Of(i)' = RegisterOf(s, b)
      OBVIOUS
    <3> HIDE DEF r, s, a, b, Of
    <3>4. \A j \in First(a) : s[j] = r[j]
      BY <3>1, LogAssumption DEF Extends, First, Slots
    <3>5. RegisterOf(s, a) = RegisterOf(r, a)
      BY <3>1, <3>4, RegisterKept
    <3>6. CASE b = a
      BY <3>1, <3>3, <3>5, <3>6, RegisterType DEF Registers!Accepts
    <3>7. CASE b = a + 1
      <4>1. Registers!Accepts(RegisterOf(s, a), RegisterOf(s, a + 1))
        BY <3>1, <3>7, RegisterNext
      <4> QED BY <3>1, <3>3, <3>5, <3>7, <4>1, RegisterType
    <3> QED BY <3>2, <3>6, <3>7
  <2>2. \A i \in Seats : ac'[i] = Of(i)'.action
    BY <1>1 DEF Receive, RegisterOf, Logged
  <2>3. ac' = [i \in Seats |-> Of(i)'.action]
    BY <1>1, <2>2 DEF Receive
  <2> QED BY <2>1, <2>3 DEF Registers!Turn
<1>2. CASE UNCHANGED <<holder, msgs_clients, nb_sent, ac>>
  BY <1>2 DEF Logged
<1> QED BY <1>1, <1>2 DEF Next, Send, ReceiveOutside, vars

\* The log and its search do what one register per seat would do (ActsAsRegisters),
\* whatever the sizes, the delivery and what unwritten memory holds.
THEOREM LogIsRegisters == Spec => ActsAsRegisters
<1>1. TypeOK /\ TypeOK' /\ [Next]_vars
        => [Registers!Turn]_<<[i \in Seats |-> RegisterOf(msgs_clients[i], Logged(i))], ac>>
  BY RegistersStep
<1> QED BY <1>1, RegistersInit, LogTypeCorrect, PTL DEF Spec, ActsAsRegisters, Registers!Spec
=============================================================================
