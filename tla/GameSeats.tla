------------------------------ MODULE GameSeats ------------------------------
(***************************************************************************)
(* What the queue, the handler and the threads promise of one game: it     *)
(* fills, is played by four ready clients who keep their seats, and ends.  *)
(*                                                                         *)
(* While it fills, seats are given to a client at a time and are freed by  *)
(* those who leave, whom the game has not heard to be ready.  It is played *)
(* once, for good; its end frees the four seats or leaves them all.        *)
(***************************************************************************)
EXTENDS Integers

CONSTANTS
  Clients,  \* whoever may sit in the game
  NULL,     \* an empty seat
  Early     \* clients that may count as ready without having said so

VARIABLES
  seat,   \* the client in each of the four seats
  ready,  \* the clients outside Early that have said they are ready
  phase   \* the game is filling, being played, or over

Seats == 0 .. 3

Init ==
  /\ seat = [k \in Seats |-> NULL]
  /\ ready = {}
  /\ phase = "filling"

\* A client is given free seats, one or several.
Take ==
  /\ phase = "filling"
  /\ \E c \in Clients : \A k \in Seats :
       seat'[k] = seat[k] \/ (seat[k] = NULL /\ seat'[k] = c)
  /\ seat' \in [Seats -> Clients \cup {NULL}]
  /\ UNCHANGED <<ready, phase>>

\* A client that has not said it is ready gives seats back.
Leave ==
  /\ phase # "over"
  /\ \E c \in Clients \ ready : \A k \in Seats :
       seat'[k] = seat[k] \/ (seat[k] = c /\ seat'[k] = NULL)
  /\ seat' \in [Seats -> Clients \cup {NULL}]
  /\ UNCHANGED <<ready, phase>>

\* A client says it is ready, and cannot take it back.
GetReady ==
  /\ \E c \in Clients \ Early : ready' = ready \cup {c}
  /\ UNCHANGED <<seat, phase>>

\* Four seats taken by ready clients: the game is played.  One that was taken for ready
\* without having said so may leave meanwhile.
Start ==
  /\ phase = "filling" /\ phase' = "playing"
  /\ \A k \in Seats : seat[k] \in ready \cup Early \/ (seat[k] = NULL /\ Early # {})
  /\ UNCHANGED <<seat, ready>>

\* The game ends, if it was ever played.
End ==
  /\ phase # "over" /\ phase' = "over"
  /\ seat' = seat \/ seat' = [k \in Seats |-> NULL]
  /\ ready' = ready

Next == Take \/ Leave \/ GetReady \/ Start \/ End

vars == <<seat, ready, phase>>

Spec == Init /\ [][Next]_vars

-----------------------------------------------------------------------------

\* A game that is played has its four seats taken by clients that have said they are
\* ready, unless some record said it for them.
PlayedByReady == phase = "playing" /\ Early = {} => \A k \in Seats : seat[k] \in ready

\* Such a game keeps its players until it is over, and what is over stays as it is.
KeepsPlayers ==
  /\ phase = "playing" /\ Early = {} => seat' = seat \/ phase' = "over"
  /\ phase = "playing" => phase' # "filling"
  /\ phase = "over" => UNCHANGED <<seat, phase>>

PlayersStay == [][KeepsPlayers]_vars
=============================================================================
