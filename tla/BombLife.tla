------------------------------ MODULE BombLife ------------------------------
(***************************************************************************)
(* What update_game promises of the bomb of the one player who plants: it  *)
(* is out for LIFE turns of its owner, the one that plants it included,    *)
(* in the cell its owner then stood in, and comes back.  Nothing else      *)
(* delays it, hurries it or moves it: not what the other players do, not   *)
(* the inputs of its owner, not its owner's death.                         *)
(***************************************************************************)
EXTENDS Integers

CONSTANTS
  LIFE,     \* the turns a bomb is out
  Cells,    \* the cells of the board
  Nowhere   \* the cell of a bomb that is not out

VARIABLES
  mine,   \* the next turn is the owner's
  owner,  \* the cell the owner stands in
  life,   \* the turns of its owner the bomb has left, 0 when it is not out
  cell    \* the cell the bomb is in

vars == <<mine, owner, life, cell>>

Init ==
  /\ mine \in BOOLEAN
  /\ owner \in Cells
  /\ life = 0
  /\ cell = Nowhere

Idle == life = 0 /\ UNCHANGED <<life, cell>>

\* The owner moves before it plants.
Plant == life = 0 /\ life' = LIFE - 1 /\ cell' = owner'

CountDown ==
  /\ life > 0
  /\ life' = life - 1
  /\ cell' = IF life' = 0 THEN Nowhere ELSE cell

OwnersTurn ==
  /\ mine /\ mine' \in BOOLEAN
  /\ owner' \in Cells
  /\ Idle \/ Plant \/ CountDown

OthersTurn ==
  /\ ~mine /\ mine' \in BOOLEAN
  /\ UNCHANGED <<owner, life, cell>>

Next == OwnersTurn \/ OthersTurn

Spec == Init /\ [][Next]_vars
=============================================================================
