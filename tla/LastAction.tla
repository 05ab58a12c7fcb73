----------------------------- MODULE LastAction -----------------------------
(***************************************************************************)
(* What the log of actions and its search at every turn promise: a seat    *)
(* needs no log.  One register per seat would do: the highest number       *)
(* accepted, the action in force, and how often number 0 has come.  A      *)
(* message changes it only when its number is higher than all before, or   *)
(* when it is the second numbered 0, after which nothing changes it.       *)
(***************************************************************************)
EXTENDS Integers

CONSTANTS
  Seats,       \* the seats of the game
  NUMBERS,     \* messages are numbered below it
  NotApplied,  \* no action has been applied yet
  Start        \* what a register may hold at first

VARIABLES
  reg,  \* per seat
  ac    \* per seat, the action applied at the last turn

Register == [ num : 0 .. NUMBERS - 1, action : 0 .. 7, zeros : 0 .. 2 ]

Higher(r, s) == r.zeros < 2 /\ s.zeros = r.zeros /\ s.num > r.num

FirstZero(r, s) == r.zeros = 0 /\ s = [r EXCEPT !.zeros = 1]

\* The action of the second 0 is in force for good; numbers no longer matter.
SecondZero(r, s) == r.zeros = 1 /\ s.zeros = 2 /\ s.num = 0

\* Nothing changes, or a message came that counts.
Accepts(r, s) == s = r \/ Higher(r, s) \/ FirstZero(r, s) \/ SecondZero(r, s)

Init ==
  /\ reg \in [Seats -> Start]
  /\ ac = [i \in Seats |-> NotApplied]

\* A turn: a message at most for each seat, then an action for all.
Turn ==
  /\ reg' \in [Seats -> Register]
  /\ \A i \in Seats : \E r \in {reg[i]}, s \in {reg'[i]} : Accepts(r, s)
  /\ ac' = [i \in Seats |-> reg'[i].action]

Spec == Init /\ [][Turn]_<<reg, ac>>
=============================================================================
