---------------------------- MODULE MCActionLog ----------------------------
(***************************************************************************)
(* ActionLog for TLC: an unwritten element of a row holds either zeros, as *)
(* a fresh stack does, or a high number with an action nobody asks for.    *)
(***************************************************************************)
EXTENDS ActionLog, TLC

Zeroed == [num |-> 0, action |-> 0]
Dirty  == [num |-> NUMBERS - 1, action |-> 3]

ZeroedOrDirty == {Zeroed, Dirty}
OnlyDirty     == {Dirty}

Symmetry == Permutations(Clients)
=============================================================================
