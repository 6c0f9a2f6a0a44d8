---------------------------- MODULE MCModelRouting ----------------------------
(***************************************************************************)
(* Model values for model checking ModelRouting: three turns share the     *)
(* circuits.  The units keep the order of the code's seconds: a call takes *)
(* less than the budget, and a circuit rests longer than any call.         *)
(***************************************************************************)
EXTENDS ModelRouting, TLC

CONSTANTS t1, t2, t3

SharedBy == {t1, t2, t3}
Alike == Permutations(SharedBy)
=============================================================================
