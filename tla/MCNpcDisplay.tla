----------------------------- MODULE MCNpcDisplay -----------------------------
(* Instances of NpcDisplay for TLC. *)
EXTENDS NpcDisplay, TLC

(* A negative number, one and a half in 1.0F, one that is no float, and    *)
(* NaN.                                                                    *)
MCInputs == {-1, 3, 13, NaN}

(* A larger float as well: with 3, sums that are rounded. *)
MeterInputs == {-1, 1, 3, 10, 13, NaN}

ModelSymmetry == Permutations(Models)
ClientSymmetry == Permutations(Clients)
===============================================================================
