------------------------------- MODULE MCEvasive -------------------------------
(* Instances of Evasive for TLC. *)
EXTENDS Evasive

(* Too near, or above, to give a direction; along an axis; at an angle. *)
Vectors == {<<12, -16>>, <<0, 50>>, <<-40, 30>>}

(* Backwards; faint; two that add up to a double, and twice to none. *)
Doses == {-50, 20, 50, 100}
===============================================================================
