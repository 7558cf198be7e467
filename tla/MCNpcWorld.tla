------------------------------ MODULE MCNpcWorld ------------------------------
(***************************************************************************)
(* Instances of NpcWorld for TLC, with contents named as in                *)
(* MCNpcPatchRegistry.                                                     *)
(***************************************************************************)
EXTENDS NpcWorld, TLC

MCShape ==
  [d \in Defs |->
    [disabled |-> d = "ghost",
     loads    |-> IF d = "garbled" THEN {} ELSE {"server", "client"},
     filters  |-> d # "partial",
     renderer |-> CASE d \in {"sword", "bow", "partial"} -> "valid"
                    [] d = "typo"                        -> "invalid"
                    [] OTHER                             -> "none"]]

(* Model names are interchangeable. *)
KeySymmetry == Permutations(Keys)
===============================================================================
