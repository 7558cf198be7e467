-------------------------- MODULE MCNpcPatchRegistry --------------------------
(***************************************************************************)
(* Instances of NpcPatchRegistry for TLC.  The names of the contents say   *)
(* what they stand for:                                                    *)
(*   sword, bow     patches that load everywhere and name known renderers  *)
(*   ghost          disabled                                               *)
(*   statue         loads everywhere and names no renderer                 *)
(*   meshless       its mesh is missing: it loads on a dedicated server    *)
(*   typo           names an unknown renderer                              *)
(*   garbled        does not parse                                         *)
(*   partial        lacks what filterClientData copies                     *)
(***************************************************************************)
EXTENDS NpcPatchRegistry, TLC

MCShape ==
  [d \in Defs |->
    [disabled |-> d = "ghost",
     loads    |-> CASE d = "garbled"  -> {}
                    [] d = "meshless" -> {"server"}
                    [] OTHER          -> {"server", "client"},
     filters  |-> d # "partial",
     renderer |-> CASE d \in {"sword", "bow", "partial"} -> "valid"
                    [] d = "typo"                        -> "invalid"
                    [] OTHER                             -> "none"]]

(* Model names are interchangeable: no definition and no property tells    *)
(* one key from another.                                                   *)
KeySymmetry == Permutations(Keys)
===============================================================================
