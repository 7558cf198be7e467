-------------------------- MODULE MCScriptedDamage --------------------------
(***************************************************************************)
(* Instances of ScriptedDamage for TLC:                                    *)
(*   flurry  an attack of three phases, two of which one tick passes       *)
(*   slash   an attack of one phase at its very end                        *)
(*   bow     not an attack, of an odd length                               *)
(*   twitch  not an attack, shorter than twice the shortest trigger        *)
(***************************************************************************)
EXTENDS ScriptedDamage

MCPhases == [a \in Anims |->
  CASE a = "flurry" -> <<1, 2, 5>>
    [] a = "slash"  -> <<4>>
    [] OTHER        -> <<>>]

MCTotal == [a \in Anims |->
  CASE a = "flurry" -> 6
    [] a = "slash"  -> 4
    [] a = "bow"    -> 7
    [] a = "twitch" -> 3]
===============================================================================
