----------------------------- MODULE WriteOnceMap -----------------------------
(***************************************************************************)
(* What a patch registry promises its readers: in each JVM a map from      *)
(* model names to providers.  A name is bound once; a binding is never     *)
(* replaced, and ends only when the whole map of that JVM is dropped.  The *)
(* promise is void for a map while two threads have raced for it.          *)
(***************************************************************************)
CONSTANTS Jvms, Keys, Values, Absent

VARIABLES
  map,
  raced   \* an input: the maps that two threads have written since they
          \* were last dropped

Empty == [k \in Keys |-> Absent]

Init == map = [j \in Jvms |-> Empty]

(* addProvider under a name that is not bound yet. *)
Bind(j, k, v) ==
  /\ map[j][k] = Absent
  /\ map' = [map EXCEPT ![j] = [@ EXCEPT ![k] = v]]

(* A new NpcBranchPatchProvider, or a new process. *)
Drop(j) == map' = [map EXCEPT ![j] = Empty]

(* Adds that overtake each other lose, cut off and bring back entries. *)
Race(j) ==
  /\ j \in raced'
  /\ map' \in [Jvms -> [Keys -> Values \union {Absent}]]
  /\ \A i \in Jvms \ {j} : map'[i] = map[i]

Next ==
  \E j \in Jvms :
    \/ Drop(j)
    \/ \E k \in Keys, v \in Values : Bind(j, k, v)
    \/ Race(j)

Spec == Init /\ [][Next]_map

===============================================================================
