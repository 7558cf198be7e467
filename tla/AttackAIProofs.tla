---------------------------- MODULE AttackAIProofs ----------------------------
(* What AttackAI guarantees for every delay of the melee goal. *)
EXTENDS AttackAI, TLAPS

(* The three together are inductive. *)
SwitchInv == TypeOK /\ AimIsRemembered /\ OffMeansNoAttack

(* Lowering the bow: nothing raised to aim stays in use. *)
LEMMA Lowered ==
  ASSUME TypeOK, AimIsRemembered, Lower
  PROVE  /\ using' = FALSE
         /\ item' \in {"none", "aim", "other"}
         /\ item' # "aim"
BY Zenon DEF Lower, TypeOK, AimIsRemembered

(* The hook at the start of a ranged tick keeps what is in use in mind. *)
LEMMA TickStartKeeps ==
  ASSUME TypeOK, AimIsRemembered, TickStart
  PROVE  /\ using' \in BOOLEAN
         /\ item' \in {"none", "aim", "other"}
         /\ item' = "aim" => using'
<1> DEFINE Kept == /\ using' \in BOOLEAN
                   /\ item' \in {"none", "aim", "other"}
                   /\ item' = "aim" => using'
<1>1. ASSUME Lower PROVE Kept
  BY <1>1, Lowered
<1>2. ASSUME Raise PROVE Kept
  <2>1. using' = TRUE /\ item' \in {"aim", item}
    BY <1>2, Zenon DEF Raise
  <2> QED
    BY <2>1, Zenon DEF TypeOK
<1>3. ASSUME UNCHANGED <<using, item>> PROVE Kept
  <2>1. using' = using /\ item' = item
    BY <1>3
  <2> QED
    BY <2>1, Zenon DEF TypeOK, AimIsRemembered
<1>4. Lower \/ Raise \/ UNCHANGED <<using, item>>
  BY Zenon DEF TickStart, TypeOK
<1> QED
  BY <1>1, <1>2, <1>3, <1>4

(* A new patch takes goals away, and the ranged one is not among them. *)
LEMMA RenewKeeps ==
  ASSUME TypeOK, Renew
  PROVE  /\ goals' \in SUBSET Goals /\ running' \in SUBSET goals'
         /\ path' \in {"none", "chase", "other"}
         /\ "ranged" \in running => "ranged" \in running'
<1>g. Npc \in SUBSET Goals /\ Goals \in SUBSET Goals
  BY DEF Goals
<1>1. goals' \in {Npc, Goals} /\ running' = running \ EpicFight
      /\ path' \in {"none", path}
  BY Zenon DEF Renew
<1>2. running' \in SUBSET Npc /\ running' \in SUBSET Goals
  BY <1>1 DEF TypeOK, Goals
<1> QED
  BY <1>g, <1>1, <1>2 DEF TypeOK, EpicFight

LEMMA InitSwitchInv == Init => SwitchInv
<1> SUFFICES ASSUME Init PROVE SwitchInv
  OBVIOUS
<1>1. TypeOK
  <2>1. /\ off \in BOOLEAN /\ using \in BOOLEAN
        /\ target \in BOOLEAN /\ bow \in BOOLEAN /\ aims \in BOOLEAN
    BY Zenon DEF Init
  <2>2. /\ goals \in SUBSET Goals /\ running \in SUBSET goals
        /\ attacks \in SUBSET Attacks
    BY DEF Init, Goals
  <2>3. item \in {"none", "aim", "other"} /\ path \in {"none", "chase", "other"}
    BY Zenon DEF Init
  <2>4. wait \in 0..Delay
    BY DelayAssumption DEF Init
  <2> QED
    BY <2>1, <2>2, <2>3, <2>4, Zenon DEF TypeOK
<1>2. AimIsRemembered
  BY Zenon DEF Init, AimIsRemembered
<1>3. OffMeansNoAttack
  BY DEF Init, OffMeansNoAttack
<1> QED
  BY <1>1, <1>2, <1>3 DEF SwitchInv

(* Every step keeps the types, the memory of the bow and the truce. *)
LEMMA SwitchStep == SwitchInv /\ [Next]_vars => SwitchInv'
<1> SUFFICES ASSUME SwitchInv, [Next]_vars PROVE SwitchInv'
  OBVIOUS
<1>i. TypeOK /\ AimIsRemembered /\ OffMeansNoAttack
  BY DEF SwitchInv
<1>g. Npc \in SUBSET Goals /\ Goals \in SUBSET Goals
  BY DEF Goals
(* Steps that leave the switch and the attacks alone need show the types   *)
(* and the bow only.                                                       *)
<1>truce. ASSUME off' = off, attacks' = attacks PROVE OffMeansNoAttack'
  BY <1>i, <1>truce DEF OffMeansNoAttack
<1>1. ASSUME NEW b \in BOOLEAN, SetEFAttackAIDisabled(b) PROVE SwitchInv'
  <2>1. off' = b /\ attacks' = {}
        /\ UNCHANGED <<using, item, target, bow, aims, wait>>
    BY <1>1 DEF SetEFAttackAIDisabled, world
  <2>2. /\ goals' \in SUBSET Goals /\ running' \in SUBSET goals'
        /\ path' \in {"none", "chase", "other"}
        /\ "ranged" \in running => "ranged" \in running'
    <3>1. CASE Renew
      BY <1>i, <3>1, RenewKeeps
    <3>2. CASE UNCHANGED <<goals, running, path>>
      BY <1>i, <3>2 DEF TypeOK
    <3> QED
      BY <1>1, <3>1, <3>2 DEF SetEFAttackAIDisabled
  <2>3. TypeOK'
    BY <1>i, <2>1, <2>2 DEF TypeOK
  <2>4. AimIsRemembered' /\ OffMeansNoAttack'
    BY <1>i, <2>1, <2>2 DEF AimIsRemembered, OffMeansNoAttack
  <2> QED
    BY <2>3, <2>4 DEF SwitchInv
<1>2. ASSUME NEW b \in BOOLEAN, AddRegularEntries(b) PROVE SwitchInv'
  <2>1. goals' \in {Npc, Goals}
    BY <1>2, Zenon DEF AddRegularEntries
  <2>2. running' = {} /\ path' = "none"
        /\ UNCHANGED <<off, target, bow, aims, wait, attacks>>
    BY <1>2 DEF AddRegularEntries, world
  <2>3. using' \in BOOLEAN /\ item' \in {"none", "aim", "other"}
        /\ using' = FALSE /\ item' # "aim"
    <3>1. CASE "ranged" \in running
      <4>1. Lower
        BY <1>2, <3>1, Zenon DEF AddRegularEntries
      <4> QED
        BY <1>i, <4>1, Lowered, Zenon
    <3>2. CASE "ranged" \notin running
      <4>1. using' = using /\ item' = item
        BY <1>2, <3>2, Zenon DEF AddRegularEntries
      <4> QED
        BY <1>i, <3>2, <4>1, Zenon DEF TypeOK, AimIsRemembered
    <3> QED
      BY <3>1, <3>2
  <2>4. TypeOK'
    BY <1>i, <1>g, <2>1, <2>2, <2>3 DEF TypeOK
  <2>5. AimIsRemembered'
    BY <2>3, Zenon DEF AimIsRemembered
  <2> QED
    BY <1>truce, <2>2, <2>4, <2>5 DEF SwitchInv
<1>3. ASSUME NEW g \in Goals, GoalStarts(g) PROVE SwitchInv'
  <2>1. g \in goals /\ running' = running \union {g}
        /\ UNCHANGED <<off, goals, using, item, path, target, bow, aims, wait, attacks>>
    BY <1>3 DEF GoalStarts, world
  <2>2. TypeOK'
    BY <1>i, <2>1 DEF TypeOK
  <2>3. AimIsRemembered'
    BY <1>i, <2>1 DEF AimIsRemembered
  <2> QED
    BY <1>truce, <2>1, <2>2, <2>3 DEF SwitchInv
<1>4. ASSUME NEW g \in Goals, GoalStops(g) PROVE SwitchInv'
  <2>1. running' = running \ {g} /\ path' \in {"none", path}
        /\ UNCHANGED <<off, goals, target, bow, aims, wait, attacks>>
    BY <1>4, Zenon DEF GoalStops, world
  <2>2. using' \in BOOLEAN /\ item' \in {"none", "aim", "other"} /\ AimIsRemembered'
    <3>1. CASE g = "ranged"
      <4>1. Lower
        BY <1>4, <3>1, Zenon DEF GoalStops
      <4> QED
        BY <1>i, <4>1, Lowered, Zenon DEF AimIsRemembered
    <3>2. CASE g # "ranged"
      <4>1. using' = using /\ item' = item
        BY <1>4, <3>2, Zenon DEF GoalStops
      <4>2. "ranged" \in running => "ranged" \in running'
        BY <2>1, <3>2
      <4> QED
        BY <1>i, <4>1, <4>2, Zenon DEF TypeOK, AimIsRemembered
    <3> QED
      BY <3>1, <3>2
  <2>3. TypeOK'
    BY <1>i, <2>1, <2>2 DEF TypeOK
  <2> QED
    BY <1>truce, <2>1, <2>2, <2>3 DEF SwitchInv
<1>5. ASSUME AskRanged PROVE SwitchInv'
  <2>1. using' = FALSE /\ item' \in {"none", "aim", "other"} /\ item' # "aim"
    BY <1>5, <1>i, Lowered DEF AskRanged
  <2>2. UNCHANGED <<off, goals, running, path, target, bow, aims, wait, attacks>>
    BY <1>5 DEF AskRanged, world
  <2>3. TypeOK'
    BY <1>i, <2>1, <2>2 DEF TypeOK
  <2>4. AimIsRemembered'
    BY <2>1, Zenon DEF AimIsRemembered
  <2> QED
    BY <1>truce, <2>2, <2>3, <2>4 DEF SwitchInv
<1>6. ASSUME MeleeTick PROVE SwitchInv'
  <2>1. UNCHANGED <<off, goals, running, using, item, path, target, bow, aims>>
    BY <1>6 DEF MeleeTick, world
  <2>2. wait' \in 0..Delay
    BY <1>6, <1>i, DelayAssumption DEF MeleeTick, TypeOK
  <2>3. attacks' \in {attacks, attacks \union {"strike"}} /\ (off => attacks' = attacks)
    BY <1>6, Zenon DEF MeleeTick
  <2>4. TypeOK'
    BY <1>i, <2>1, <2>2, <2>3 DEF TypeOK, Attacks
  <2>5. AimIsRemembered' /\ OffMeansNoAttack'
    BY <1>i, <2>1, <2>3 DEF AimIsRemembered, OffMeansNoAttack
  <2> QED
    BY <2>4, <2>5 DEF SwitchInv
<1>7. ASSUME RangedTick PROVE SwitchInv'
  <2>1. "ranged" \in running
        /\ UNCHANGED <<off, goals, running, path, target, bow, aims, wait, attacks>>
    BY <1>7 DEF RangedTick, world
  <2>2. /\ using' \in BOOLEAN
        /\ item' \in {"none", "aim", "other"}
        /\ item' = "aim" => using'
    BY <1>7, <1>i, TickStartKeeps DEF RangedTick
  <2>3. TypeOK'
    BY <1>i, <2>1, <2>2 DEF TypeOK
  <2>4. AimIsRemembered'
    BY <2>1, <2>2 DEF AimIsRemembered
  <2> QED
    BY <1>truce, <2>1, <2>3, <2>4 DEF SwitchInv
<1>8. ASSUME RangedTickFires PROVE SwitchInv'
  <2>1. using' = FALSE
        /\ UNCHANGED <<off, goals, running, path, target, bow, aims, wait>>
    BY <1>8, Zenon DEF RangedTickFires, world
  <2>2. item' \in {"none", "aim", "other"} /\ item' # "aim"
    BY <1>8, <1>i, Zenon DEF RangedTickFires, TypeOK, AimIsRemembered
  <2>3. attacks' \in {attacks, attacks \union {"shot"}} /\ (off => attacks' = attacks)
    BY <1>8, Zenon DEF RangedTickFires, Shot
  <2>4. TypeOK'
    BY <1>i, <2>1, <2>2, <2>3 DEF TypeOK, Attacks
  <2>5. AimIsRemembered'
    BY <2>1, <2>2, Zenon DEF AimIsRemembered
  <2>6. OffMeansNoAttack'
    BY <1>i, <2>1, <2>3 DEF OffMeansNoAttack
  <2> QED
    BY <2>4, <2>5, <2>6 DEF SwitchInv
<1>9. ASSUME AnimatedTick PROVE SwitchInv'
  <2>1. ~off /\ attacks' = attacks \union {"combo"}
        /\ UNCHANGED <<off, goals, running, using, item, path, target, bow, aims, wait>>
    BY <1>9 DEF AnimatedTick, world
  <2>2. TypeOK'
    BY <1>i, <2>1 DEF TypeOK, Attacks
  <2>3. AimIsRemembered' /\ OffMeansNoAttack'
    BY <1>i, <2>1 DEF AimIsRemembered, OffMeansNoAttack
  <2> QED
    BY <2>2, <2>3 DEF SwitchInv
<1>10. ASSUME ChasingTick PROVE SwitchInv'
  <2>1. path' \in {"none", "chase"}
    BY <1>10, Zenon DEF ChasingTick
  <2>2. UNCHANGED <<off, goals, running, using, item, target, bow, aims, wait, attacks>>
    BY <1>10 DEF ChasingTick, world
  <2>3. TypeOK' /\ AimIsRemembered'
    BY <1>i, <2>1, <2>2 DEF TypeOK, AimIsRemembered
  <2> QED
    BY <1>truce, <2>2, <2>3 DEF SwitchInv
<1>11. ASSUME WorldChanges PROVE SwitchInv'
  <2>1. target' \in BOOLEAN /\ bow' \in BOOLEAN /\ aims' \in BOOLEAN
        /\ item' \in {"none", item}
        /\ UNCHANGED <<off, goals, running, using, path, wait, attacks>>
    BY <1>11, Zenon DEF WorldChanges
  <2>2. TypeOK' /\ AimIsRemembered'
    BY <1>i, <2>1 DEF TypeOK, AimIsRemembered
  <2> QED
    BY <1>truce, <2>1, <2>2 DEF SwitchInv
<1>12. ASSUME OthersAct PROVE SwitchInv'
  <2>1. item' \in {"none", "other", item} /\ path' \in {path, "none", "other"}
        /\ UNCHANGED <<off, goals, running, using, target, bow, aims, wait, attacks>>
    BY <1>12 DEF OthersAct, world
  <2>2. TypeOK' /\ AimIsRemembered'
    BY <1>i, <2>1 DEF TypeOK, AimIsRemembered
  <2> QED
    BY <1>truce, <2>1, <2>2 DEF SwitchInv
<1>13. ASSUME NewPatch PROVE SwitchInv'
  <2>1. UNCHANGED <<off, using, item, target, bow, aims, wait, attacks>>
    BY <1>13 DEF NewPatch, world
  <2>2. /\ goals' \in SUBSET Goals /\ running' \in SUBSET goals'
        /\ path' \in {"none", "chase", "other"}
        /\ "ranged" \in running => "ranged" \in running'
    BY <1>13, <1>i, RenewKeeps DEF NewPatch
  <2>3. TypeOK' /\ AimIsRemembered'
    BY <1>i, <2>1, <2>2 DEF TypeOK, AimIsRemembered
  <2> QED
    BY <1>truce, <2>1, <2>3 DEF SwitchInv
<1>14. CASE UNCHANGED vars
  BY <1>14, <1>i DEF vars, world, SwitchInv, TypeOK, AimIsRemembered, OffMeansNoAttack
<1> QED
  BY <1>1, <1>2, <1>3, <1>4, <1>5, <1>6, <1>7, <1>8, <1>9, <1>10, <1>11, <1>12, <1>13, <1>14
  DEF Next

(* Types, the remembered bow and the truce are invariants together. *)
THEOREM SwitchInvariant == Spec => []SwitchInv
<1> QED
  BY InitSwitchInv, SwitchStep, PTL DEF Spec

(* The switch, the goals and what they hold keep their types. *)
THEOREM SwitchTypes == Spec => []TypeOK
<1>1. SwitchInv => TypeOK
  BY DEF SwitchInv
<1> QED
  BY <1>1, SwitchInvariant, PTL

(* A bow that the ranged goal raised is never forgotten: its flag is set   *)
(* and the goal runs, so that one of the goal's hooks will lower it.       *)
THEOREM BowIsRemembered == Spec => []AimIsRemembered
<1>1. SwitchInv => AimIsRemembered
  BY DEF SwitchInv
<1> QED
  BY <1>1, SwitchInvariant, PTL

(* No goal makes an attack while the attack AI is off, whatever was        *)
(* running when it was turned off.                                         *)
THEOREM SwitchKeepsTruce == Spec => []OffMeansNoAttack
<1>1. SwitchInv => OffMeansNoAttack
  BY DEF SwitchInv
<1> QED
  BY <1>1, SwitchInvariant, PTL

===============================================================================
