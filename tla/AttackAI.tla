------------------------------- MODULE AttackAI -------------------------------
(***************************************************************************)
(* The attack AI switch of an NPC (isEFAttackAIDisabled) and the goals it  *)
(* reaches into: CNPC's melee and ranged attack, Epic Fight's animated     *)
(* attack and its chasing of a target.  The switch is turned by scripts    *)
(* and by the editor at any time, while goals run; the ranged goal also    *)
(* raises the NPC's bow (isCurrentlyUsingItem) and has to lower it.        *)
(*                                                                         *)
(* One NPC on the server, one thread.  Minecraft's goal selector starts,   *)
(* ticks and stops goals; here it takes any of them in any order, which    *)
(* leaves out its priorities and its counting of ticks.                    *)
(***************************************************************************)
EXTENDS Naturals

CONSTANT Delay  \* stats.melee.getDelay(), in ticks of the melee goal

ASSUME DelayAssumption == Delay \in Nat

Npc == {"melee", "ranged"}
EpicFight == {"animated", "chasing"}
Goals == Npc \union EpicFight

VARIABLES
  off,        \* isEFAttackAIDisabled()
  goals,      \* goals the selector has
  running,    \* goals that have been started and not stopped
  using,      \* isCurrentlyUsingItem, of the ranged goal
  item,       \* the item in use: none, raised by that goal to "aim", or by
              \* something else ("other")
  path,       \* the navigation: none, begun by the chasing goal, or other
  target,     \* the NPC has a target
  bow,        \* its main hand holds a bow or a crossbow
  aims,       \* stats.ranged.getHasAimAnimation()
  wait,       \* attackTick of the melee goal
  attacks     \* history: kinds of attack made since the switch last changed

world == <<target, bow, aims>>
vars == <<off, goals, running, using, item, path, world, wait, attacks>>

Attacks == {"strike", "shot", "combo"}

TypeOK ==
  /\ off \in BOOLEAN
  /\ goals \in SUBSET Goals
  /\ running \in SUBSET goals
  /\ using \in BOOLEAN
  /\ item \in {"none", "aim", "other"}
  /\ path \in {"none", "chase", "other"}
  /\ target \in BOOLEAN
  /\ bow \in BOOLEAN
  /\ aims \in BOOLEAN
  /\ wait \in 0..Delay
  /\ attacks \in SUBSET Attacks

-----------------------------------------------------------------------------
(* The switch, and what is done to it.                                     *)

(* A new patch joins the world: Epic Fight takes the goals of the old one  *)
(* away, which stops them, and may add its own again.                      *)
Renew ==
  /\ goals' \in {Npc, Goals}
  /\ running' = running \ EpicFight
  /\ path' = IF "chasing" \in running THEN "none" ELSE path

(* With a model the NPC gets a new patch, once the switch is set. *)
SetEFAttackAIDisabled(b) ==
  /\ off' = b
  /\ attacks' = {}
  /\ Renew \/ UNCHANGED <<goals, running, path>>
  /\ UNCHANGED <<using, item, world, wait>>

(* A new model: the NPC gets a new patch, whatever its switch says. *)
NewPatch ==
  /\ Renew
  /\ UNCHANGED <<off, using, item, world, wait, attacks>>

(* stopUsingItem with the flag, if the flag is set: whatever is in use. *)
Lower ==
  /\ using' = FALSE
  /\ item' = IF using THEN "none" ELSE item

(* Mistake: the goals that run are forgotten and not stopped. *)
AddRegularEntriesForget(humanoid) ==
  /\ goals' \in IF ~humanoid THEN {Npc, Goals}
                ELSE IF off \/ bow THEN {Npc}
                ELSE {Goals}
  /\ UNCHANGED <<off, running, using, item, path, world, wait, attacks>>

(* The NPC's goals are set up anew: a humanoid patch gets Epic Fight's     *)
(* goals, unless the attack AI is off or a bow is in the hand              *)
(* (setAIAsInfantry); another patch has them, no patch has not.  Goals     *)
(* that run are stopped.                                                   *)
AddRegularEntries(humanoid) ==
  /\ goals' \in IF ~humanoid THEN {Npc, Goals}
                ELSE IF off \/ bow THEN {Npc}
                ELSE {Goals}
  /\ running' = {}
  /\ IF "ranged" \in running THEN Lower ELSE UNCHANGED <<using, item>>
  /\ path' = "none"
  /\ UNCHANGED <<off, world, wait, attacks>>

-----------------------------------------------------------------------------
(* The selector.                                                           *)

(* canUse is hooked to fail in all goals but the chasing one; where it is  *)
(* not hooked the goal decides.                                            *)
CanUse(g) == off => g = "chasing"

GoalStarts(g) ==
  /\ g \in goals \ running
  /\ CanUse(g)
  /\ running' = running \union {g}
  /\ UNCHANGED <<off, goals, using, item, path, world, wait, attacks>>

(* Mistake: the ranged goal stops without lowering the bow. *)
GoalStopsAiming(g) ==
  /\ g \in running
  /\ running' = running \ {g}
  /\ path' = IF g = "chasing" THEN "none" ELSE path
  /\ UNCHANGED <<off, goals, using, item, world, wait, attacks>>

(* Goals stop for their own reasons, and melee in any case when the switch *)
(* is off (canContinueToUse).  The chasing goal stops its navigation.      *)
GoalStops(g) ==
  /\ g \in running
  /\ running' = running \ {g}
  /\ IF g = "ranged" THEN Lower ELSE UNCHANGED <<using, item>>
  /\ path' = IF g = "chasing" THEN "none" ELSE path
  /\ UNCHANGED <<off, goals, world, wait, attacks>>

(* The ranged goal is asked canUse, perhaps to see if it may continue. *)
AskRanged ==
  /\ "ranged" \in goals
  /\ off
  /\ using
  /\ Lower
  /\ UNCHANGED <<off, goals, running, path, world, wait, attacks>>

-----------------------------------------------------------------------------
(* Ticks of goals that run.                                                *)

(* Melee: the strike that is due is cancelled when the switch is off.  In  *)
(* both cases the next one is a delay away.                                *)
MeleeTick ==
  /\ "melee" \in running
  /\ \/ /\ wait > 0
        /\ wait' = wait - 1
        /\ attacks' = attacks
     \/ /\ wait = 0
        /\ wait' = Delay
        /\ attacks' = IF off THEN attacks ELSE attacks \union {"strike"}
  /\ UNCHANGED <<off, goals, running, using, item, path, world>>

Raise ==
  /\ using' = TRUE
  /\ item' = IF item = "none" THEN "aim" ELSE item

(* onTickStart: startUsingItem does nothing if an item is in use, and the  *)
(* flag is set all the same.                                               *)
TickStart ==
  CASE off                                     -> Lower
    [] ~off /\ aims /\ target /\ ~using /\ bow -> Raise
    [] ~off /\ aims /\ ~target /\ using        -> Lower
    [] OTHER -> UNCHANGED <<using, item>>

RangedTick ==
  /\ "ranged" \in running
  /\ TickStart
  /\ UNCHANGED <<off, goals, running, path, world, wait, attacks>>

(* Mistake: the shot is fired whatever the switch says. *)
ShotAlways == attacks \union {"shot"}

(* redirectRangedAttack *)
Shot == IF off THEN attacks ELSE attacks \union {"shot"}

(* A tick that comes to the shot: after the above, onFireRangedAttack      *)
(* lowers the bow, be it the one that was raised a moment ago.             *)
RangedTickFires ==
  /\ "ranged" \in running
  /\ using' = FALSE
  /\ item' = IF using \/ (~off /\ aims /\ target /\ bow) THEN "none" ELSE item
  /\ attacks' = Shot
  /\ UNCHANGED <<off, goals, running, path, world, wait>>

AnimatedTick ==
  /\ "animated" \in running
  /\ ~off
  /\ attacks' = attacks \union {"combo"}
  /\ UNCHANGED <<off, goals, running, using, item, path, world, wait>>

(* Mistake: the tick is cancelled and the navigation goes on. *)
ChasingTickCancelled ==
  /\ "chasing" \in running
  /\ ~off
  /\ path' = "chase"
  /\ UNCHANGED <<off, goals, running, using, item, world, wait, attacks>>

ChasingTick ==
  /\ "chasing" \in running
  /\ path' = IF off THEN "none" ELSE "chase"
  /\ UNCHANGED <<off, goals, running, using, item, world, wait, attacks>>

-----------------------------------------------------------------------------
(* The rest of the NPC's life: its target, weapon and stats change; items  *)
(* are used and put down, paths are begun and ended by others.             *)
WorldChanges ==
  /\ target' \in BOOLEAN
  /\ bow' \in BOOLEAN
  /\ aims' \in BOOLEAN
  /\ item' \in IF bow' = bow THEN {item} ELSE {"none", item} \ {"aim"}
  /\ UNCHANGED <<off, goals, running, using, path, wait, attacks>>

OthersAct ==
  /\ \/ item = "none" /\ item' \in {"none", "other"}
     \/ item # "none" /\ item' \in {"none", item}
  /\ path' \in {path, "none", "other"}
  /\ UNCHANGED <<off, goals, running, using, world, wait, attacks>>

-----------------------------------------------------------------------------
Init ==
  /\ off \in BOOLEAN
  /\ goals = Npc
  /\ running = {}
  /\ using = FALSE
  /\ item = "none"
  /\ path = "none"
  /\ target \in BOOLEAN
  /\ bow \in BOOLEAN
  /\ aims \in BOOLEAN
  /\ wait = 0
  /\ attacks = {}

Next ==
  \/ \E b \in BOOLEAN : SetEFAttackAIDisabled(b) \/ AddRegularEntries(b)
  \/ NewPatch
  \/ \E g \in Goals : GoalStarts(g) \/ GoalStops(g)
  \/ AskRanged
  \/ MeleeTick
  \/ RangedTick
  \/ RangedTickFires
  \/ AnimatedTick
  \/ ChasingTick
  \/ WorldChanges
  \/ OthersAct

Spec == Init /\ [][Next]_vars

(* The selector ticks a goal that runs. *)
FairSpec ==
  /\ Spec
  /\ WF_vars(RangedTick \/ RangedTickFires)
  /\ WF_vars(ChasingTick)

-----------------------------------------------------------------------------
(* Properties.                                                             *)

(* The bow is not forgotten: an item the ranged goal raised to aim, and    *)
(* that is still in use, is one its flag remembers, and the goal that      *)
(* remembers is running, so that one of its hooks will lower it.           *)
AimIsRemembered ==
  /\ item = "aim" => using
  /\ using => "ranged" \in running

(* Whichever goals were running when the switch was turned off, none of    *)
(* them strikes, shoots or plays a combo until it is turned on.            *)
OffMeansNoAttack == off => attacks = {}

(* An NPC whose switch stays off comes to lower its bow and to end its     *)
(* chase, though its ranged and its chasing goal may run on.               *)
OffComesToRest == <>[]off => <>[](item # "aim" /\ path # "chase")

===============================================================================
