---------------------------- MODULE ScriptedDamage ----------------------------
(***************************************************************************)
(* The damage of scripted animations (MixinEntityNpcInterface): a script   *)
(* plays an Epic Fight animation on an NPC (playEFAnimation), which arms   *)
(* the NPC with the contact times of the animation; each tick of the NPC   *)
(* tries a hit for every contact time the animation player has passed.     *)
(*                                                                         *)
(* One NPC on the server, one thread.  The loop of a tick is taken apart   *)
(* because a hit runs scripts (events of the attack), which may play       *)
(* another animation, change the switch or the NPC's patch, and so change  *)
(* the fields the loop is reading.                                         *)
(*                                                                         *)
(* Times are whole fortieths of a second; a tick is two of them.           *)
(***************************************************************************)
EXTENDS Integers, Sequences

CONSTANTS
  Anims,   \* animations
  NoAnim,  \* no animation
  Phases,  \* [Anims -> Seq(Nat)]: contact times of an AttackAnimation's
           \* phases; empty for other animations
  Total    \* [Anims -> Nat]: length

(* Epic Fight lists the phases of an attack in order. *)
ASSUME AnimsAssumption ==
  /\ NoAnim \notin Anims
  /\ Phases \in [Anims -> Seq(Nat)]
  /\ Total \in [Anims -> Nat]
  /\ \A a \in Anims : \A i, j \in DOMAIN Phases[a] :
       i <= j => Phases[a][i] <= Phases[a][j]

Step == 2
Shortest == 4

-----------------------------------------------------------------------------
(* The contact times armed for animation a: those of its phases, or half   *)
(* its length (rounded up: a whole time reaches it when it reaches that).  *)
TriggerTimes(a) ==
  LET total == IF Total[a] < Shortest THEN Shortest ELSE Total[a]
  IN IF Phases[a] # <<>> THEN Phases[a] ELSE <<(total + 1) \div 2>>

VARIABLES
  armed,      \* scriptedDamageAnimation
  times,      \* scriptedDamageTriggerTimes
  next,       \* nextScriptedDamageIndex
  enabled,    \* isEFAnimationDamageEnabled()
  patched,    \* the NPC has an entity patch
  play,       \* the animation player of the patch
  pc,         \* "out" of the loop, in the "loop", or in a "hit" of the loop
  elapsed,    \* the tick's local variable of that name
  left,       \* the player of this tick is the current one ("no"), or was
              \* replaced with its patch while "running" or "ended"
  tried,      \* history: contacts tried since the NPC was armed
  nested,     \* history: it was armed from within a hit
  disturbed,  \* history: during this tick's hits another play began
  over        \* history: a tick has called off what was armed

fields == <<armed, times, next>>
history == <<tried, nested, disturbed, over>>
vars == <<fields, enabled, patched, play, pc, elapsed, left, history>>

Nothing(ended) == [anim |-> NoAnim, elapsed |-> 0, ended |-> ended]
Start(a) == [anim |-> a, elapsed |-> 0, ended |-> FALSE]

TypeOK ==
  /\ armed \in Anims \union {NoAnim}
  /\ times \in Seq(Nat)
  /\ next \in Nat
  /\ enabled \in BOOLEAN
  /\ patched \in BOOLEAN
  /\ play \in [anim : Anims \union {NoAnim}, elapsed : Nat, ended : BOOLEAN]
  /\ pc \in {"out", "loop", "hit"}
  /\ elapsed \in Nat
  /\ left \in {"no", "running", "ended"}
  /\ tried \in Seq(Nat)
  /\ nested \in BOOLEAN
  /\ disturbed \in BOOLEAN
  /\ over \in BOOLEAN

-----------------------------------------------------------------------------
(* Scripts run between ticks and inside a hit.                             *)

ScriptsRun == pc \in {"out", "hit"}

(* Mistake: the index is left where the animation before had got to. *)
ArmKeepsIndex(a) ==
  /\ armed' = a
  /\ times' = TriggerTimes(a)
  /\ next' = next
  /\ tried' = <<>>
  /\ nested' = (pc = "hit")
  /\ over' = FALSE

(* armScriptedAnimationDamage of an animation that exists. *)
Arm(a) ==
  /\ armed' = a
  /\ times' = TriggerTimes(a)
  /\ next' = 0
  /\ tried' = <<>>
  /\ nested' = (pc = "hit")
  /\ over' = FALSE

(* playEFAnimation: it is played, and armed if the switch is on. *)
PlayEFAnimation(a) ==
  /\ ScriptsRun
  /\ patched
  /\ play' = Start(a)
  /\ IF enabled THEN Arm(a) ELSE UNCHANGED <<fields, tried, nested, over>>
  /\ disturbed' = (pc = "hit")
  /\ UNCHANGED <<enabled, patched, pc, elapsed, left>>

SetEFAnimationDamageEnabled(b) ==
  /\ ScriptsRun
  /\ enabled' = b
  /\ UNCHANGED <<fields, patched, play, pc, elapsed, left, history>>

(* The NPC is given a patch (updateModelCap), or has lost it. *)
ReplacePatch(b) ==
  /\ ScriptsRun
  /\ patched' = b
  /\ play' = Nothing(FALSE)
  /\ left' = IF pc = "hit" /\ left = "no"
             THEN IF play.ended THEN "ended" ELSE "running"
             ELSE left
  /\ disturbed' = (pc = "hit")
  /\ UNCHANGED <<fields, enabled, pc, elapsed, tried, nested, over>>

-----------------------------------------------------------------------------
(* Epic Fight's server animator.                                           *)

(* Once a tick, before the NPC's own tick. *)
AnimatorTick ==
  LET reached == play.elapsed + Step
      last == reached >= Total[play.anim]
  IN /\ pc = "out"
     /\ play.anim # NoAnim
     /\ ~play.ended
     /\ play' = [anim    |-> play.anim,
                 elapsed |-> IF last THEN Total[play.anim] ELSE reached,
                 ended   |-> last]
     /\ UNCHANGED <<fields, enabled, patched, pc, elapsed, left, history>>

(* Another animation begins: one of the NPC's own attacks, the same again, *)
(* or its reaction to being hurt, perhaps in return for the hit.           *)
AnimatorTurnsTo(p) ==
  /\ ScriptsRun
  /\ patched
  /\ play' = p
  /\ disturbed' = (pc = "hit")
  /\ UNCHANGED <<fields, enabled, patched, pc, elapsed, left, tried, nested, over>>

-----------------------------------------------------------------------------
(* tickScriptedAnimationDamage.                                            *)

(* Mistake: the index is put before the first contact. *)
ResetToHead ==
  /\ armed' = NoAnim
  /\ times' = <<>>
  /\ next' = -1

(* resetScriptedAnimationDamage *)
Reset ==
  /\ armed' = NoAnim
  /\ times' = <<>>
  /\ next' = 0

CallOff == over' = TRUE /\ tried' = <<>> /\ nested' = FALSE

(* The switch is off, the patch is gone, or another animation has ended. *)
Obsolete ==
  \/ ~enabled
  \/ ~patched
  \/ play.anim # armed /\ play.ended

(* Mistake: what is armed is not dropped with the switch. *)
TickCallsOffLazily ==
  /\ pc = "out"
  /\ armed # NoAnim
  /\ Obsolete
  /\ IF enabled THEN Reset ELSE UNCHANGED fields
  /\ CallOff
  /\ UNCHANGED <<enabled, patched, play, pc, elapsed, left, disturbed>>

TickCallsOff ==
  /\ pc = "out"
  /\ armed # NoAnim
  /\ Obsolete
  /\ Reset
  /\ CallOff
  /\ UNCHANGED <<enabled, patched, play, pc, elapsed, left, disturbed>>

(* Mistake: whatever animation is being played is taken for the armed one. *)
TickEntersLoopAny ==
  /\ pc = "out"
  /\ armed # NoAnim
  /\ ~Obsolete
  /\ pc' = "loop"
  /\ elapsed' = play.elapsed
  /\ left' = "no"
  /\ disturbed' = FALSE
  /\ UNCHANGED <<fields, enabled, patched, play, tried, nested, over>>

(* The armed animation is being played. *)
TickEntersLoop ==
  /\ pc = "out"
  /\ armed # NoAnim
  /\ ~Obsolete
  /\ play.anim = armed
  /\ pc' = "loop"
  /\ elapsed' = play.elapsed
  /\ left' = "no"
  /\ disturbed' = FALSE
  /\ UNCHANGED <<fields, enabled, patched, play, tried, nested, over>>

(* Mistake: a contact is due only after its time. *)
DueLate == next < Len(times) /\ elapsed > times[next + 1]

Due == next < Len(times) /\ elapsed >= times[next + 1]

(* performScriptedAnimationHit without doHurtTarget: no living target, not *)
(* in reach or sight, or Epic Fight's own attack has met someone.          *)
TryMisses ==
  /\ pc = "loop"
  /\ Due
  /\ next' = next + 1
  /\ tried' = Append(tried, next + 1)
  /\ UNCHANGED <<armed, times, enabled, patched, play, pc, elapsed, left,
                 nested, disturbed, over>>

(* performScriptedAnimationHit up to the events of doHurtTarget ... *)
TryHits ==
  /\ pc = "loop"
  /\ Due
  /\ pc' = "hit"
  /\ tried' = Append(tried, next + 1)
  /\ UNCHANGED <<fields, enabled, patched, play, elapsed, left, nested,
                 disturbed, over>>

(* ... and its return to the loop, which moves on the index it finds. *)
HitReturns ==
  /\ pc = "hit"
  /\ pc' = "loop"
  /\ next' = next + 1
  /\ UNCHANGED <<armed, times, enabled, patched, play, elapsed, left, history>>

(* Mistake: the loop spins on a contact that is not due yet. *)
LoopEndsAll ==
  /\ pc = "loop"
  /\ ~Due
  /\ IF next < Len(times) THEN UNCHANGED vars
     ELSE /\ pc' = "out"
          /\ UNCHANGED <<fields, enabled, patched, play, elapsed, left, history>>

(* The loop is done; the end of the player also disarms. *)
LoopEnds ==
  /\ pc = "loop"
  /\ ~Due
  /\ pc' = "out"
  /\ IF left = "ended" \/ (left = "no" /\ play.ended)
     THEN Reset /\ CallOff
     ELSE UNCHANGED <<fields, tried, nested, over>>
  /\ UNCHANGED <<enabled, patched, play, elapsed, left, disturbed>>

-----------------------------------------------------------------------------
Init ==
  /\ armed = NoAnim
  /\ times = <<>>
  /\ next = 0
  /\ enabled \in BOOLEAN
  /\ patched \in BOOLEAN
  /\ play = Nothing(FALSE)
  /\ pc = "out"
  /\ elapsed = 0
  /\ left = "no"
  /\ tried = <<>>
  /\ nested = FALSE
  /\ disturbed = FALSE
  /\ over = FALSE

LoopStep == TryMisses \/ TryHits \/ HitReturns \/ LoopEnds

Plays == {Start(a) : a \in Anims} \union {Nothing(b) : b \in BOOLEAN}

Next ==
  \/ \E a \in Anims : PlayEFAnimation(a)
  \/ \E b \in BOOLEAN : SetEFAnimationDamageEnabled(b) \/ ReplacePatch(b)
  \/ AnimatorTick
  \/ \E p \in Plays : AnimatorTurnsTo(p)
  \/ TickCallsOff
  \/ TickEntersLoop
  \/ LoopStep

Spec == Init /\ [][Next]_vars

(* Inside a tick the thread goes on: a hit returns, the loop continues. *)
FairSpec == Spec /\ WF_vars(LoopStep)

-----------------------------------------------------------------------------
(* Properties.                                                             *)

(* Contacts left out at the head of the list: the index a loop moves on    *)
(* after a hit that armed anew is the new one.                             *)
Skipped == IF nested THEN 1 ELSE 0

(* However plays, interruptions, switches and nested scripts follow each   *)
(* other, arming an animation gives each of its contacts one try at most,  *)
(* in their order, beginning with the first (with the second, if it was    *)
(* armed from within a hit), and a try finds its animation: the loop never *)
(* dereferences a null one.                                                *)
EachContactOnce ==
  /\ \A i \in DOMAIN tried : tried[i] = i + Skipped
  /\ armed # NoAnim => Len(tried) + Skipped <= Len(TriggerTimes(armed))
  /\ pc = "loop" /\ Due => armed # NoAnim

(* What a tick has called off stays off: no contact of it is tried later,  *)
(* although the switch may come back on and the animation may be played    *)
(* again by the NPC itself.                                                *)
CalledOffStaysOff == over => tried = <<>>

(* A tick that leaves the loop has tried every contact the armed animation *)
(* has reached: those of its phases, or half its length if it has none and *)
(* lasts a tick or more.  Unless it was armed from within a hit.           *)
Reached(a, i) ==
  \/ Phases[a] # <<>> /\ Phases[a][i] <= elapsed
  \/ Phases[a] = <<>> /\ elapsed >= Step /\ 2 * elapsed >= Total[a]

NoContactLeftOut ==
  [][LoopEnds /\ ~nested =>
       \A i \in 1..(IF Phases[armed] # <<>> THEN Len(Phases[armed]) ELSE 1) :
         Reached(armed, i) => \E n \in DOMAIN tried : tried[n] = i]_vars

(* A contact is tried only while its animation is being played and has     *)
(* reached it, by the player itself and not by what the loop remembers of  *)
(* it; unless scripts or the target's answer began another play during     *)
(* this tick's hits.                                                       *)
NoContactEarly ==
  [][(TryMisses \/ TryHits) /\ ~disturbed =>
       /\ play.anim = armed
       /\ play.elapsed >= TriggerTimes(armed)[next + 1]]_vars

(* A tick comes to its end, unless scripts keep arming from within its     *)
(* hits: then the loop need not end, since its elapsed time stays.         *)
NestedArm == pc = "hit" /\ enabled /\ \E a \in Anims : PlayEFAnimation(a)

TickEnds ==
  <>[][~NestedArm]_vars => (pc # "out" ~> pc = "out")

===============================================================================
