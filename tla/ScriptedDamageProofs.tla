------------------------- MODULE ScriptedDamageProofs -------------------------
(***************************************************************************)
(* What ScriptedDamage guarantees for every set of animations, phases and  *)
(* lengths.  All of it follows from one inductive invariant, LoopInv, that *)
(* ties the index of the next contact to the contacts tried so far.        *)
(***************************************************************************)
EXTENDS ScriptedDamage, TLAPS, SequenceTheorems

(* The armed times are those of the armed animation; outside a hit the     *)
(* index is the number of contacts done with, and inside a hit it is one   *)
(* behind.  A loop has an animation, and nothing is left of what has been  *)
(* called off.                                                             *)
IndexInv ==
  /\ times = IF armed = NoAnim THEN <<>> ELSE TriggerTimes(armed)
  /\ Len(tried) + Skipped = IF pc = "hit" THEN next + 1 ELSE next
  /\ Len(tried) + Skipped <= Len(times)
  /\ \A i \in DOMAIN tried : tried[i] = i + Skipped
  /\ pc # "out" => armed # NoAnim
  /\ over => armed = NoAnim /\ tried = <<>>

(* Undisturbed, the loop's idea of the player is the player's own. *)
LoopSeesPlayer ==
  pc # "out" /\ ~disturbed => play.anim = armed /\ play.elapsed = elapsed

LoopInv == TypeOK /\ IndexInv /\ LoopSeesPlayer

(* An animation is armed with at least one contact time, in order. *)
LEMMA TriggerTimesFacts ==
  ASSUME NEW a \in Anims
  PROVE  /\ TriggerTimes(a) \in Seq(Nat)
         /\ Len(TriggerTimes(a)) >= 1
         /\ \A i, j \in 1..Len(TriggerTimes(a)) :
              i <= j => TriggerTimes(a)[i] <= TriggerTimes(a)[j]
<1> DEFINE total == IF Total[a] < Shortest THEN Shortest ELSE Total[a]
<1>1. Total[a] \in Nat /\ Phases[a] \in Seq(Nat)
  BY AnimsAssumption
<1>2. CASE Phases[a] # <<>>
  <2>1. TriggerTimes(a) = Phases[a]
    BY <1>2 DEF TriggerTimes
  <2>2. Len(Phases[a]) >= 1
    BY <1>1, <1>2
  <2>3. \A i, j \in DOMAIN Phases[a] : i <= j => Phases[a][i] <= Phases[a][j]
    BY AnimsAssumption
  <2> QED
    BY <1>1, <2>1, <2>2, <2>3
<1>3. CASE Phases[a] = <<>>
  <2>1. TriggerTimes(a) = <<(total + 1) \div 2>>
    BY <1>3 DEF TriggerTimes
  <2>2. (total + 1) \div 2 \in Nat
    BY <1>1 DEF Shortest
  <2> HIDE DEF total
  <2> QED
    BY <2>1, <2>2
<1> QED
  BY <1>2, <1>3

LEMMA InitLoopInv == Init => LoopInv
<1> SUFFICES ASSUME Init PROVE LoopInv
  OBVIOUS
<1> USE DEF Init
<1>1. TypeOK
  <2>1. times \in Seq(Nat) /\ tried \in Seq(Nat)
    BY EmptySeq
  <2>2. play \in [anim : Anims \union {NoAnim}, elapsed : Nat, ended : BOOLEAN]
    BY DEF Nothing
  <2> QED
    BY <2>1, <2>2 DEF TypeOK
<1>2. IndexInv
  BY DEF IndexInv, Skipped
<1>3. LoopSeesPlayer
  BY DEF LoopSeesPlayer
<1> QED
  BY <1>1, <1>2, <1>3 DEF LoopInv

(* Every step keeps the types. *)
LEMMA TypeStep == TypeOK /\ [Next]_vars => TypeOK'
<1> SUFFICES ASSUME TypeOK, [Next]_vars PROVE TypeOK'
  OBVIOUS
<1> USE DEF TypeOK
<1>1. ASSUME NEW a \in Anims, PlayEFAnimation(a) PROVE TypeOK'
  <2>1. TriggerTimes(a) \in Seq(Nat)
    BY TriggerTimesFacts
  <2>2. armed' \in Anims \union {NoAnim} /\ times' \in Seq(Nat) /\ next' \in Nat
        /\ tried' \in Seq(Nat) /\ nested' \in BOOLEAN /\ over' \in BOOLEAN
    <3>1. CASE enabled
      <4>1. Arm(a)
        BY <1>1, <3>1, Zenon DEF PlayEFAnimation
      <4>2. nested' \in BOOLEAN
        BY <4>1, Zenon DEF Arm
      <4> QED
        BY <2>1, <4>1, <4>2, EmptySeq DEF Arm
    <3>2. CASE ~enabled
      BY <1>1, <3>2 DEF PlayEFAnimation, fields
    <3> QED
      BY <3>1, <3>2
  <2>3. play' \in [anim : Anims \union {NoAnim}, elapsed : Nat, ended : BOOLEAN]
    BY <1>1 DEF PlayEFAnimation, Start
  <2> QED
    BY <1>1, <2>2, <2>3 DEF PlayEFAnimation
<1>2. ASSUME NEW b \in BOOLEAN, SetEFAnimationDamageEnabled(b) PROVE TypeOK'
  BY <1>2 DEF SetEFAnimationDamageEnabled, fields, history
<1>3. ASSUME NEW b \in BOOLEAN, ReplacePatch(b) PROVE TypeOK'
  BY <1>3 DEF ReplacePatch, Nothing, fields
<1>4. ASSUME AnimatorTick PROVE TypeOK'
  <2>1. play.anim \in Anims
    BY <1>4 DEF AnimatorTick
  <2>2. Total[play.anim] \in Nat
    BY <2>1, AnimsAssumption
  <2>3. play' \in [anim : Anims \union {NoAnim}, elapsed : Nat, ended : BOOLEAN]
    BY <1>4, <2>1, <2>2 DEF AnimatorTick, Step
  <2> QED
    BY <1>4, <2>3 DEF AnimatorTick, fields, history
<1>5. ASSUME NEW p \in Plays, AnimatorTurnsTo(p) PROVE TypeOK'
  <2>1. p \in [anim : Anims \union {NoAnim}, elapsed : Nat, ended : BOOLEAN]
    <3>1. \A a \in Anims :
            Start(a) \in [anim : Anims \union {NoAnim}, elapsed : Nat, ended : BOOLEAN]
      BY DEF Start
    <3>2. \A b \in BOOLEAN :
            Nothing(b) \in [anim : Anims \union {NoAnim}, elapsed : Nat, ended : BOOLEAN]
      BY DEF Nothing
    <3>3. (\E a \in Anims : p = Start(a)) \/ (\E b \in BOOLEAN : p = Nothing(b))
      BY Zenon DEF Plays
    <3> QED
      BY <3>1, <3>2, <3>3, Zenon
  <2> QED
    BY <1>5, <2>1 DEF AnimatorTurnsTo, fields
<1>6. ASSUME TickCallsOff PROVE TypeOK'
  BY <1>6, EmptySeq DEF TickCallsOff, Reset, CallOff
<1>7. ASSUME TickEntersLoop PROVE TypeOK'
  BY <1>7 DEF TickEntersLoop, fields
<1>8. ASSUME TryMisses PROVE TypeOK'
  BY <1>8 DEF TryMisses
<1>9. ASSUME TryHits PROVE TypeOK'
  BY <1>9 DEF TryHits, fields
<1>10. ASSUME HitReturns PROVE TypeOK'
  BY <1>10 DEF HitReturns, history
<1>11. ASSUME LoopEnds PROVE TypeOK'
  <2>1. CASE left = "ended" \/ (left = "no" /\ play.ended)
    <3>1. Reset /\ CallOff
      BY <1>11, <2>1, Zenon DEF LoopEnds
    <3> QED
      BY <1>11, <3>1, EmptySeq DEF LoopEnds, Reset, CallOff
  <2>2. CASE ~(left = "ended" \/ (left = "no" /\ play.ended))
    BY <1>11, <2>2 DEF LoopEnds, fields
  <2> QED
    BY <2>1, <2>2
<1>12. CASE UNCHANGED vars
  BY <1>12 DEF vars, fields, history
<1> QED
  BY <1>1, <1>2, <1>3, <1>4, <1>5, <1>6, <1>7, <1>8, <1>9, <1>10, <1>11, <1>12
  DEF Next, LoopStep

(* The index stays in step, however a tick and the scripts alternate. *)
LEMMA IndexStep == TypeOK /\ IndexInv /\ [Next]_vars => IndexInv'
<1> SUFFICES ASSUME TypeOK, IndexInv, [Next]_vars PROVE IndexInv'
  OBVIOUS
<1>t. /\ times \in Seq(Nat) /\ tried \in Seq(Nat) /\ next \in Nat
      /\ armed \in Anims \union {NoAnim} /\ pc \in {"out", "loop", "hit"}
      /\ nested \in BOOLEAN
  BY DEF TypeOK
<1>n. NoAnim \notin Anims
  BY AnimsAssumption
(* What is armed, what was tried and where the thread is stay. *)
<1>same. ASSUME UNCHANGED <<armed, times, next, pc, tried, nested, over>>
         PROVE  IndexInv'
  BY <1>same DEF IndexInv, Skipped
(* What is armed is dropped. *)
<1>drop. ASSUME Reset, CallOff, pc' = "out"
         PROVE  IndexInv'
  BY <1>drop DEF IndexInv, Skipped, Reset, CallOff
<1>1. ASSUME NEW a \in Anims, PlayEFAnimation(a) PROVE IndexInv'
  <2>1. CASE enabled
    <3>1. /\ armed' = a /\ times' = TriggerTimes(a) /\ next' = 0
          /\ tried' = <<>> /\ over' = FALSE /\ pc' = pc
      BY <1>1, <2>1, Zenon DEF PlayEFAnimation, Arm
    <3>2. nested' <=> pc = "hit"
      BY <1>1, <2>1, Zenon DEF PlayEFAnimation, Arm
    <3>3. Len(TriggerTimes(a)) \in Nat /\ Len(TriggerTimes(a)) >= 1
      BY TriggerTimesFacts
    <3>4. a # NoAnim
      BY <1>n
    <3>5. Skipped' = IF pc = "hit" THEN 1 ELSE 0
      BY <3>2, Zenon DEF Skipped
    <3>6. tried' = <<>> /\ Len(tried') = 0 /\ DOMAIN tried' = {}
      BY <3>1
    <3> QED
      BY <3>1, <3>3, <3>4, <3>5, <3>6 DEF IndexInv
  <2>2. CASE ~enabled
    BY <1>1, <2>2, <1>same, Zenon DEF PlayEFAnimation, fields
  <2> QED
    BY <2>1, <2>2
<1>2. ASSUME NEW b \in BOOLEAN, SetEFAnimationDamageEnabled(b) PROVE IndexInv'
  BY <1>2, <1>same DEF SetEFAnimationDamageEnabled, fields, history
<1>3. ASSUME NEW b \in BOOLEAN, ReplacePatch(b) PROVE IndexInv'
  BY <1>3, <1>same DEF ReplacePatch, fields
<1>4. ASSUME AnimatorTick PROVE IndexInv'
  BY <1>4, <1>same DEF AnimatorTick, fields, history
<1>5. ASSUME NEW p \in Plays, AnimatorTurnsTo(p) PROVE IndexInv'
  BY <1>5, <1>same DEF AnimatorTurnsTo, fields
<1>6. ASSUME TickCallsOff PROVE IndexInv'
  BY <1>6, <1>drop, Zenon DEF TickCallsOff
<1>7. ASSUME TickEntersLoop PROVE IndexInv'
  BY <1>7 DEF TickEntersLoop, fields, IndexInv, Skipped
<1>8. ASSUME TryMisses PROVE IndexInv'
  <2>1. /\ pc = "loop" /\ next < Len(times) /\ next' = next + 1
        /\ tried' = Append(tried, next + 1)
        /\ UNCHANGED <<armed, times, pc, nested, over>>
    BY <1>8 DEF TryMisses, Due
  <2> QED
    BY <1>t, <2>1 DEF IndexInv, Skipped
<1>9. ASSUME TryHits PROVE IndexInv'
  <2>1. /\ pc = "loop" /\ next < Len(times) /\ next' = next
        /\ tried' = Append(tried, next + 1) /\ pc' = "hit"
        /\ UNCHANGED <<armed, times, nested, over>>
    BY <1>9 DEF TryHits, Due, fields
  <2> QED
    BY <1>t, <2>1 DEF IndexInv, Skipped
<1>10. ASSUME HitReturns PROVE IndexInv'
  BY <1>10, <1>t DEF HitReturns, IndexInv, Skipped, history
<1>11. ASSUME LoopEnds PROVE IndexInv'
  <2>1. CASE left = "ended" \/ (left = "no" /\ play.ended)
    BY <1>11, <2>1, <1>drop, Zenon DEF LoopEnds
  <2>2. CASE ~(left = "ended" \/ (left = "no" /\ play.ended))
    <3>1. /\ pc = "loop" /\ pc' = "out"
          /\ UNCHANGED <<armed, times, next, tried, nested, over>>
      BY <1>11, <2>2, Zenon DEF LoopEnds, fields
    <3> QED
      BY <3>1 DEF IndexInv, Skipped
  <2> QED
    BY <2>1, <2>2
<1>12. CASE UNCHANGED vars
  BY <1>12, <1>same DEF vars, fields, history
<1> QED
  BY <1>1, <1>2, <1>3, <1>4, <1>5, <1>6, <1>7, <1>8, <1>9, <1>10, <1>11, <1>12
  DEF Next, LoopStep

(* What begins another play during a hit marks the tick as disturbed. *)
LEMMA PlayerStep == TypeOK /\ LoopSeesPlayer /\ [Next]_vars => LoopSeesPlayer'
<1> SUFFICES ASSUME TypeOK, LoopSeesPlayer, [Next]_vars PROVE LoopSeesPlayer'
  OBVIOUS
<1>t. pc \in {"out", "loop", "hit"}
  BY DEF TypeOK
<1>same. ASSUME UNCHANGED <<armed, play, elapsed, disturbed>>,
                pc' = "out" \/ pc # "out"
         PROVE  LoopSeesPlayer'
  BY <1>same DEF LoopSeesPlayer
(* Scripts and Epic Fight begin a play outside a tick, or in a hit. *)
<1>begun. ASSUME ScriptsRun, pc' = pc, disturbed' = (pc = "hit")
          PROVE  LoopSeesPlayer'
  BY <1>begun, Zenon DEF LoopSeesPlayer, ScriptsRun
<1>1. ASSUME NEW a \in Anims, PlayEFAnimation(a) PROVE LoopSeesPlayer'
  BY <1>1, <1>begun, Zenon DEF PlayEFAnimation
<1>2. ASSUME NEW b \in BOOLEAN, SetEFAnimationDamageEnabled(b) PROVE LoopSeesPlayer'
  BY <1>2 DEF SetEFAnimationDamageEnabled, fields, history, LoopSeesPlayer
<1>3. ASSUME NEW b \in BOOLEAN, ReplacePatch(b) PROVE LoopSeesPlayer'
  BY <1>3, <1>begun, Zenon DEF ReplacePatch
<1>4. ASSUME AnimatorTick PROVE LoopSeesPlayer'
  BY <1>4 DEF AnimatorTick, LoopSeesPlayer
<1>5. ASSUME NEW p \in Plays, AnimatorTurnsTo(p) PROVE LoopSeesPlayer'
  BY <1>5, <1>begun, Zenon DEF AnimatorTurnsTo
<1>6. ASSUME TickCallsOff PROVE LoopSeesPlayer'
  BY <1>6 DEF TickCallsOff, LoopSeesPlayer
<1>7. ASSUME TickEntersLoop PROVE LoopSeesPlayer'
  BY <1>7 DEF TickEntersLoop, fields, LoopSeesPlayer
<1>8. ASSUME TryMisses PROVE LoopSeesPlayer'
  BY <1>8, <1>same DEF TryMisses
<1>9. ASSUME TryHits PROVE LoopSeesPlayer'
  BY <1>9, <1>same DEF TryHits, fields
<1>10. ASSUME HitReturns PROVE LoopSeesPlayer'
  BY <1>10, <1>same DEF HitReturns, history
<1>11. ASSUME LoopEnds PROVE LoopSeesPlayer'
  <2>1. pc' = "out"
    BY <1>11 DEF LoopEnds
  <2> QED
    BY <2>1 DEF LoopSeesPlayer
<1>12. CASE UNCHANGED vars
  BY <1>12 DEF vars, fields, history, LoopSeesPlayer
<1> QED
  BY <1>1, <1>2, <1>3, <1>4, <1>5, <1>6, <1>7, <1>8, <1>9, <1>10, <1>11, <1>12
  DEF Next, LoopStep

(* LoopInv is inductive. *)
THEOREM LoopInvariant == Spec => []LoopInv
<1>1. Init => LoopInv
  BY InitLoopInv
<1>2. LoopInv /\ [Next]_vars => LoopInv'
  BY TypeStep, IndexStep, PlayerStep DEF LoopInv
<1> QED
  BY <1>1, <1>2, PTL DEF Spec

(* The controller's fields and the animation player keep their types: the  *)
(* index of the next contact never leaves the naturals.                    *)
THEOREM LoopTypes == Spec => []TypeOK
<1>1. LoopInv => TypeOK
  BY DEF LoopInv
<1> QED
  BY <1>1, LoopInvariant, PTL

(* Each contact of what is armed is tried once at most, in order, and with *)
(* an animation (performScriptedAnimationHit dereferences it), for all     *)
(* animations and any nesting of scripts.                                  *)
THEOREM ContactsTriedOnce == Spec => []EachContactOnce
<1>1. LoopInv => EachContactOnce
  <2> SUFFICES ASSUME LoopInv PROVE EachContactOnce
    OBVIOUS
  <2>1. \A i \in DOMAIN tried : tried[i] = i + Skipped
    BY DEF LoopInv, IndexInv
  <2>2. armed # NoAnim => Len(tried) + Skipped <= Len(TriggerTimes(armed))
    BY DEF LoopInv, IndexInv
  <2>3. pc = "loop" /\ Due => armed # NoAnim
    BY DEF LoopInv, IndexInv
  <2> QED
    BY <2>1, <2>2, <2>3 DEF EachContactOnce
<1> QED
  BY <1>1, LoopInvariant, PTL

(* Nothing is tried of what a tick has called off. *)
THEOREM CallingOffIsFinal == Spec => []CalledOffStaysOff
<1>1. LoopInv => CalledOffStaysOff
  BY DEF LoopInv, IndexInv, CalledOffStaysOff
<1> QED
  BY <1>1, LoopInvariant, PTL

(* A contact is not tried before its animation has reached it. *)
THEOREM NoEarlyTry == Spec => NoContactEarly
<1>1. LoopInv /\ [Next]_vars =>
        [(TryMisses \/ TryHits) /\ ~disturbed =>
           /\ play.anim = armed
           /\ play.elapsed >= TriggerTimes(armed)[next + 1]]_vars
  <2> SUFFICES ASSUME LoopInv, TryMisses \/ TryHits, ~disturbed
               PROVE  /\ play.anim = armed
                      /\ play.elapsed >= TriggerTimes(armed)[next + 1]
    OBVIOUS
  <2>1. pc = "loop" /\ Due
    BY DEF TryMisses, TryHits
  <2>2. armed # NoAnim /\ times = TriggerTimes(armed)
    BY <2>1 DEF LoopInv, IndexInv
  <2>3. play.anim = armed /\ play.elapsed = elapsed
    BY <2>1 DEF LoopInv, LoopSeesPlayer
  <2> QED
    BY <2>1, <2>2, <2>3 DEF Due
<1> QED
  BY <1>1, LoopInvariant, PTL DEF Spec, NoContactEarly

(* What the loop compares is what the animation has reached: the rounding  *)
(* and the shortest length make no difference to whole times of a tick or  *)
(* more.                                                                   *)
LEMMA ReachedIsDue ==
  ASSUME TypeOK, NEW a \in Anims,
         NEW i \in 1..(IF Phases[a] # <<>> THEN Len(Phases[a]) ELSE 1),
         Reached(a, i)
  PROVE  i \in 1..Len(TriggerTimes(a)) /\ TriggerTimes(a)[i] <= elapsed
<1>1. Total[a] \in Nat /\ Phases[a] \in Seq(Nat) /\ elapsed \in Nat
  BY AnimsAssumption DEF TypeOK
<1>2. CASE Phases[a] # <<>>
  BY <1>1, <1>2 DEF Reached, TriggerTimes
<1>3. CASE Phases[a] = <<>>
  <2> DEFINE total == IF Total[a] < Shortest THEN Shortest ELSE Total[a]
  <2>1. TriggerTimes(a) = <<(total + 1) \div 2>> /\ i = 1
    BY <1>3 DEF TriggerTimes
  <2>2. elapsed >= 2 /\ 2 * elapsed >= Total[a]
    BY <1>3 DEF Reached, Step
  <2>3. (total + 1) \div 2 <= elapsed
    BY <1>1, <2>2 DEF Shortest
  <2> HIDE DEF total
  <2> QED
    BY <2>1, <2>3
<1> QED
  BY <1>2, <1>3

(* A tick leaves out no contact its animation has reached. *)
THEOREM NoReachedContactSkipped == Spec => NoContactLeftOut
<1> DEFINE Covered ==
      \A i \in 1..(IF Phases[armed] # <<>> THEN Len(Phases[armed]) ELSE 1) :
        Reached(armed, i) => \E n \in DOMAIN tried : tried[n] = i
<1>1. LoopInv /\ [Next]_vars => [LoopEnds /\ ~nested => Covered]_vars
  <2> SUFFICES ASSUME LoopInv, LoopEnds, ~nested,
                      NEW i \in 1..(IF Phases[armed] # <<>>
                                     THEN Len(Phases[armed]) ELSE 1),
                      Reached(armed, i)
               PROVE  \E n \in DOMAIN tried : tried[n] = i
    OBVIOUS
  <2>1. pc = "loop" /\ ~Due
    BY DEF LoopEnds
  <2>2. TypeOK /\ armed \in Anims /\ times = TriggerTimes(armed)
    BY <2>1 DEF LoopInv, IndexInv, TypeOK
  <2>3. /\ next = Len(tried) /\ next \in Nat /\ tried \in Seq(Nat)
        /\ \A n \in DOMAIN tried : tried[n] = n
    BY <2>1 DEF LoopInv, IndexInv, Skipped, TypeOK
  <2>4. i \in 1..Len(times) /\ times[i] <= elapsed /\ times \in Seq(Nat)
    BY <2>2, ReachedIsDue DEF TypeOK
  <2>5. i <= next
    <3> SUFFICES ASSUME i > next PROVE FALSE
      BY <2>3, <2>4
    <3>1. next < Len(times) /\ next + 1 \in 1..Len(times) /\ next + 1 <= i
      BY <2>3, <2>4
    <3>2. times[next + 1] <= times[i]
      BY <2>2, <2>4, <3>1, TriggerTimesFacts
    <3>3. ~(elapsed >= times[next + 1])
      BY <2>1, <3>1 DEF Due
    <3>4. elapsed \in Nat /\ times[next + 1] \in Nat /\ times[i] \in Nat
      BY <2>2, <2>4, <3>1 DEF TypeOK
    <3> QED
      BY <2>4, <3>2, <3>3, <3>4
  <2> QED
    BY <2>3, <2>4, <2>5
<1> QED
  BY <1>1, LoopInvariant, PTL DEF Spec, NoContactLeftOut

===============================================================================
