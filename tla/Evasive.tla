-------------------------------- MODULE Evasive --------------------------------
(***************************************************************************)
(* evasive(animPath, direction, strength, intent), which scripts call on   *)
(* an NPC in a fight: an animation, and a push towards its target, away    *)
(* from it or to a side.  The strength is any double a script computes;    *)
(* pushes add up with the motion the NPC has, and between calls the NPC    *)
(* and its target move.                                                    *)
(*                                                                         *)
(* Lengths are counted in units of which Least make the 0.001 the code     *)
(* compares with, and Largest the greatest double, so that overflow comes  *)
(* within reach.  Infinity and NaN are two numbers beyond.  Directions     *)
(* have components in fifths (axes, and triangles of 3, 4 and 5), so that  *)
(* no rounding occurs.                                                     *)
(***************************************************************************)
EXTENDS Integers

CONSTANTS
  Anims, NoAnim,  \* animations; a null or blank path
  NoTarget,       \* getTarget() is null
  Offsets,        \* horizontal vectors: to the target, and of the look
  Strengths,      \* finite strengths a script passes
  Least,          \* 0.001
  Largest,        \* the greatest finite double
  MaxCalls        \* bound: calls of evasive

Infinity == 1000000
NaN == 2000000

ASSUME NumbersAssumption ==
  /\ Least \in Nat /\ Largest \in Nat /\ Least < Largest /\ Largest < Infinity
  /\ \A s \in Strengths : s \in -Largest..Largest /\ s % 5 = 0
ASSUME CallsAssumption == MaxCalls \in Nat

(* The directions, of length five: along the axes and of the triangles. *)
Compass == {u \in (-5..5) \X (-5..5) : u[1] * u[1] + u[2] * u[2] = 25}

(* A vector is as long as a whole number, in one of the directions. *)
ASSUME OffsetsAssumption ==
  \A v \in Offsets :
    /\ v \in Int \X Int /\ NoTarget # v
    /\ \E u \in Compass, length \in 0..(v[1] * v[1] + v[2] * v[2]) :
         5 * v[1] = length * u[1] /\ 5 * v[2] = length * u[2]

Directions ==
  {"forward", "back", "left", "right", "RIGHT", "mixup", "MIXUP", "none"}
Intents == {"chase", "step", "dodge", "none"}

VARIABLES
  toTarget,    \* from the NPC to its target, or NoTarget
  look,        \* getLookAngle(), its horizontal part
  dotless,     \* the JVM's language lowers I to a dotless i
  playing,     \* the animation last handed to playEFAnimation
  motion,      \* getDeltaMovement(): <<x, y, z>>
  hasImpulse,  \* the motion is to be sent to the clients
  calls,       \* counts calls, up to MaxCalls
  total        \* history: sum of the strengths passed

vars == <<toTarget, look, dotless, playing, motion, hasImpulse, calls, total>>

-----------------------------------------------------------------------------
(* Doubles.                                                                *)

Finite == -Largest..Largest
Doubles == Finite \union {Infinity, -Infinity, NaN}

Overflow(n) ==
  IF n > Largest THEN Infinity ELSE IF n < -Largest THEN -Infinity ELSE n

Plus(a, b) ==
  IF NaN \in {a, b} \/ {a, b} = {Infinity, -Infinity} THEN NaN
  ELSE IF {a, b} \subseteq Finite THEN Overflow(a + b)
  ELSE IF a \in Finite THEN b ELSE a

(* n fifths of a: nothing of infinity is not a number. *)
Fifths(n, a) ==
  IF a \in Finite THEN Overflow((n * a) \div 5)
  ELSE IF a = NaN \/ n = 0 THEN NaN
  ELSE IF n > 0 THEN a ELSE -a

Zero == <<0, 0, 0>>
Add(u, v) == [i \in 1..3 |-> Plus(u[i], v[i])]

(* lengthSqr() <= 1.0E-6D: a comparison that NaN and overflow fail. *)
IsFaint(v) ==
  /\ \A i \in 1..3 : v[i] \in Finite
  /\ v[1] * v[1] + v[2] * v[2] + v[3] * v[3] <= Least * Least

Root(n) == CHOOSE l \in 0..n : l * l = n

(* normalize(), in fifths. *)
Normalized(v) ==
  LET length == Root(v[1] * v[1] + v[2] * v[2] + v[3] * v[3])
  IN [i \in 1..3 |-> (5 * v[i]) \div length]

-----------------------------------------------------------------------------
(* The impulse.                                                            *)

(* Math.max(0.0D, strength), which keeps NaN. *)
Clamped(strength) == IF strength < 0 THEN 0 ELSE strength

(* Mistake: the way to the target is not brought to length one. *)
ForwardFull ==
  LET way == IF toTarget # NoTarget THEN toTarget ELSE look
      forward == <<way[1], 0, way[2]>>
  IN IF IsFaint(forward) THEN Zero ELSE forward

(* getHorizontalForward: the target goes before the look, even where it is *)
(* right above and gives no direction.                                     *)
HorizontalForward ==
  LET way == IF toTarget # NoTarget THEN toTarget ELSE look
      forward == <<way[1], 0, way[2]>>
  IN IF IsFaint(forward) THEN Zero ELSE Normalized(forward)

Backward(v) == [i \in 1..3 |-> -v[i]]

(* Mistakes: the coordinates in another order; the sign at the other one. *)
RightUp(v) == <<-v[3], v[1], 0>>
RightMirrored(v) == <<v[3], 0, -v[1]>>

Right(v) == <<-v[3], 0, v[1]>>

(* trim().toLowerCase() in the JVM's language: what the switch compares. *)
Normal(direction) ==
  CASE direction = "RIGHT" -> IF dotless THEN "r*ght" ELSE "right"
    [] direction = "MIXUP" -> IF dotless THEN "m*xup" ELSE "mixup"
    [] OTHER               -> direction

(* The vectors a call may choose, the random ones among them: the intent   *)
(* decides where the direction says nothing.                               *)
Chosen(direction, intent, forward) ==
  LET sides == {Right(forward), Backward(Right(forward))}
      byIntent == CASE intent = "chase" -> {forward}
                    [] intent = "step"  -> sides
                    [] OTHER            -> {Backward(forward)}
  IN CASE Normal(direction) = "forward" -> {forward}
       [] Normal(direction) = "back"    -> {Backward(forward)}
       [] Normal(direction) = "left"    -> {Backward(Right(forward))}
       [] Normal(direction) = "right"   -> {Right(forward)}
       [] Normal(direction) = "mixup"   -> sides
       [] OTHER                         -> byIntent

(* resolveEvasiveImpulse: what is chosen has length one already. *)
Impulses(direction, intent, strength) ==
  LET forward == HorizontalForward
      clamped == Clamped(strength)
  IN IF clamped = 0 \/ forward = Zero THEN {Zero}
     ELSE {[i \in 1..3 |-> Fifths(v[i], clamped)] :
             v \in Chosen(direction, intent, forward)}

EvasiveCall(animPath, direction, intent, strength) ==
  /\ calls < MaxCalls
  /\ calls' = calls + 1
  /\ playing' = IF animPath = NoAnim THEN playing ELSE animPath
  /\ \E impulse \in Impulses(direction, intent, strength) :
       IF IsFaint(impulse) THEN UNCHANGED <<motion, hasImpulse>>
       ELSE motion' = Add(motion, impulse) /\ hasImpulse' = TRUE
  /\ total' = IF strength = NaN THEN Infinity ELSE Plus(total, Clamped(strength))
  /\ UNCHANGED <<toTarget, look, dotless>>

-----------------------------------------------------------------------------
(* Between calls.                                                          *)

(* A tick of the entity: its motion goes to the clients and wears off.     *)
Tick ==
  /\ motion' = [i \in 1..3 |->
       IF motion[i] \notin Finite THEN motion[i]
       ELSE IF motion[i] < 0 THEN -((-motion[i]) \div 2) ELSE motion[i] \div 2]
  /\ hasImpulse' = FALSE
  /\ UNCHANGED <<toTarget, look, dotless, playing, calls, total>>

(* The NPC finds, loses and turns to targets, and all of them move. *)
Turn ==
  /\ toTarget' \in Offsets \union {NoTarget}
  /\ look' \in Offsets
  /\ UNCHANGED <<dotless, playing, motion, hasImpulse, calls, total>>

-----------------------------------------------------------------------------
Init ==
  /\ toTarget = NoTarget
  /\ look \in Offsets
  /\ dotless \in BOOLEAN
  /\ playing = NoAnim
  /\ motion = Zero
  /\ hasImpulse = FALSE
  /\ calls = 0
  /\ total = 0

Next ==
  \/ \E a \in Anims \union {NoAnim}, d \in Directions, i \in Intents,
        s \in Strengths \union {Infinity, NaN} : EvasiveCall(a, d, i, s)
  \/ Tick
  \/ Turn

Spec == Init /\ [][Next]_vars

-----------------------------------------------------------------------------
(* Properties.                                                             *)

(* Types; a call never lifts the NPC off the ground nor pushes it down.    *)
TypeOK ==
  /\ toTarget \in Offsets \union {NoTarget}
  /\ look \in Offsets
  /\ dotless \in BOOLEAN
  /\ playing \in Anims \union {NoAnim}
  /\ motion \in [1..3 -> Doubles] /\ motion[2] \in {0, NaN}
  /\ hasImpulse \in BOOLEAN
  /\ calls \in 0..MaxCalls
  /\ total \in {n \in Doubles : n >= 0 /\ n # NaN}

(* Calls add up to no more than the strengths that were passed: as long as *)
(* their sum is a double, the NPC's motion is one in every coordinate and  *)
(* no faster.  Only a NaN, an infinity or a sum beyond the doubles gives   *)
(* an NPC a motion that is not a number.                                   *)
NoFasterThanAsked ==
  total \in Finite =>
    /\ \A i \in 1..3 : motion[i] \in Finite
    /\ motion[1] * motion[1] + motion[3] * motion[3] <= total * total

(* A point of the compass as seen from above, and the one to the right of  *)
(* it: x grows to the east, z to the south.                                *)
Dot(u, v) == u[1] * v[1] + u[2] * v[2]
Clockwise(u, v) == u[1] * v[2] - u[2] * v[1]

(* Where the NPC faces: its target, or where it looks without one. *)
Facing == IF toTarget # NoTarget THEN toTarget ELSE look

(* The push a call gives is in the direction and with the intent it names. *)
PushIsAsked ==
  motion = Zero /\ motion' # Zero /\ (\A i \in 1..3 : motion'[i] \in Finite) =>
    LET push == <<motion'[1], motion'[3]>>
        ahead == Dot(Facing, push)
        right == Clockwise(Facing, push)
    IN \A d \in Directions, i \in Intents :
         (\E s \in Strengths : EvasiveCall(playing', d, i, s)) =>
           CASE d = "forward" -> ahead > 0 /\ right = 0
             [] d = "back"    -> ahead < 0 /\ right = 0
             [] d = "left"    -> ahead = 0 /\ right < 0
             [] d = "right" \/ (d = "RIGHT" /\ ~dotless) ->
                                 ahead = 0 /\ right > 0
             [] d = "mixup" \/ (d = "MIXUP" /\ ~dotless) -> ahead = 0
             [] OTHER -> CASE i = "chase" -> ahead > 0 /\ right = 0
                           [] i = "step"  -> ahead = 0
                           [] OTHER       -> ahead < 0 /\ right = 0

(* An NPC that stands still is pushed where the call says, seen from the   *)
(* one who faces the target (the look, without one): nobody gets nearer    *)
(* than he was by a dodge or a step, and right is the right-hand side,     *)
(* however the word is spelt, unless the JVM's language has a dotless i.   *)
PushedWhereAsked == [][PushIsAsked]_vars

===============================================================================
