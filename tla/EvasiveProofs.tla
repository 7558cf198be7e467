----------------------------- MODULE EvasiveProofs -----------------------------
(***************************************************************************)
(* Theorems about Evasive, for all animations, all strengths and all       *)
(* offsets in the directions the model counts with, wherever the doubles   *)
(* end, and any number of calls.                                           *)
(***************************************************************************)
EXTENDS Evasive, TLAPS

-----------------------------------------------------------------------------
(* Arithmetic.                                                             *)

LEMMA DivExact ==
  ASSUME NEW a \in Int, NEW l \in Nat \ {0}
  PROVE  (l * a) \div l = a
OBVIOUS

LEMMA SquareIsNat ==
  ASSUME NEW a \in Int
  PROVE  a * a \in Nat
OBVIOUS

LEMMA SquareMonotone ==
  ASSUME NEW a \in Nat, NEW b \in Nat
  PROVE  a <= b <=> a * a <= b * b
OBVIOUS

LEMMA SquareInjective ==
  ASSUME NEW a \in Nat, NEW b \in Nat, a * a = b * b
  PROVE  a = b
OBVIOUS

LEMMA TimesMonotone ==
  ASSUME NEW a \in Nat, NEW b \in Nat, NEW c \in Nat, a <= b
  PROVE  a * c <= b * c
OBVIOUS

LEMMA Lagrange ==
  ASSUME NEW a \in Int, NEW b \in Int, NEW c \in Int, NEW d \in Int
  PROVE  (a * c + b * d) * (a * c + b * d) + (a * d - b * c) * (a * d - b * c)
           = (a * a + b * b) * (c * c + d * d)
OBVIOUS

(* Two sides of a triangle are no shorter than the third: a motion within  *)
(* radius r and a push within radius s end within r + s.                   *)
LEMMA Triangle ==
  ASSUME NEW a \in Int, NEW b \in Int, NEW r \in Nat, a * a + b * b <= r * r,
         NEW x \in Int, NEW y \in Int, NEW s \in Nat, x * x + y * y <= s * s
  PROVE  (a + x) * (a + x) + (b + y) * (b + y) <= (r + s) * (r + s)
<1> DEFINE dot == a * x + b * y
           cross == a * y - b * x
           u == a * a + b * b
           v == x * x + y * y
<1>1. /\ dot \in Int /\ cross * cross \in Nat /\ u \in Nat /\ v \in Nat
      /\ r * r \in Nat /\ s * s \in Nat /\ r * s \in Nat
  BY SquareIsNat
<1>2. dot * dot <= u * v
  <2>1. dot * dot + cross * cross = u * v
    BY Lagrange
  <2>2. \A m, n, k \in Int : m + n = k /\ n >= 0 => m <= k
    OBVIOUS
  <2>3. dot * dot \in Int /\ cross * cross \in Int /\ u * v \in Int
    BY <1>1
  <2> QED BY <1>1, <2>1, <2>2, <2>3
<1>3. u * v <= (r * r) * (s * s)
  <2> HIDE DEF u, v
  <2>1. u * v <= (r * r) * v
    BY <1>1, TimesMonotone DEF u
  <2>2. v * (r * r) <= (s * s) * (r * r)
    BY <1>1, TimesMonotone DEF v
  <2> QED BY <1>1, <2>1, <2>2
<1>4. dot <= r * s
  <2>1. CASE dot < 0
    BY <1>1, <2>1
  <2>2. CASE dot >= 0
    <3>1. dot * dot <= (r * s) * (r * s)
      BY <1>1, <1>2, <1>3
    <3> QED BY <1>1, <2>2, <3>1, SquareMonotone
  <2> QED BY <1>1, <2>1, <2>2
<1>5. (a + x) * (a + x) + (b + y) * (b + y) = u + 2 * dot + v
  OBVIOUS
<1>6. (r + s) * (r + s) = r * r + 2 * (r * s) + s * s
  OBVIOUS
<1> HIDE DEF dot, u, v
<1>7. u <= r * r /\ v <= s * s
  BY DEF u, v
<1> QED BY <1>1, <1>4, <1>5, <1>6, <1>7

(* A side of a right triangle is no longer than the hypotenuse.            *)
LEMMA SideBound ==
  ASSUME NEW a \in Int, NEW b \in Int, NEW r \in Nat, a * a + b * b <= r * r
  PROVE  a \in (-r)..r /\ b \in (-r)..r
<1>1. \A n \in Int : n * n <= r * r => n \in (-r)..r
  <2> SUFFICES ASSUME NEW n \in Int, n * n <= r * r PROVE n \in (-r)..r
    OBVIOUS
  <2>1. CASE n >= 0
    BY <2>1, SquareMonotone
  <2>2. CASE n < 0
    <3>1. -n \in Nat /\ (-n) * (-n) = n * n
      BY <2>2
    <3>2. -n <= r
      BY <3>1, SquareMonotone
    <3> QED BY <2>2, <3>2
  <2> QED BY <2>1, <2>2
<1>2. a * a \in Nat /\ b * b \in Nat /\ r * r \in Nat
  BY SquareIsNat
<1>3. a * a <= r * r /\ b * b <= r * r
  BY <1>2
<1> QED BY <1>1, <1>3

-----------------------------------------------------------------------------
(* Doubles.                                                                *)

LEMMA Numbers ==
  /\ Least \in Nat /\ Largest \in Nat /\ Largest < Infinity
  /\ Finite \subseteq Int /\ Doubles \subseteq Int
  /\ Finite \subseteq Doubles /\ 0 \in Finite
  /\ Infinity \in Doubles /\ -Infinity \in Doubles /\ NaN \in Doubles
  /\ Infinity \notin Finite /\ -Infinity \notin Finite /\ NaN \notin Finite
  /\ Infinity > 0 /\ NaN > 0 /\ NaN # Infinity /\ NaN # -Infinity
BY NumbersAssumption DEF Finite, Doubles, Infinity, NaN

LEMMA OverflowType ==
  ASSUME NEW n \in Int
  PROVE  /\ Overflow(n) \in Doubles /\ Overflow(n) # NaN
         /\ n \in Finite => Overflow(n) = n
         /\ Overflow(n) \in Finite => n \in Finite
         /\ n >= 0 => Overflow(n) >= 0
BY NumbersAssumption DEF Overflow, Finite, Doubles, Infinity, NaN

LEMMA PlusType ==
  ASSUME NEW a \in Doubles, NEW b \in Doubles
  PROVE  /\ Plus(a, b) \in Doubles
         /\ a \in Finite /\ b \in Finite => Plus(a, b) = Overflow(a + b)
         /\ Plus(a, b) \in Finite => a \in Finite /\ b \in Finite
<1>1. CASE NaN \in {a, b} \/ {a, b} = {Infinity, -Infinity}
  BY <1>1, Numbers DEF Plus
<1>2. CASE a \in Finite /\ b \in Finite
  BY <1>2, Numbers, OverflowType DEF Plus
<1>3. CASE ~(NaN \in {a, b} \/ {a, b} = {Infinity, -Infinity}) /\ ~(a \in Finite /\ b \in Finite)
  BY <1>3, Numbers DEF Plus
<1> QED BY <1>1, <1>2, <1>3

(* Sums of numbers that are not negative are not, and are numbers.         *)
LEMMA PlusPositive ==
  ASSUME NEW a \in Doubles, a >= 0, a # NaN, NEW b \in Doubles, b >= 0, b # NaN
  PROVE  Plus(a, b) \in Doubles /\ Plus(a, b) >= 0 /\ Plus(a, b) # NaN
<1>1. a \in Finite \/ a = Infinity
  BY Numbers DEF Doubles, Infinity
<1>2. b \in Finite \/ b = Infinity
  BY Numbers DEF Doubles, Infinity
<1>3. NaN \notin {a, b} /\ {a, b} # {Infinity, -Infinity}
  BY <1>1, <1>2, Numbers
<1>4. CASE a \in Finite /\ b \in Finite
  BY <1>4, PlusType, OverflowType, Numbers
<1>5. CASE ~(a \in Finite /\ b \in Finite)
  BY <1>3, <1>5, PlusType DEF Plus
<1> QED BY <1>4, <1>5

LEMMA FifthsType ==
  ASSUME NEW n \in Int, NEW a \in Doubles
  PROVE  /\ Fifths(n, a) \in Doubles
         /\ n = 0 => Fifths(n, a) \in {0, NaN}
         /\ \A m \in Int : a \in Finite /\ a = 5 * m => Fifths(n, a) = Overflow(n * m)
<1>1. CASE a \in Finite
  <2>1. a \in Int /\ (n * a) \div 5 \in Int /\ n * a \in Int
    BY <1>1, Numbers
  <2>2. \A m \in Int : a = 5 * m => (n * a) \div 5 = n * m
    <3>1. ASSUME NEW m \in Int, a = 5 * m
          PROVE  (n * a) \div 5 = n * m
      <4>1. n * a = 5 * (n * m) /\ n * m \in Int
        BY <3>1
      <4> QED BY <4>1, DivExact
    <3> QED BY <3>1
  <2>3. n = 0 => Overflow((n * a) \div 5) = 0
    BY <2>1, OverflowType, Numbers
  <2> QED BY <1>1, <2>1, <2>2, <2>3, OverflowType DEF Fifths
<1>2. CASE a \notin Finite
  <2>1. a \in {Infinity, -Infinity, NaN}
    BY <1>2 DEF Doubles
  <2> QED BY <1>2, <2>1, Numbers DEF Fifths
<1> QED BY <1>1, <1>2

-----------------------------------------------------------------------------
(* Directions.                                                             *)

(* The way over the ground. *)
Way(w) == <<w[1], 0, w[2]>>

(* A horizontal vector of length one, in fifths. *)
Unit(v) ==
  /\ v[1] \in Int /\ v[2] = 0 /\ v[3] \in Int
  /\ v[1] * v[1] + v[3] * v[3] = 25

LEMMA RootOfSquare ==
  ASSUME NEW l \in Nat
  PROVE  Root(l * l) = l
<1>1. l \in 0..(l * l)
  <2>1. l * l \in Nat
    BY SquareIsNat
  <2>2. l <= l * l
    OBVIOUS
  <2> QED BY <2>1, <2>2
<1>2. \A k \in 0..(l * l) : k * k = l * l => k = l
  BY <1>1, SquareInjective
<1> QED BY <1>1, <1>2 DEF Root

LEMMA NormalizedIsUnit ==
  ASSUME NEW w \in Offsets, ~IsFaint(Way(w))
  PROVE  /\ Unit(Normalized(Way(w)))
         /\ \E length \in Nat \ {0} :
              /\ 5 * w[1] = length * Normalized(Way(w))[1]
              /\ 5 * w[2] = length * Normalized(Way(w))[3]
<1> DEFINE n == w[1] * w[1] + w[2] * w[2]
<1>1. w[1] \in Int /\ w[2] \in Int /\ n \in Nat
  BY OffsetsAssumption, SquareIsNat
<1>2. PICK u \in Compass, length \in 0..n :
        5 * w[1] = length * u[1] /\ 5 * w[2] = length * u[2]
  BY OffsetsAssumption
<1>3. /\ length \in Nat /\ u[1] \in Int /\ u[2] \in Int
      /\ u[1] * u[1] + u[2] * u[2] = 25
  <2>1. u[1] \in Int /\ u[2] \in Int /\ u[1] * u[1] + u[2] * u[2] = 25
    BY DEF Compass
  <2>2. length \in Nat
    <3> HIDE DEF n
    <3> QED BY <1>1
  <2> QED BY <2>1, <2>2
<1>4. n = length * length
  <2>1. 25 * n = (5 * w[1]) * (5 * w[1]) + (5 * w[2]) * (5 * w[2])
    BY <1>1
  <2>2. (length * u[1]) * (length * u[1]) + (length * u[2]) * (length * u[2])
          = (length * length) * (u[1] * u[1] + u[2] * u[2])
    BY <1>3
  <2>3. 25 * n = (length * length) * 25
    BY <1>2, <1>3, <2>1, <2>2
  <2>4. length * length \in Nat
    BY <1>3, SquareIsNat
  <2> HIDE DEF n
  <2> QED BY <1>1, <2>3, <2>4
<1>5. length # 0
  <2>1. ASSUME length = 0
        PROVE  IsFaint(Way(w))
    <3>1. w[1] = 0 /\ w[2] = 0
      <4>1. 0 * u[1] = 0 /\ 0 * u[2] = 0
        BY <1>3
      <4>2. 5 * w[1] = 0 /\ 5 * w[2] = 0
        BY <1>2, <2>1, <4>1
      <4> HIDE DEF n
      <4> QED BY <1>1, <4>2
    <3>2. /\ Way(w)[1] = 0 /\ Way(w)[2] = 0 /\ Way(w)[3] = 0
      BY <3>1 DEF Way
    <3>3. Least * Least \in Nat
      BY Numbers, SquareIsNat
    <3> QED BY <3>2, <3>3, Numbers DEF IsFaint
  <2> QED BY <2>1
<1>6. Root(Way(w)[1] * Way(w)[1] + Way(w)[2] * Way(w)[2] + Way(w)[3] * Way(w)[3]) = length
  <2>1. Way(w)[1] * Way(w)[1] + Way(w)[2] * Way(w)[2] + Way(w)[3] * Way(w)[3]
          = length * length
    BY <1>1, <1>4 DEF Way
  <2> QED BY <1>3, <2>1, RootOfSquare
<1>7. /\ Normalized(Way(w))[1] = (5 * w[1]) \div length
      /\ Normalized(Way(w))[2] = (5 * 0) \div length
      /\ Normalized(Way(w))[3] = (5 * w[2]) \div length
  <2> HIDE DEF n
  <2>1. Normalized(Way(w)) = [i \in 1..3 |-> (5 * Way(w)[i]) \div length]
    BY <1>6 DEF Normalized
  <2>2. Way(w)[1] = w[1] /\ Way(w)[2] = 0 /\ Way(w)[3] = w[2]
    BY DEF Way
  <2> QED BY <2>1, <2>2
<1>8. /\ Normalized(Way(w))[1] = u[1] /\ Normalized(Way(w))[2] = 0
      /\ Normalized(Way(w))[3] = u[2]
  <2>1. (length * u[1]) \div length = u[1] /\ (length * u[2]) \div length = u[2]
        /\ (length * 0) \div length = 0
    BY <1>3, <1>5, DivExact
  <2>2. 5 * 0 = length * 0
    BY <1>3
  <2> QED BY <1>2, <1>7, <2>1, <2>2
<1> QED BY <1>2, <1>3, <1>5, <1>8 DEF Unit

(* The way to the target or of the look, if it is a way at all.            *)
LEMMA ForwardIsUnit ==
  ASSUME toTarget \in Offsets \union {NoTarget}, look \in Offsets,
         HorizontalForward # Zero
  PROVE  /\ Facing \in Offsets
         /\ Unit(HorizontalForward)
         /\ \E length \in Nat \ {0} :
              /\ 5 * Facing[1] = length * HorizontalForward[1]
              /\ 5 * Facing[2] = length * HorizontalForward[3]
<1>1. Facing \in Offsets
  BY DEF Facing
<1>2. ~IsFaint(Way(Facing)) /\ HorizontalForward = Normalized(Way(Facing))
  BY DEF HorizontalForward, Facing, Way
<1> QED BY <1>1, <1>2, NormalizedIsUnit

LEMMA TurnedIsUnit ==
  ASSUME NEW v, Unit(v)
  PROVE  Unit(Backward(v)) /\ Unit(Right(v)) /\ Unit(Backward(Right(v)))
<1>1. \A a \in Int : (-a) * (-a) = a * a
  OBVIOUS
<1>2. \A w : Unit(w) => Unit(Backward(w))
  <2> SUFFICES ASSUME NEW w, Unit(w) PROVE Unit(Backward(w))
    OBVIOUS
  <2>1. Backward(w)[1] = -w[1] /\ Backward(w)[2] = -w[2] /\ Backward(w)[3] = -w[3]
    BY DEF Backward
  <2>2. w[1] \in Int /\ w[2] = 0 /\ w[3] \in Int /\ -w[1] \in Int /\ -w[3] \in Int
    BY DEF Unit
  <2>3. (-w[1]) * (-w[1]) + (-w[3]) * (-w[3]) = 25
    BY <1>1, <2>2 DEF Unit
  <2>4. \A a \in Int : -a = 0 - a
    OBVIOUS
  <2>5. Backward(w)[2] = 0
    <3>1. w[2] \in Int /\ 0 - 0 = 0
      BY <2>2
    <3>2. -w[2] = 0 - w[2]
      BY <2>4, <3>1, Zenon
    <3> QED BY <2>1, <2>2, <3>1, <3>2, Zenon
  <2> QED BY <2>1, <2>2, <2>3, <2>5, Zenon DEF Unit
<1>3. Unit(Right(v))
  <2>1. Right(v)[1] = -v[3] /\ Right(v)[2] = 0 /\ Right(v)[3] = v[1]
    BY DEF Right
  <2>2. v[1] * v[1] \in Int /\ v[3] * v[3] \in Int
    BY DEF Unit
  <2> QED BY <1>1, <2>1, <2>2 DEF Unit
<1> QED BY <1>2, <1>3

LEMMA ChosenIsUnit ==
  ASSUME NEW d, NEW i, NEW f, Unit(f), NEW v \in Chosen(d, i, f)
  PROVE  Unit(v)
<1>1. v \in {f, Backward(f), Right(f), Backward(Right(f))}
  BY DEF Chosen
<1> QED BY <1>1, TurnedIsUnit

-----------------------------------------------------------------------------
(* Impulses.                                                               *)

LEMMA ClampedType ==
  ASSUME NEW s \in Strengths \union {Infinity, NaN}
  PROVE  /\ Clamped(s) \in Doubles /\ Clamped(s) >= 0
         /\ s # NaN => Clamped(s) # NaN
         /\ s \in Strengths => Clamped(s) \in Finite
<1>1. s \in Strengths => s \in Finite
  BY NumbersAssumption DEF Finite
<1>2. CASE s \in Strengths
  <2>0. s \in Int /\ s \in Finite
    BY <1>1, <1>2, Numbers
  <2>1. Clamped(s) \in {0, s} /\ Clamped(s) >= 0
    BY <2>0 DEF Clamped
  <2> QED BY <2>0, <2>1, Numbers
<1>3. CASE s \in {Infinity, NaN} /\ s \notin Strengths
  <2>1. s > 0 /\ s \in Doubles /\ s \in Int
    BY <1>3, Numbers
  <2>2. Clamped(s) = s
    BY <2>1 DEF Clamped
  <2> QED BY <1>3, <2>1, <2>2
<1> QED BY <1>2, <1>3

LEMMA ZeroType ==
  /\ Zero \in [1..3 -> Doubles] /\ Zero[1] = 0 /\ Zero[2] = 0 /\ Zero[3] = 0
  /\ IsFaint(Zero)
<1>1. Zero[1] = 0 /\ Zero[2] = 0 /\ Zero[3] = 0
  BY DEF Zero
<1>2. Zero \in [1..3 -> Doubles]
  BY Numbers DEF Zero
<1>3. Least * Least \in Nat
  BY Numbers, SquareIsNat
<1> QED BY <1>1, <1>2, <1>3, Numbers DEF IsFaint

(* What a call with any strength adds is a vector of doubles, and it does  *)
(* not lift the NPC.                                                       *)
LEMMA ImpulseType ==
  ASSUME TypeOK, NEW d, NEW i, NEW s \in Strengths \union {Infinity, NaN},
         NEW impulse \in Impulses(d, i, s)
  PROVE  impulse \in [1..3 -> Doubles] /\ impulse[2] \in {0, NaN}
<1>1. CASE impulse = Zero
  BY <1>1, ZeroType
<1>2. CASE impulse # Zero
  <2>1. /\ HorizontalForward # Zero
        /\ \E v \in Chosen(d, i, HorizontalForward) :
             impulse = [n \in 1..3 |-> Fifths(v[n], Clamped(s))]
    BY <1>2 DEF Impulses
  <2>2. PICK v \in Chosen(d, i, HorizontalForward) :
          impulse = [n \in 1..3 |-> Fifths(v[n], Clamped(s))]
    BY <2>1
  <2>3. Unit(v)
    BY <2>1, ForwardIsUnit, ChosenIsUnit DEF TypeOK
  <2>4. \A n \in 1..3 : v[n] \in Int
    BY <2>3 DEF Unit
  <2>5. \A n \in 1..3 : Fifths(v[n], Clamped(s)) \in Doubles
    BY <2>4, ClampedType, FifthsType
  <2>6. Fifths(v[2], Clamped(s)) \in {0, NaN}
    BY <2>3, ClampedType, FifthsType DEF Unit
  <2> QED BY <2>2, <2>5, <2>6
<1> QED BY <1>1, <1>2

(* What a call with a finite strength adds has that length.                *)
LEMMA ImpulseLength ==
  ASSUME TypeOK, NEW d, NEW i, NEW s \in Strengths,
         NEW impulse \in Impulses(d, i, s), ~IsFaint(impulse)
  PROVE  \E m \in Nat \ {0} : \E v \in Chosen(d, i, HorizontalForward) :
           /\ Clamped(s) = 5 * m
           /\ HorizontalForward # Zero /\ Unit(v)
           /\ impulse = [n \in 1..3 |-> v[n] * m]
<1>1. impulse # Zero
  BY ZeroType
<1>2. HorizontalForward # Zero /\ Clamped(s) # 0
  BY <1>1 DEF Impulses
<1>3. PICK v \in Chosen(d, i, HorizontalForward) :
        impulse = [n \in 1..3 |-> Fifths(v[n], Clamped(s))]
  BY <1>1 DEF Impulses
<1>4. Unit(v)
  BY <1>2, ForwardIsUnit, ChosenIsUnit DEF TypeOK
<1>5. PICK m \in Nat \ {0} : Clamped(s) = 5 * m
  <2>1. s \in Int /\ s % 5 = 0
    BY NumbersAssumption
  <2>2. Clamped(s) = s /\ s > 0
    BY <1>2, <2>1 DEF Clamped
  <2>3. s = 5 * (s \div 5) /\ s \div 5 \in Nat \ {0}
    BY <2>1, <2>2
  <2> QED BY <2>2, <2>3
<1>6. Clamped(s) \in Finite /\ 5 * m <= Largest
  BY <1>5, ClampedType, Numbers DEF Finite
<1>7. ASSUME NEW n \in 1..3
      PROVE  Fifths(v[n], Clamped(s)) = v[n] * m
  <2>1. v[n] \in (-5)..5
    <3>1. v[1] \in (-5)..5 /\ v[3] \in (-5)..5
      <4>1. /\ v[1] \in Int /\ v[3] \in Int /\ 5 \in Nat
            /\ v[1] * v[1] + v[3] * v[3] <= 5 * 5
        BY <1>4 DEF Unit
      <4> QED BY <4>1, SideBound
    <3> QED BY <1>4, <3>1 DEF Unit
  <2>2. v[n] * m \in (-(5 * m))..(5 * m)
    <3>1. PICK c \in (-5)..5 : c = v[n]
      BY <2>1
    <3>2. c \in {-5, -4, -3, -2, -1, 0, 1, 2, 3, 4, 5}
      OBVIOUS
    <3>3. c * m \in (-(5 * m))..(5 * m)
      BY <3>2
    <3> QED BY <3>1, <3>3
  <2>3. v[n] * m \in Finite
    BY <1>6, <2>2, Numbers DEF Finite
  <2>4. Fifths(v[n], Clamped(s)) = Overflow(v[n] * m)
    BY <1>5, <1>6, <2>1, ClampedType, FifthsType
  <2>5. v[n] * m \in Int
    BY <2>1
  <2> QED BY <2>3, <2>4, <2>5, OverflowType
<1>8. impulse = [n \in 1..3 |-> v[n] * m]
  BY <1>3, <1>7
<1> QED BY <1>2, <1>4, <1>5, <1>8

-----------------------------------------------------------------------------
(* Types.                                                                  *)

LEMMA AddType ==
  ASSUME NEW u \in [1..3 -> Doubles], u[2] \in {0, NaN},
         NEW v \in [1..3 -> Doubles], v[2] \in {0, NaN}
  PROVE  /\ Add(u, v) \in [1..3 -> Doubles] /\ Add(u, v)[2] \in {0, NaN}
         /\ \A n \in 1..3 : Add(u, v)[n] = Plus(u[n], v[n])
<1>1. \A n \in 1..3 : Add(u, v)[n] = Plus(u[n], v[n])
  BY DEF Add
<1>2. \A n \in 1..3 : Plus(u[n], v[n]) \in Doubles
  BY PlusType
<1>3. Plus(u[2], v[2]) \in {0, NaN}
  <2>1. CASE u[2] = 0 /\ v[2] = 0
    <3>1. Plus(0, 0) = Overflow(0 + 0)
      BY Numbers, PlusType
    <3>2. Overflow(0) = 0
      BY Numbers, OverflowType
    <3> QED BY <2>1, <3>1, <3>2
  <2>2. CASE u[2] = NaN \/ v[2] = NaN
    BY <2>2 DEF Plus
  <2> QED BY <2>1, <2>2
<1>4. Add(u, v) = [n \in 1..3 |-> Plus(u[n], v[n])]
  BY DEF Add
<1> QED BY <1>1, <1>2, <1>3, <1>4

(* What a tick leaves of a motion. *)
Half(n) == IF n \notin Finite THEN n
           ELSE IF n < 0 THEN -((-n) \div 2) ELSE n \div 2

LEMMA HalfType ==
  ASSUME NEW n \in Doubles
  PROVE  /\ Half(n) \in Doubles
         /\ n \in {0, NaN} => Half(n) \in {0, NaN}
         /\ Half(n) \in Finite <=> n \in Finite
         /\ n \in Finite => Half(n) * Half(n) <= n * n
<1>1. CASE n \notin Finite
  BY <1>1, Numbers DEF Half
<1>2. CASE n \in Finite
  <2>1. n \in Int /\ -Largest <= n /\ n <= Largest /\ Largest \in Nat
    BY <1>2, Numbers DEF Finite
  <2>2. \E k \in Nat : Half(n) \in {k, -k} /\ n \in {k + k, k + k + 1, -(k + k), -(k + k + 1)}
    <3>1. CASE n >= 0
      <4>1. Half(n) = n \div 2
        BY <1>2, <2>1, <3>1 DEF Half
      <4>2. n \div 2 \in Nat /\ (n = n \div 2 + n \div 2 \/ n = n \div 2 + n \div 2 + 1)
        BY <2>1, <3>1
      <4> QED BY <4>1, <4>2
    <3>2. CASE n < 0
      <4>1. Half(n) = -((-n) \div 2)
        BY <1>2, <2>1, <3>2 DEF Half
      <4>2. PICK k \in Nat : k = (-n) \div 2
        BY <2>1, <3>2
      <4>3. n = -(k + k) \/ n = -(k + k + 1)
        BY <2>1, <3>2, <4>2
      <4> QED BY <4>1, <4>2, <4>3
    <3> QED BY <2>1, <3>1, <3>2
  <2>3. PICK k \in Nat : /\ Half(n) \in {k, -k}
                         /\ n \in {k + k, k + k + 1, -(k + k), -(k + k + 1)}
    BY <2>2
  <2>4. Half(n) \in Finite
    BY <2>1, <2>3 DEF Finite
  <2>5. Half(n) * Half(n) <= n * n
    <3>1. Half(n) * Half(n) = k * k
      BY <2>3
    <3>2. n * n = (k + k) * (k + k) \/ n * n = (k + k + 1) * (k + k + 1)
      BY <2>3
    <3>3. k * k <= (k + k) * (k + k) /\ k * k <= (k + k + 1) * (k + k + 1)
      BY <2>3, SquareMonotone
    <3> QED BY <3>1, <3>2, <3>3
  <2>6. n = 0 => Half(n) = 0
    BY <1>2 DEF Half
  <2> QED BY <1>2, <2>4, <2>5, <2>6, Numbers
<1> QED BY <1>1, <1>2

LEMMA InitType == Init => TypeOK
<1> SUFFICES ASSUME Init PROVE TypeOK
  OBVIOUS
<1>1. motion \in [1..3 -> Doubles] /\ motion[2] \in {0, NaN}
  BY ZeroType DEF Init
<1>2. 0 \in {n \in Doubles : n >= 0 /\ n # NaN} /\ 0 \in 0..MaxCalls
  BY Numbers, CallsAssumption
<1> QED BY <1>1, <1>2 DEF Init, TypeOK

LEMMA TotalType ==
  ASSUME TypeOK, NEW s \in Strengths \union {Infinity, NaN}
  PROVE  LET sum == IF s = NaN THEN Infinity ELSE Plus(total, Clamped(s))
         IN /\ sum \in {n \in Doubles : n >= 0 /\ n # NaN}
            /\ sum \in Finite => s \in Strengths
<1>1. total \in Doubles /\ total >= 0 /\ total # NaN
  BY DEF TypeOK
<1>2. CASE s = NaN
  BY <1>2, Numbers
<1>3. CASE s # NaN
  <2>1. /\ Plus(total, Clamped(s)) \in Doubles /\ Plus(total, Clamped(s)) >= 0
        /\ Plus(total, Clamped(s)) # NaN
    BY <1>1, <1>3, ClampedType, PlusPositive
  <2>2. s = Infinity => Plus(total, Clamped(s)) \notin Finite
    <3>1. Clamped(Infinity) = Infinity
      BY Numbers DEF Clamped
    <3> QED BY <1>1, <3>1, PlusType, Numbers
  <2> QED BY <1>3, <2>1, <2>2
<1> QED BY <1>2, <1>3

LEMMA NextType == TypeOK /\ [Next]_vars => TypeOK'
<1> SUFFICES ASSUME TypeOK, [Next]_vars PROVE TypeOK'
  OBVIOUS
<1>1. ASSUME NEW a \in Anims \union {NoAnim}, NEW d \in Directions, NEW i \in Intents,
             NEW s \in Strengths \union {Infinity, NaN}, EvasiveCall(a, d, i, s)
      PROVE  TypeOK'
  <2>1. motion' \in [1..3 -> Doubles] /\ motion'[2] \in {0, NaN} /\ hasImpulse' \in BOOLEAN
    <3>1. PICK impulse \in Impulses(d, i, s) :
            IF IsFaint(impulse) THEN UNCHANGED <<motion, hasImpulse>>
            ELSE motion' = Add(motion, impulse) /\ hasImpulse' = TRUE
      BY <1>1 DEF EvasiveCall
    <3>2. CASE IsFaint(impulse)
      BY <3>1, <3>2 DEF TypeOK
    <3>3. CASE ~IsFaint(impulse)
      BY <3>1, <3>3, ImpulseType, AddType DEF TypeOK
    <3> QED BY <3>2, <3>3
  <2>2. total' \in {n \in Doubles : n >= 0 /\ n # NaN}
    BY <1>1, TotalType DEF EvasiveCall
  <2>3. calls' \in 0..MaxCalls
    BY <1>1, CallsAssumption DEF EvasiveCall, TypeOK
  <2>4. playing' \in Anims \union {NoAnim}
    BY <1>1 DEF EvasiveCall, TypeOK
  <2> QED BY <1>1, <2>1, <2>2, <2>3, <2>4 DEF EvasiveCall, TypeOK
<1>2. CASE Tick
  <2>1. motion' = [n \in 1..3 |-> Half(motion[n])]
    BY <1>2 DEF Tick, Half
  <2>2. motion' \in [1..3 -> Doubles] /\ motion'[2] \in {0, NaN}
    BY <2>1, HalfType DEF TypeOK
  <2> QED BY <1>2, <2>2 DEF Tick, TypeOK
<1>3. CASE Turn
  BY <1>3 DEF Turn, TypeOK
<1>4. CASE UNCHANGED vars
  BY <1>4 DEF vars, TypeOK
<1> QED BY <1>1, <1>2, <1>3, <1>4 DEF Next

(* Types; and whatever is passed, no call lifts the NPC off the ground or  *)
(* pushes it into it, as long as its motion is a number.                   *)
THEOREM EvasiveTypes == Spec => []TypeOK
BY InitType, NextType, PTL DEF Spec

-----------------------------------------------------------------------------
(* The speed of the NPC.                                                   *)

LEMMA TickSpeed ==
  ASSUME TypeOK, NoFasterThanAsked, Tick
  PROVE  NoFasterThanAsked'
<1> SUFFICES ASSUME total \in Finite
             PROVE  /\ \A n \in 1..3 : motion'[n] \in Finite
                    /\ motion'[1] * motion'[1] + motion'[3] * motion'[3] <= total * total
  BY DEF NoFasterThanAsked, Tick
<1>1. \A n \in 1..3 : motion'[n] = Half(motion[n]) /\ motion[n] \in Finite
  BY DEF Tick, Half, NoFasterThanAsked
<1>2. \A n \in 1..3 : /\ motion'[n] \in Finite /\ motion[n] \in Int /\ motion'[n] \in Int
                      /\ motion'[n] * motion'[n] <= motion[n] * motion[n]
  <2> SUFFICES ASSUME NEW n \in 1..3
               PROVE  /\ motion'[n] \in Finite /\ motion[n] \in Int /\ motion'[n] \in Int
                      /\ motion'[n] * motion'[n] <= motion[n] * motion[n]
    OBVIOUS
  <2>1. PICK h \in Doubles : h = motion[n]
    BY DEF TypeOK
  <2>2. h \in Finite /\ motion'[n] = Half(h)
    BY <1>1, <2>1
  <2>3. Half(h) \in Finite /\ Half(h) * Half(h) <= h * h
    BY <2>2, HalfType
  <2>4. h \in Int /\ Half(h) \in Int
    BY <2>2, <2>3, Numbers
  <2> QED BY <2>1, <2>2, <2>3, <2>4
<1>3. \A k, l, m, n, t \in Int : k <= m /\ l <= n /\ m + n <= t => k + l <= t
  OBVIOUS
<1>4. total \in Int /\ \A n \in Int : n * n \in Int
  BY Numbers
<1>5. motion[1] * motion[1] + motion[3] * motion[3] <= total * total
  BY DEF NoFasterThanAsked
<1> QED BY <1>2, <1>3, <1>4, <1>5

LEMMA CallSpeed ==
  ASSUME TypeOK, NoFasterThanAsked, NEW a, NEW d, NEW i,
         NEW s \in Strengths \union {Infinity, NaN}, EvasiveCall(a, d, i, s)
  PROVE  NoFasterThanAsked'
<1> SUFFICES ASSUME total' \in Finite
             PROVE  /\ \A n \in 1..3 : motion'[n] \in Finite
                    /\ motion'[1] * motion'[1] + motion'[3] * motion'[3] <= total' * total'
  BY DEF NoFasterThanAsked
<1>1. s \in Strengths /\ total' = Plus(total, Clamped(s))
  <2>1. total' = IF s = NaN THEN Infinity ELSE Plus(total, Clamped(s))
    BY DEF EvasiveCall
  <2>2. s \in Strengths
    BY <2>1, TotalType
  <2>3. s # NaN
    BY <2>1, Numbers
  <2> QED BY <2>1, <2>2, <2>3
<1>2. PICK c \in Finite : c = Clamped(s) /\ c >= 0
  BY <1>1, ClampedType
<1>3. /\ total \in Finite /\ total >= 0
      /\ total' = total + c /\ total + c \in Finite
  <2>1. c \in Doubles /\ total \in Doubles /\ total >= 0
    BY <1>2, Numbers DEF TypeOK
  <2>2. total \in Finite /\ Plus(total, c) = Overflow(total + c)
    BY <1>1, <1>2, <2>1, PlusType
  <2>3. total + c \in Int
    <3>1. total \in Int /\ c \in Int
      BY <2>1, Numbers
    <3> QED BY <3>1
  <2> QED BY <1>1, <1>2, <2>1, <2>2, <2>3, OverflowType
<1>4. /\ total \in Nat /\ c \in Nat /\ total + c <= Largest
      /\ \A n \in 1..3 : motion[n] \in Finite /\ motion[n] \in Int
      /\ motion[1] * motion[1] + motion[3] * motion[3] <= total * total
  BY <1>2, <1>3, Numbers DEF NoFasterThanAsked, Finite
<1>5. PICK impulse \in Impulses(d, i, s) :
        IF IsFaint(impulse) THEN UNCHANGED <<motion, hasImpulse>>
        ELSE motion' = Add(motion, impulse) /\ hasImpulse' = TRUE
  BY DEF EvasiveCall
<1>6. CASE IsFaint(impulse)
  <2>1. motion' = motion
    BY <1>5, <1>6
  <2>2. total * total <= (total + c) * (total + c)
    BY <1>4, SquareMonotone
  <2>3. /\ motion[1] * motion[1] + motion[3] * motion[3] \in Int
        /\ total * total \in Int /\ (total + c) * (total + c) \in Int
    BY <1>4
  <2>4. \A k, l, m \in Int : k <= l /\ l <= m => k <= m
    OBVIOUS
  <2> QED BY <1>3, <1>4, <2>1, <2>2, <2>3, <2>4
<1>7. CASE ~IsFaint(impulse)
  <2>1. PICK m \in Nat \ {0}, v \in Chosen(d, i, HorizontalForward) :
          /\ Clamped(s) = 5 * m /\ Unit(v)
          /\ impulse = [n \in 1..3 |-> v[n] * m]
    BY <1>1, <1>7, ImpulseLength
  <2>2. /\ v[1] * m \in Int /\ v[3] * m \in Int
        /\ impulse[1] = v[1] * m /\ impulse[2] = 0 * m /\ impulse[3] = v[3] * m
    BY <2>1 DEF Unit
  <2>3. (v[1] * m) * (v[1] * m) + (v[3] * m) * (v[3] * m) = c * c
    <3>1. /\ v[1] \in Int /\ v[3] \in Int /\ v[1] * v[1] + v[3] * v[3] = 25
          /\ c = 5 * m
      BY <1>2, <2>1 DEF Unit
    <3>2. (v[1] * m) * (v[1] * m) + (v[3] * m) * (v[3] * m)
            = (v[1] * v[1] + v[3] * v[3]) * (m * m)
      BY <3>1
    <3>3. (5 * m) * (5 * m) = 25 * (m * m)
      OBVIOUS
    <3> QED BY <3>1, <3>2, <3>3
  <2>4. (motion[1] + v[1] * m) * (motion[1] + v[1] * m)
          + (motion[3] + v[3] * m) * (motion[3] + v[3] * m) <= (total + c) * (total + c)
    <3>1. (v[1] * m) * (v[1] * m) + (v[3] * m) * (v[3] * m) <= c * c
      BY <1>4, <2>3
    <3>2. PICK a1 \in Int, b1 \in Int, x \in Int, y \in Int :
            a1 = motion[1] /\ b1 = motion[3] /\ x = v[1] * m /\ y = v[3] * m
      BY <1>4, <2>2
    <3>3. a1 * a1 + b1 * b1 <= total * total /\ x * x + y * y <= c * c
      BY <1>4, <3>1, <3>2
    <3>4. (a1 + x) * (a1 + x) + (b1 + y) * (b1 + y) <= (total + c) * (total + c)
      BY <1>4, <3>3, Triangle
    <3> QED BY <3>2, <3>4
  <2>5. motion[1] + v[1] * m \in Finite /\ motion[3] + v[3] * m \in Finite
    <3>1. /\ motion[1] + v[1] * m \in Int /\ motion[3] + v[3] * m \in Int
          /\ total + c \in Nat
      BY <1>4, <2>2
    <3>2. /\ motion[1] + v[1] * m \in (-(total + c))..(total + c)
          /\ motion[3] + v[3] * m \in (-(total + c))..(total + c)
      BY <2>4, <3>1, SideBound
    <3>3. \A n \in Int : n \in (-(total + c))..(total + c) => n \in Finite
      BY <1>4, Numbers DEF Finite
    <3> QED BY <3>1, <3>2, <3>3
  <2>6. /\ motion \in [1..3 -> Doubles] /\ motion[2] \in {0, NaN}
        /\ impulse \in [1..3 -> Doubles] /\ impulse[2] \in {0, NaN}
    BY <1>1, ImpulseType DEF TypeOK
  <2>7. \A n \in 1..3 : motion'[n] = Plus(motion[n], impulse[n])
    BY <1>5, <1>7, <2>6, AddType
  <2>8. motion'[2] \in Finite
    <3>1. motion'[2] \in {0, NaN}
      BY <1>5, <1>7, <2>6, AddType
    <3>2. motion[2] = 0 /\ impulse[2] = 0
      BY <1>4, <2>1, <2>2, <2>6, Numbers
    <3>3. Plus(0, 0) = Overflow(0 + 0) /\ Overflow(0) = 0
      BY Numbers, PlusType, OverflowType
    <3> QED BY <2>7, <3>2, <3>3, Numbers
  <2>9. ASSUME NEW n \in {1, 3}
        PROVE  motion'[n] = motion[n] + v[n] * m
    <3>1. /\ motion[n] + v[n] * m \in Finite /\ motion[n] \in Finite /\ motion[n] \in Int
          /\ impulse[n] = v[n] * m /\ impulse[n] \in Doubles /\ v[n] * m \in Int
      BY <1>4, <2>2, <2>5, <2>6
    <3>2. v[n] * m \in Finite
      <4>1. c * c \in Int /\ c <= Largest
        BY <1>2, <1>4, Numbers DEF Finite
      <4>2. v[1] * m \in (-c)..c /\ v[3] * m \in (-c)..c
        <5>1. PICK x \in Int, y \in Int : x = v[1] * m /\ y = v[3] * m
          BY <2>2
        <5>2. x * x + y * y <= c * c
          BY <2>3, <4>1, <5>1
        <5>3. x \in (-c)..c /\ y \in (-c)..c
          BY <1>4, <5>2, SideBound
        <5> QED BY <5>1, <5>3
      <4>3. \A k \in (-c)..c : k \in Finite
        BY <1>4, <4>1, Numbers DEF Finite
      <4> QED BY <4>2, <4>3
    <3>3. Plus(motion[n], v[n] * m) = Overflow(motion[n] + v[n] * m)
      BY <3>1, <3>2, PlusType, Numbers
    <3>4. Overflow(motion[n] + v[n] * m) = motion[n] + v[n] * m
      BY <3>1, OverflowType
    <3> QED BY <2>7, <3>1, <3>3, <3>4
  <2>10. motion'[1] = motion[1] + v[1] * m /\ motion'[3] = motion[3] + v[3] * m
    BY <2>9
  <2> QED BY <1>3, <2>4, <2>5, <2>8, <2>10
<1> QED BY <1>6, <1>7

(* However many calls, pushes add up to no more than the strengths passed: *)
(* as long as their sum is a double, every coordinate of the motion is one *)
(* and the NPC is no faster than that sum.                                 *)
THEOREM CallsDoNotMultiply == Spec => []NoFasterThanAsked
<1>1. Init => NoFasterThanAsked
  <2>1. /\ Zero[1] = 0 /\ Zero[3] = 0 /\ 0 * 0 + 0 * 0 <= 0 * 0
        /\ \A n \in 1..3 : Zero[n] \in Finite
    BY ZeroType, Numbers
  <2> QED BY <2>1 DEF Init, NoFasterThanAsked
<1>2. TypeOK /\ NoFasterThanAsked /\ [Next]_vars => NoFasterThanAsked'
  <2> SUFFICES ASSUME TypeOK, NoFasterThanAsked, [Next]_vars PROVE NoFasterThanAsked'
    OBVIOUS
  <2>1. CASE Turn \/ UNCHANGED vars
    <3>1. motion' = motion /\ total' = total
      BY <2>1 DEF Turn, vars
    <3> QED BY <3>1 DEF NoFasterThanAsked
  <2> QED BY <2>1, TickSpeed, CallSpeed DEF Next
<1> QED BY <1>1, <1>2, EvasiveTypes, PTL DEF Spec

-----------------------------------------------------------------------------
(* The direction of a push.                                                *)

(* What a push along v is to the facing, up to a positive factor. *)
Along(f, v) == f[1] * v[1] + f[3] * v[3]
Aside(f, v) == f[1] * v[3] - f[3] * v[1]

(* The four ways that can be chosen, seen from the one who faces f. *)
LEMMA FourWays ==
  ASSUME NEW f, Unit(f)
  PROVE  /\ Along(f, f) = 25 /\ Aside(f, f) = 0
         /\ Along(f, Backward(f)) = -25 /\ Aside(f, Backward(f)) = 0
         /\ Along(f, Right(f)) = 0 /\ Aside(f, Right(f)) = 25
         /\ Along(f, Backward(Right(f))) = 0 /\ Aside(f, Backward(Right(f))) = -25
<1>1. PICK a \in Int, b \in Int : a = f[1] /\ b = f[3] /\ a * a + b * b = 25
  BY DEF Unit
<1>2. /\ Backward(f)[1] = -a /\ Backward(f)[3] = -b
      /\ Right(f)[1] = -b /\ Right(f)[3] = a
      /\ Backward(Right(f))[1] = -(-b) /\ Backward(Right(f))[3] = -a
  BY <1>1 DEF Backward, Right
<1>3. a * b - b * a = 0
  OBVIOUS
<1>4. a * (-a) + b * (-b) = -(a * a + b * b) /\ a * (-b) - b * (-a) = 0
  OBVIOUS
<1>5. a * (-b) + b * a = 0 /\ a * a - b * (-b) = a * a + b * b
  OBVIOUS
<1>6. a * (-(-b)) + b * (-a) = 0 /\ a * (-a) - b * (-(-b)) = -(a * a + b * b)
  OBVIOUS
<1>7. Along(f, f) = 25 /\ Aside(f, f) = 0
  BY <1>1, <1>3 DEF Along, Aside
<1>8. Along(f, Backward(f)) = -25 /\ Aside(f, Backward(f)) = 0
  BY <1>1, <1>2, <1>4 DEF Along, Aside
<1>9. Along(f, Right(f)) = 0 /\ Aside(f, Right(f)) = 25
  BY <1>1, <1>2, <1>5 DEF Along, Aside
<1>10. Along(f, Backward(Right(f))) = 0 /\ Aside(f, Backward(Right(f))) = -25
  BY <1>1, <1>2, <1>6 DEF Along, Aside
<1> QED BY <1>7, <1>8, <1>9, <1>10

(* The facing of the NPC is its forward vector, at its own length. *)
LEMMA FacingScales ==
  ASSUME TypeOK, HorizontalForward # Zero, NEW v, Unit(v), NEW m \in Nat \ {0}
  PROVE  \E k \in Nat \ {0} :
           /\ 5 * Dot(Facing, <<v[1] * m, v[3] * m>>) = k * Along(HorizontalForward, v)
           /\ 5 * Clockwise(Facing, <<v[1] * m, v[3] * m>>) = k * Aside(HorizontalForward, v)
<1>1. Facing \in Offsets /\ Unit(HorizontalForward)
  BY ForwardIsUnit DEF TypeOK
<1>2. PICK length \in Nat \ {0} :
        /\ 5 * Facing[1] = length * HorizontalForward[1]
        /\ 5 * Facing[2] = length * HorizontalForward[3]
  BY ForwardIsUnit DEF TypeOK
<1>3. PICK p \in Int, q \in Int, f \in Int, g \in Int, x \in Int, y \in Int :
        /\ p = Facing[1] /\ q = Facing[2]
        /\ f = HorizontalForward[1] /\ g = HorizontalForward[3]
        /\ x = v[1] /\ y = v[3]
  BY <1>1, OffsetsAssumption DEF Unit
<1>4. length * m \in Nat \ {0}
  OBVIOUS
<1>5. /\ 5 * (p * (x * m) + q * (y * m)) = (5 * p) * (x * m) + (5 * q) * (y * m)
      /\ 5 * (p * (y * m) - q * (x * m)) = (5 * p) * (y * m) - (5 * q) * (x * m)
  OBVIOUS
<1>6. /\ (length * f) * (x * m) + (length * g) * (y * m) = (length * m) * (f * x + g * y)
      /\ (length * f) * (y * m) - (length * g) * (x * m) = (length * m) * (f * y - g * x)
  OBVIOUS
<1>7. 5 * p = length * f /\ 5 * q = length * g
  BY <1>2, <1>3
<1>8. /\ 5 * (p * (x * m) + q * (y * m)) = (length * m) * (f * x + g * y)
      /\ 5 * (p * (y * m) - q * (x * m)) = (length * m) * (f * y - g * x)
  BY <1>5, <1>6, <1>7
<1>9. /\ Dot(Facing, <<v[1] * m, v[3] * m>>) = p * (x * m) + q * (y * m)
      /\ Clockwise(Facing, <<v[1] * m, v[3] * m>>) = p * (y * m) - q * (x * m)
      /\ Along(HorizontalForward, v) = f * x + g * y
      /\ Aside(HorizontalForward, v) = f * y - g * x
  BY <1>3 DEF Dot, Clockwise, Along, Aside
<1> QED BY <1>4, <1>8, <1>9

(* The vectors a direction and an intent stand for. *)
LEMMA ChosenWay ==
  ASSUME NEW d \in Directions, NEW i \in Intents, NEW f, NEW v \in Chosen(d, i, f)
  PROVE  CASE d = "forward" -> v = f
           [] d = "back"    -> v = Backward(f)
           [] d = "left"    -> v = Backward(Right(f))
           [] d = "right" \/ (d = "RIGHT" /\ ~dotless) -> v = Right(f)
           [] d = "mixup" \/ (d = "MIXUP" /\ ~dotless) ->
                               v \in {Right(f), Backward(Right(f))}
           [] OTHER -> CASE i = "chase" -> v = f
                         [] i = "step"  -> v \in {Right(f), Backward(Right(f))}
                         [] OTHER       -> v = Backward(f)
<1>1. CASE d = "forward"
  BY <1>1 DEF Chosen, Normal
<1>2. CASE d = "back"
  BY <1>2 DEF Chosen, Normal
<1>3. CASE d = "left"
  BY <1>3 DEF Chosen, Normal
<1>4. CASE d = "right" \/ (d = "RIGHT" /\ ~dotless)
  BY <1>4 DEF Chosen, Normal
<1>5. CASE d = "mixup" \/ (d = "MIXUP" /\ ~dotless)
  BY <1>5 DEF Chosen, Normal
<1>6. CASE d = "none" \/ (d \in {"RIGHT", "MIXUP"} /\ dotless)
  <2>1. Normal(d) \in {"none", "r*ght", "m*xup"}
    BY <1>6 DEF Normal
  <2> QED BY <1>6, <2>1 DEF Chosen
<1> QED BY <1>1, <1>2, <1>3, <1>4, <1>5, <1>6 DEF Directions

LEMMA CallPushes ==
  ASSUME TypeOK, motion = Zero, motion' # Zero,
         \A n \in 1..3 : motion'[n] \in Finite,
         NEW a, NEW d \in Directions, NEW i \in Intents, NEW s \in Strengths,
         EvasiveCall(a, d, i, s)
  PROVE  \E m \in Nat \ {0}, v \in Chosen(d, i, HorizontalForward) :
           /\ HorizontalForward # Zero /\ Unit(v)
           /\ motion'[1] = v[1] * m /\ motion'[3] = v[3] * m
<1>1. PICK impulse \in Impulses(d, i, s) :
        IF IsFaint(impulse) THEN UNCHANGED <<motion, hasImpulse>>
        ELSE motion' = Add(motion, impulse) /\ hasImpulse' = TRUE
  BY DEF EvasiveCall
<1>2. ~IsFaint(impulse) /\ motion' = Add(motion, impulse)
  BY <1>1
<1>3. PICK m \in Nat \ {0}, v \in Chosen(d, i, HorizontalForward) :
        /\ HorizontalForward # Zero /\ Unit(v)
        /\ impulse = [n \in 1..3 |-> v[n] * m]
  BY <1>2, ImpulseLength
<1>4. /\ motion \in [1..3 -> Doubles] /\ motion[2] \in {0, NaN}
      /\ impulse \in [1..3 -> Doubles] /\ impulse[2] \in {0, NaN}
  BY ImpulseType DEF TypeOK
<1>5. ASSUME NEW n \in {1, 3}
      PROVE  motion'[n] = v[n] * m
  <2>1. motion[n] = 0 /\ motion'[n] = Plus(motion[n], impulse[n]) /\ motion'[n] \in Finite
    BY <1>2, <1>4, AddType, ZeroType
  <2>2. PICK e \in Doubles : e = impulse[n]
    BY <1>4
  <2>3. e \in Finite /\ Plus(0, e) = Overflow(0 + e)
    BY <2>1, <2>2, PlusType, Numbers
  <2>4. e \in Int /\ 0 + e = e
    BY <2>3, Numbers
  <2>5. motion'[n] = e
    BY <2>1, <2>2, <2>3, <2>4, OverflowType
  <2> QED BY <1>3, <2>2, <2>5
<1> QED BY <1>3, <1>5

LEMMA PushStep == TypeOK => PushIsAsked
<1> DEFINE push == <<motion'[1], motion'[3]>>
           ahead == Dot(Facing, push)
           right == Clockwise(Facing, push)
           f == HorizontalForward
<1>1. ASSUME TypeOK, motion = Zero, motion' # Zero,
             \A n \in 1..3 : motion'[n] \in Finite,
             NEW d \in Directions, NEW i \in Intents, NEW s \in Strengths,
             EvasiveCall(playing', d, i, s)
      PROVE  CASE d = "forward" -> ahead > 0 /\ right = 0
               [] d = "back"    -> ahead < 0 /\ right = 0
               [] d = "left"    -> ahead = 0 /\ right < 0
               [] d = "right" \/ (d = "RIGHT" /\ ~dotless) ->
                                   ahead = 0 /\ right > 0
               [] d = "mixup" \/ (d = "MIXUP" /\ ~dotless) -> ahead = 0
               [] OTHER -> CASE i = "chase" -> ahead > 0 /\ right = 0
                             [] i = "step"  -> ahead = 0
                             [] OTHER       -> ahead < 0 /\ right = 0
  <2>1. PICK m \in Nat \ {0}, v \in Chosen(d, i, f) :
          /\ f # Zero /\ Unit(v)
          /\ motion'[1] = v[1] * m /\ motion'[3] = v[3] * m
    BY <1>1, CallPushes
  <2>2. push = <<v[1] * m, v[3] * m>>
    BY <2>1
  <2>3. PICK k \in Nat \ {0} : 5 * ahead = k * Along(f, v) /\ 5 * right = k * Aside(f, v)
    BY <1>1, <2>1, <2>2, FacingScales
  <2>4. ahead \in Int /\ right \in Int
    <3>1. Facing[1] \in Int /\ Facing[2] \in Int
      BY <1>1, <2>1, ForwardIsUnit, OffsetsAssumption DEF TypeOK
    <3>2. v[1] * m \in Int /\ v[3] * m \in Int
      BY <2>1 DEF Unit
    <3> QED BY <2>2, <3>1, <3>2 DEF Dot, Clockwise
  <2>5. Unit(f)
    BY <1>1, <2>1, ForwardIsUnit DEF TypeOK
  <2> HIDE DEF ahead, right, f
  <2>6. /\ v = f => ahead > 0 /\ right = 0
        /\ v = Backward(f) => ahead < 0 /\ right = 0
        /\ v = Right(f) => ahead = 0 /\ right > 0
        /\ v = Backward(Right(f)) => ahead = 0 /\ right < 0
    <3>1. \A n \in Int : /\ 5 * n = k * 25 => n > 0
                         /\ 5 * n = k * 0 => n = 0
                         /\ 5 * n = k * (-25) => n < 0
      OBVIOUS
    <3> QED BY <2>3, <2>4, <2>5, <3>1, FourWays
  <2> QED BY <2>6, ChosenWay
<1> HIDE DEF f
<1> QED BY <1>1 DEF PushIsAsked

(* An NPC that stands still is pushed where the call says, seen from the   *)
(* one who faces the target: forward, back, left and right are those, and  *)
(* what a language with a dotless i or no word leaves open the intent says.*)
THEOREM PushGoesWhereAsked == Spec => PushedWhereAsked
<1>1. TypeOK /\ [Next]_vars => [PushIsAsked]_vars
  BY PushStep
<1> QED BY <1>1, EvasiveTypes, PTL DEF Spec, PushedWhereAsked

=============================================================================
