---------------------------- MODULE NpcDisplayProofs ----------------------------
(***************************************************************************)
(* Theorems about NpcDisplay, for all models, clients and script inputs,   *)
(* any floats of the shape the model has, and any number of writes.        *)
(***************************************************************************)
EXTENDS NpcDisplay, TLAPS, SequenceTheorems, WellFoundedInduction

-----------------------------------------------------------------------------
(* Floats.                                                                 *)

LEMMA LeastNat ==
  ASSUME NEW T, T \subseteq Nat, T # {}
  PROVE  \E x \in T : \A y \in T : x <= y
<1> DEFINE R == OpToRel(<, Nat)
<1>1. IsWellFoundedOn(R, Nat)
  BY ONLY NatLessThanWellFounded, Zenon
<1>2. \A x, y \in Nat : y < x => <<y, x>> \in R
  BY Zenon DEF OpToRel
<1> HIDE DEF R
<1>3. PICK x \in T : \A y \in T : ~ (<<y, x>> \in R)
  BY <1>1, WFMin
<1>4. \A y \in T : ~ (y < x)
  BY <1>2, <1>3
<1> QED BY <1>3, <1>4

(* Products. *)
LEMMA Monotone ==
  ASSUME NEW a \in Nat, NEW b \in Nat, NEW c \in Nat, NEW d \in Nat,
         a <= b, c <= d
  PROVE  a * c <= b * d
<1>1. PICK e \in Nat : b = a + e
  <2>1. b - a \in Nat /\ b = a + (b - a)
    OBVIOUS
  <2> QED BY <2>1
<1>2. PICK f \in Nat : d = c + f
  <2>1. d - c \in Nat /\ d = c + (d - c)
    OBVIOUS
  <2> QED BY <2>1
<1>3. b * d = a * c + a * f + e * c + e * f
  BY <1>1, <1>2
<1>4. a * f \in Nat /\ e * c \in Nat /\ e * f \in Nat /\ a * c \in Nat
  OBVIOUS
<1> QED BY <1>3, <1>4

LEMMA Cancel ==
  ASSUME NEW a \in Nat, NEW b \in Nat, NEW s \in Nat \ {0}
  PROVE  /\ a * s <= b * s => a <= b
         /\ a * s < b * s => a < b
<1>1. ASSUME a > b
      PROVE  a * s > b * s
  <2>1. (b + 1) * s <= a * s
    BY <1>1, Monotone
  <2>2. (b + 1) * s = b * s + s /\ b * s \in Nat
    OBVIOUS
  <2>3. a * s \in Nat
    OBVIOUS
  <2> QED BY <2>1, <2>2, <2>3
<1>2. a * s \in Nat /\ b * s \in Nat
  OBVIOUS
<1> QED BY <1>1, <1>2

LEMMA NumberFacts ==
  /\ Exact \in Nat /\ Exact > 0 /\ Huge \in Nat
  /\ Huge \in Numbers /\ 0 \in Numbers /\ One \in Numbers
  /\ NaN \notin Int /\ NaN \in Floats /\ Numbers \subseteq Floats
  /\ Numbers \subseteq Nat /\ \A x \in Numbers : x <= Huge
  /\ \A x \in Floats : x # NaN => x \in Numbers
  /\ Missing \notin Floats
<1>1. PICK t \in Spacings : Huge = Exact * t /\ \A s \in Spacings : s <= t
  BY FloatAssumption
<1>2. Exact \in Nat /\ Exact > 0 /\ t \in Nat /\ Spacings \subseteq Nat \ {0}
  BY <1>1, FloatAssumption
<1>3. Numbers \subseteq Nat
  BY <1>2 DEF Numbers
<1>4. ASSUME NEW x \in Numbers
      PROVE  x <= Huge
  <2>1. PICK m \in 0..Exact, s \in Spacings : x = m * s
    BY DEF Numbers
  <2>2. m * s <= Exact * t
    BY <1>1, <1>2, <2>1, Monotone
  <2> QED BY <1>1, <2>1, <2>2
<1>5. Huge \in Numbers /\ Huge \in Nat
  BY <1>1, <1>2 DEF Numbers
<1>6. 0 = 0 * t /\ One = One * 1
  BY <1>2, FloatAssumption
<1>7. 0 \in Numbers /\ One \in Numbers
  <2>1. 0 \in 0..Exact /\ One \in 0..Exact /\ 1 \in Spacings
    BY <1>2, FloatAssumption
  <2>2. 0 * t \in Numbers /\ One * 1 \in Numbers
    BY <2>1 DEF Numbers
  <2> QED BY <1>6, <2>2
<1> QED BY <1>2, <1>3, <1>4, <1>5, <1>7, FloatAssumption DEF Floats, Missing

(* The floats on either side of a number. *)
LEMMA Neighbours ==
  ASSUME NEW n \in 0..Huge
  PROVE  /\ Below(n) \in Numbers /\ Below(n) <= n
         /\ \A y \in Numbers : y <= n => y <= Below(n)
         /\ Above(n) \in Numbers /\ Above(n) >= n
         /\ \A y \in Numbers : y >= n => y >= Above(n)
<1>0. n \in Nat /\ Numbers \subseteq Nat /\ 0 \in Numbers /\ Huge \in Numbers
  BY NumberFacts
<1>1. \E x \in {y \in Numbers : y >= n} : \A y \in {z \in Numbers : z >= n} : x <= y
  <2>1. Huge \in {y \in Numbers : y >= n}
    BY <1>0
  <2> QED BY <1>0, <2>1, LeastNat
<1>2. \E x \in {y \in Numbers : y <= n} : \A y \in {z \in Numbers : z <= n} : x >= y
  <2> DEFINE T == {n - y : y \in {z \in Numbers : z <= n}}
  <2>1. T \subseteq Nat /\ n - 0 \in T
    BY <1>0
  <2>2. PICK d \in T : \A e \in T : d <= e
    BY <2>1, LeastNat
  <2>3. PICK x \in {z \in Numbers : z <= n} : d = n - x
    BY <2>2
  <2>4. ASSUME NEW y \in {z \in Numbers : z <= n}
        PROVE  x >= y
    <3>1. n - y \in T
      OBVIOUS
    <3>2. n - x <= n - y
      BY <2>2, <2>3, <3>1
    <3> HIDE DEF T
    <3> QED BY <1>0, <3>2
  <2> QED BY <2>4
<1> QED BY <1>0, <1>1, <1>2 DEF Below, Above, Max, Min

(* Rounding gives a float, keeps one, gets no smaller than a float below,  *)
(* and loses at most half of the distance of two floats around.            *)
LEMMA RoundedFacts ==
  ASSUME NEW n \in Nat
  PROVE  /\ Rounded(n) \in Numbers /\ (n \in Numbers => Rounded(n) = n)
         /\ \A y \in Numbers : y <= n => y <= Rounded(n)
         /\ \A lo, hi \in Numbers :
              lo <= n /\ n <= hi => 2 * Rounded(n) >= 2 * n - (hi - lo)
<1>1. CASE n > Huge
  BY <1>1, NumberFacts DEF Rounded
<1>2. CASE n <= Huge
  <2>1. n \in 0..Huge
    BY <1>2, NumberFacts
  <2>2. \/ Rounded(n) = Below(n) /\ (n - Below(n) <= Above(n) - n \/ n \in Numbers)
        \/ Rounded(n) = Above(n) /\ n \notin Numbers
    <3>1. Rounded(n) = Nearest[n]
      BY <1>2, NumberFacts DEF Rounded
    <3> DEFINE b == Below(n)
               a == Above(n)
               toBelow == \/ n - b < a - n \/ n \in Numbers
                          \/ n - b = a - n /\ EvenFloat(b, (n - b) + (a - n))
    <3>2. Nearest[n] = IF toBelow THEN b ELSE a
      BY <2>1 DEF Nearest
    <3>3. b \in Nat /\ a \in Nat
      BY <2>1, Neighbours, NumberFacts
    <3> HIDE DEF a, b
    <3>4. toBelow => n - b <= a - n \/ n \in Numbers
      BY <3>3
    <3>5. ~toBelow => n \notin Numbers
      OBVIOUS
    <3> HIDE DEF toBelow
    <3> QED BY <3>1, <3>2, <3>4, <3>5 DEF a, b
  <2>3. n \in Numbers => Below(n) = n
    BY <2>1, Neighbours, NumberFacts
  <2>4. Below(n) \in Nat /\ Above(n) \in Nat
    BY <2>1, Neighbours, NumberFacts
  <2>5. Rounded(n) \in Numbers /\ (n \in Numbers => Rounded(n) = n)
    BY <2>1, <2>2, <2>3, Neighbours
  <2>6. \A y \in Numbers : y <= n => y <= Rounded(n)
    BY <2>1, <2>2, <2>4, Neighbours, NumberFacts
  <2>7. ASSUME NEW lo \in Numbers, NEW hi \in Numbers, lo <= n, n <= hi
        PROVE  2 * Rounded(n) >= 2 * n - (hi - lo)
    <3>1. lo \in Nat /\ hi \in Nat /\ lo <= Below(n) /\ Above(n) <= hi
      BY <2>1, <2>7, Neighbours, NumberFacts
    <3>2. CASE n \in Numbers
      BY <2>3, <2>5, <2>7, <3>1, <3>2
    <3>3. CASE n \notin Numbers
      BY <2>1, <2>2, <2>4, <3>1, <3>3, Neighbours
    <3> QED BY <3>2, <3>3
  <2> QED BY <2>5, <2>6, <2>7
<1> QED BY <1>1, <1>2, NumberFacts

LEMMA NonNegativeIsFloat ==
  /\ \A x \in Int \union {NaN} : NonNegative(x) \in Floats
  /\ \A x \in Floats : NonNegative(x) = x
BY RoundedFacts, NumberFacts DEF NonNegative

LEMMA PlusIsFloat ==
  ASSUME NEW a \in Floats, NEW b \in Floats
  PROVE  Plus(a, b) \in Floats
BY RoundedFacts, NumberFacts DEF Plus

-----------------------------------------------------------------------------
(* Saving and reading.                                                     *)

(* The fields of a display. *)
LEMMA DisplayFields ==
  ASSUME NEW d \in Displays
  PROVE  /\ d = [model |-> d.model, attackAIOff |-> d.attackAIOff,
                 animDamage |-> d.animDamage, posture |-> d.posture,
                 max |-> d.max, perParry |-> d.perParry]
         /\ d.model \in Models \union {NoModel}
         /\ d.attackAIOff \in BOOLEAN /\ d.animDamage \in BOOLEAN
         /\ d.posture \in Floats /\ d.max \in Floats /\ d.perParry \in Floats
BY DEF Displays

LEMMA FreshIsDisplay == Fresh \in Displays
BY NumberFacts DEF Fresh, Displays

LEMMA SaveIsTag ==
  ASSUME NEW d \in Displays
  PROVE  Save(d) \in Tags
BY DisplayFields DEF Save, Tags

LEMMA ReadIsDisplay ==
  ASSUME NEW d \in Displays, NEW tag \in Tags
  PROVE  Read(d, tag) \in Displays
<1>1. \A x \in Floats \union {Missing} : NonNegative(Float(x)) \in Floats
  BY NonNegativeIsFloat, NumberFacts DEF Float
<1>2. \A x \in Floats \union {Missing} :
        (IF x # Missing THEN NonNegative(x) ELSE One) \in Floats
  BY NonNegativeIsFloat, NumberFacts
<1>3. /\ tag.efModel \in Models \union {NoModel}
      /\ tag.efDisableAttackAI \in BOOLEAN /\ tag.efAnimationDamage \in BOOLEAN
      /\ tag.efPosture \in Floats \union {Missing}
      /\ tag.efPostureMax \in Floats \union {Missing}
      /\ tag.efPosturePerParry \in Floats \union {Missing}
  BY DEF Tags
<1> QED BY <1>1, <1>2, <1>3, DisplayFields DEF Read, Displays

(* What reading a saved display over a display r gives: all of it, but for *)
(* a maximum of NaN, and for r's model where the saved one has none.       *)
LEMMA ReadSaved ==
  ASSUME NEW d \in Displays, NEW r \in Displays
  PROVE  Read(r, Save(d)) =
           [model       |-> IF d.model # NoModel THEN d.model ELSE r.model,
            attackAIOff |-> d.attackAIOff,
            animDamage  |-> d.animDamage,
            posture     |-> d.posture,
            max         |-> IF d.max = NaN THEN 0 ELSE d.max,
            perParry    |-> d.perParry]
<1>1. NonNegative(Float(IF d.posture # 0 THEN d.posture ELSE Missing)) = d.posture
  BY DisplayFields, NonNegativeIsFloat, NumberFacts DEF Float
<1>2. NonNegative(Float(IF Gt(d.max, 0) THEN d.max ELSE Missing)) =
        IF d.max = NaN THEN 0 ELSE d.max
  BY DisplayFields, NonNegativeIsFloat, NumberFacts DEF Float, Gt
<1>3. LET x == IF d.perParry # One THEN d.perParry ELSE Missing IN
      (IF x # Missing THEN NonNegative(x) ELSE One) = d.perParry
  BY DisplayFields, NonNegativeIsFloat, NumberFacts
<1> QED BY <1>1, <1>2, <1>3 DEF Read, Save

LEMMA RestoredFields ==
  ASSUME NEW d \in Displays
  PROVE  Restored(d) =
           [model       |-> d.model,
            attackAIOff |-> d.attackAIOff,
            animDamage  |-> d.animDamage,
            posture     |-> d.posture,
            max         |-> IF d.max = NaN THEN 0 ELSE d.max,
            perParry    |-> d.perParry]
<1>1. Fresh.model = NoModel
  BY DEF Fresh
<1> QED BY <1>1, FreshIsDisplay, ReadSaved DEF Restored

LEMMA SaveLossless == srv \in Displays => SaveIsLossless
<1> SUFFICES ASSUME srv \in Displays
             PROVE  Restored(srv) = [srv EXCEPT !.max = IF @ = NaN THEN 0 ELSE @]
  BY DEF SaveIsLossless
<1>1. [srv EXCEPT !.max = IF @ = NaN THEN 0 ELSE @] =
        [model       |-> srv.model,
         attackAIOff |-> srv.attackAIOff,
         animDamage  |-> srv.animDamage,
         posture     |-> srv.posture,
         max         |-> IF srv.max = NaN THEN 0 ELSE srv.max,
         perParry    |-> srv.perParry]
  BY DEF Displays
<1> QED BY <1>1, RestoredFields

-----------------------------------------------------------------------------
(* Type correctness.                                                       *)

(* One field of a display is replaced by a value of its type.              *)
LEMMA FieldIsReplaced ==
  ASSUME NEW d \in Displays
  PROVE  /\ \A m \in Models \union {NoModel} :
              /\ [d EXCEPT !.model = m] \in Displays
              /\ [d EXCEPT !.model = m].model = m
         /\ \A b \in BOOLEAN : /\ [d EXCEPT !.attackAIOff = b] \in Displays
                               /\ [d EXCEPT !.animDamage = b] \in Displays
                               /\ [d EXCEPT !.attackAIOff = b].model = d.model
                               /\ [d EXCEPT !.animDamage = b].model = d.model
         /\ \A x \in Floats : /\ [d EXCEPT !.posture = x] \in Displays
                              /\ [d EXCEPT !.perParry = x] \in Displays
                              /\ \A y \in Floats :
                                   [d EXCEPT !.max = x, !.posture = y] \in Displays
BY DEF Displays

(* What a rebuilt patch is. *)
LEMMA PatchForType ==
  ASSUME TypeOK, NEW j \in Jvms, NEW m \in Models, NEW dead \in BOOLEAN,
         NEW old \in Patches \union {NoPatch}
  PROVE  /\ PatchFor(j, m, dead, old) \in Patches \union {NoPatch}
         /\ m \in usable[j] => /\ PatchFor(j, m, dead, old) # NoPatch
                               /\ PatchFor(j, m, dead, old).model = m
<1>1. CASE m \in usable[j]
  <2>1. PatchFor(j, m, dead, old) = [model |-> m, dead |-> dead]
    BY <1>1 DEF PatchFor
  <2>2. [model |-> m, dead |-> dead] \in Patches
    BY Zenon DEF Patches
  <2> QED BY <2>1, <2>2, NoneAssumption
<1>2. CASE m \notin usable[j] /\ dead /\ old # NoPatch
  <2>1. PatchFor(j, m, dead, old) = [old EXCEPT !.dead = TRUE]
    BY <1>2 DEF PatchFor
  <2>2. \A p \in Patches : [p EXCEPT !.dead = TRUE] \in Patches
    BY DEF Patches
  <2> QED BY <1>2, <2>1, <2>2
<1>3. CASE m \notin usable[j] /\ ~(dead /\ old # NoPatch)
  <2>1. PatchFor(j, m, dead, old) = old
    BY <1>3, Zenon DEF PatchFor
  <2> QED BY <1>3, <2>1
<1> QED BY <1>1, <1>2, <1>3

LEMMA RebuildType ==
  ASSUME TypeOK, NEW j \in Jvms, NEW m \in Models, NEW dead \in BOOLEAN,
         Rebuild(j, m, dead, patch[j])
  PROVE  /\ patch' \in [Jvms -> Patches \union {NoPatch}]
         /\ applied' \in [Jvms -> BOOLEAN]
         /\ \A i \in Jvms : i # j => patch'[i] = patch[i] /\ applied'[i] = applied[i]
         /\ applied'[j] => patch'[j] # NoPatch /\ patch'[j].model = m
<1>1. PatchFor(j, m, dead, patch[j]) \in Patches \union {NoPatch}
  BY PatchForType DEF TypeOK
<1>2. /\ patch' = [patch EXCEPT ![j] = PatchFor(j, m, dead, patch[j])]
      /\ applied' = [applied EXCEPT ![j] = m \in usable[j]]
  BY DEF Rebuild
<1>3. applied' \in [Jvms -> BOOLEAN] /\ applied'[j] = (m \in usable[j])
  BY <1>2 DEF TypeOK
<1>4. m \in usable[j] => /\ PatchFor(j, m, dead, patch[j]) # NoPatch
                         /\ PatchFor(j, m, dead, patch[j]).model = m
  BY PatchForType DEF TypeOK
<1> QED BY <1>1, <1>2, <1>3, <1>4 DEF TypeOK

LEMMA AnnounceType ==
  ASSUME TypeOK, NEW d \in Displays, srv' \in Displays, Announce(d)
  PROVE  /\ wire' \in [Clients -> Seq(Tags)]
         /\ told' \in [Clients -> Floats]
<1>1. Save(d) \in Tags
  BY SaveIsTag
<1>2. \A c \in Clients : Append(wire[c], Save(d)) \in Seq(Tags)
  BY <1>1, AppendProperties DEF TypeOK
<1> QED BY <1>2 DEF Announce, TypeOK, Displays

LEMMA InitType == Init => TypeOK
BY FreshIsDisplay, EmptySeq, NumberFacts DEF Init, TypeOK

LEMMA NextType == TypeOK /\ [Next]_vars => TypeOK'
<1> SUFFICES ASSUME TypeOK, [Next]_vars PROVE TypeOK'
  OBVIOUS
<1>0. Server \in Jvms /\ Clients \subseteq Jvms /\ Server \notin Clients
  BY DisplayNamesAssumption DEF Jvms
<1> USE DEF TypeOK
<1>1. ASSUME NEW m \in Models, SetModel(m)
      PROVE  TypeOK'
  <2>1. srv' \in Displays
    BY <1>1, FieldIsReplaced DEF SetModel
  <2>2. Announce(srv') /\ Rebuild(Server, m, FALSE, patch[Server])
    BY <1>1 DEF SetModel
  <2>3. PICK d \in Displays : d = srv'
    BY <2>1
  <2>4. wire' \in [Clients -> Seq(Tags)] /\ told' \in [Clients -> Floats]
    BY <2>1, <2>2, <2>3, AnnounceType
  <2>5. patch' \in [Jvms -> Patches \union {NoPatch}] /\ applied' \in [Jvms -> BOOLEAN]
    BY <1>0, <2>2, RebuildType
  <2> QED BY <1>1, <2>1, <2>4, <2>5 DEF SetModel, Write
<1>2. ASSUME NEW b \in BOOLEAN, SetAttackAIDisabled(b)
      PROVE  TypeOK'
  <2>1. srv' \in Displays
    BY <1>2, FieldIsReplaced DEF SetAttackAIDisabled
  <2>2. PICK d \in Displays : d = srv'
    BY <2>1
  <2>3. wire' \in [Clients -> Seq(Tags)] /\ told' \in [Clients -> Floats]
    BY <1>2, <2>1, <2>2, AnnounceType DEF SetAttackAIDisabled
  <2>4. patch' \in [Jvms -> Patches \union {NoPatch}] /\ applied' \in [Jvms -> BOOLEAN]
    <3>1. CASE srv.model = NoModel
      BY <1>2, <3>1 DEF SetAttackAIDisabled
    <3>2. CASE srv.model # NoModel
      BY <1>0, <1>2, <3>2, RebuildType, DisplayFields DEF SetAttackAIDisabled
    <3> QED BY <3>1, <3>2
  <2> QED BY <1>2, <2>1, <2>3, <2>4 DEF SetAttackAIDisabled, Write
<1>3. ASSUME NEW b \in BOOLEAN, SetAnimationDamage(b)
      PROVE  TypeOK'
  <2>1. srv' \in Displays
    BY <1>3, FieldIsReplaced DEF SetAnimationDamage
  <2>2. PICK d \in Displays : d = srv'
    BY <2>1
  <2>3. wire' \in [Clients -> Seq(Tags)] /\ told' \in [Clients -> Floats]
    BY <1>3, <2>1, <2>2, AnnounceType DEF SetAnimationDamage
  <2> QED BY <1>3, <2>1, <2>3 DEF SetAnimationDamage, Write
<1>4. ASSUME NEW d \in Displays, PostureWrite(d)
      PROVE  TypeOK'
  <2>1. wire' \in [Clients -> Seq(Tags)] /\ told' \in [Clients -> Floats]
    BY <1>4, AnnounceType DEF PostureWrite
  <2> QED BY <1>4, <2>1, NumberFacts DEF PostureWrite, Write
<1>5. ASSUME NEW x \in Inputs,
             SetPosture(x) \/ SetPostureMax(x) \/ SetPosturePerParry(x)
      PROVE  TypeOK'
  <2>1. NonNegative(x) \in Floats
    BY NonNegativeIsFloat, FloatAssumption
  <2>2. CASE SetPosture(x)
    BY <1>4, <2>1, <2>2, FieldIsReplaced DEF SetPosture
  <2>3. CASE SetPosturePerParry(x)
    BY <1>4, <2>1, <2>3, FieldIsReplaced DEF SetPosturePerParry
  <2>4. CASE SetPostureMax(x)
    <3> DEFINE y == IF Gt(NonNegative(x), 0) /\ Gt(srv.posture, NonNegative(x))
                    THEN NonNegative(x) ELSE srv.posture
    <3>1. y \in Floats
      BY <2>1, DisplayFields
    <3> HIDE DEF y
    <3>2. [srv EXCEPT !.max = NonNegative(x), !.posture = y] \in Displays
      BY <2>1, <3>1, FieldIsReplaced
    <3>3. PostureWrite([srv EXCEPT !.max = NonNegative(x), !.posture = y])
      BY <2>4 DEF SetPostureMax, y
    <3> QED BY <1>4, <3>2, <3>3
  <2> QED BY <1>5, <2>2, <2>3, <2>4
<1>6. CASE AttackBlocked
  <2>1. NextPosture \in Floats
    BY DisplayFields, PlusIsFloat, NonNegativeIsFloat DEF NextPosture
  <2>2. srv' \in Displays
    BY <1>6, <2>1, FieldIsReplaced, NonNegativeIsFloat, NumberFacts DEF AttackBlocked
  <2>3. parries' \in 0..(Huge + 1)
    BY <1>6, NumberFacts DEF AttackBlocked, AtMost, Gt
  <2> QED BY <1>6, <2>2, <2>3 DEF AttackBlocked
<1>7. ASSUME NEW c \in Clients, NEW d \in Displays, NEW what \in {"model", "switches"},
             Edit(c, d, what)
      PROVE  TypeOK'
  BY <1>7 DEF Edit, Write
<1>8. ASSUME NEW c \in Clients, EditorStep(c)
      PROVE  TypeOK'
  <2>1. CASE SendSave(c)
    <3>1. Save(cli[c]) \in Tags
      BY <2>1, SaveIsTag DEF SendSave
    <3> QED BY <2>1, <3>1, AppendProperties DEF SendSave, Write
  <2>2. CASE \/ \E m \in Models : EditModel(c, m)
             \/ EditAttackAI(c) \/ EditAnimationDamage(c)
    <3>1. cli[c] \in Displays
      BY <2>2 DEF EditModel, EditAttackAI, EditAnimationDamage, Edit
    <3> QED
      BY <1>7, <2>2, <3>1, FieldIsReplaced, DisplayFields
      DEF EditModel, EditAttackAI, EditAnimationDamage
  <2> QED BY <1>8, <2>1, <2>2 DEF EditorStep
<1>9. ASSUME NEW c \in Clients, ServerReads(c)
      PROVE  TypeOK'
  <2> DEFINE tag == Head(saves[c])
  <2>1. tag \in Tags /\ Tail(saves[c]) \in Seq(Tags)
    BY <1>9, HeadTailProperties DEF ServerReads
  <2>2. srv' \in Displays
    BY <1>9, <2>1, ReadIsDisplay DEF ServerReads
  <2>3. PICK d \in Displays : d = srv'
    BY <2>2
  <2>4. wire' \in [Clients -> Seq(Tags)] /\ told' \in [Clients -> Floats]
    BY <1>9, <2>2, <2>3, AnnounceType DEF ServerReads
  <2>5. patch' \in [Jvms -> Patches \union {NoPatch}] /\ applied' \in [Jvms -> BOOLEAN]
    <3>1. CASE tag.efModel = NoModel
      BY <1>9, <3>1 DEF ServerReads, ReadPatch
    <3>2. CASE tag.efModel # NoModel
      <4>1. tag.efModel \in Models
        BY <2>1, <3>2 DEF Tags
      <4> QED BY <1>0, <1>9, <3>2, <4>1, RebuildType DEF ServerReads, ReadPatch
    <3> QED BY <3>1, <3>2
  <2> QED BY <1>9, <2>1, <2>2, <2>4, <2>5, NumberFacts DEF ServerReads
<1>10. ASSUME NEW c \in Clients, ClientReads(c)
       PROVE  TypeOK'
  <2> DEFINE tag == Head(wire[c])
             old == IF cli[c] = NoCopy THEN Fresh ELSE cli[c]
  <2>1. tag \in Tags /\ Tail(wire[c]) \in Seq(Tags)
    BY <1>10, HeadTailProperties DEF ClientReads
  <2>2. old \in Displays
    BY FreshIsDisplay
  <2>3. Read(old, tag) \in Displays
    BY <2>1, <2>2, ReadIsDisplay
  <2>4. patch' \in [Jvms -> Patches \union {NoPatch}] /\ applied' \in [Jvms -> BOOLEAN]
    <3>1. CASE tag.efModel = NoModel
      BY <1>10, <3>1 DEF ClientReads, ReadPatch
    <3>2. CASE tag.efModel # NoModel
      <4>1. tag.efModel \in Models
        BY <2>1, <3>2 DEF Tags
      <4> QED BY <1>0, <1>10, <3>2, <4>1, RebuildType DEF ClientReads, ReadPatch
    <3> QED BY <3>1, <3>2
  <2>5. cli' \in [Clients -> Displays \union {NoCopy}]
    BY <1>10, <2>3 DEF ClientReads
  <2> QED BY <1>10, <2>1, <2>4, <2>5 DEF ClientReads
<1>11. ASSUME NEW c \in Clients, Track(c)
       PROVE  TypeOK'
  <2>1. <<Save(srv)>> \in Seq(Tags)
    BY SaveIsTag
  <2> QED BY <1>11, <2>1, DisplayFields DEF Track, Write
<1>12. ASSUME NEW c \in Clients, Untrack(c)
       PROVE  TypeOK'
  BY <1>0, <1>12, EmptySeq DEF Untrack
<1>13. CASE Reload
  <2> DEFINE tag == Save(srv)
  <2>1. tag \in Tags
    BY SaveIsTag
  <2>2. srv' \in Displays
    BY <1>13, <2>1, FreshIsDisplay, ReadIsDisplay DEF Reload
  <2>3. tag.efModel # NoModel =>
          PatchFor(Server, tag.efModel, killed, NoPatch) \in Patches \union {NoPatch}
    BY <1>0, <2>1, PatchForType DEF Tags
  <2> HIDE DEF tag
  <2>4. patch' \in [Jvms -> Patches \union {NoPatch}]
    BY <1>13, <2>3 DEF Reload, tag
  <2>5. applied' \in [Jvms -> BOOLEAN]
    <3>1. applied' = [applied EXCEPT ![Server] = tag.efModel \in usable[Server]]
      BY <1>13 DEF Reload, tag
    <3>2. PICK b \in BOOLEAN : b <=> tag.efModel \in usable[Server]
      OBVIOUS
    <3>3. applied' = [applied EXCEPT ![Server] = b]
      BY <3>1, <3>2, Zenon
    <3> QED BY <1>0, <3>3
  <2>6. /\ cli' \in [Clients -> Displays \union {NoCopy}]
        /\ wire' \in [Clients -> Seq(Tags)] /\ saves' \in [Clients -> Seq(Tags)]
        /\ edited' \in [Clients -> SUBSET {"model", "switches"}]
        /\ watching' \in SUBSET Clients
    BY <1>13, EmptySeq DEF Reload
  <2>7. writes' \in Nat
    BY <1>13 DEF Reload, Write
  <2>8. /\ usable' \in [Jvms -> SUBSET Models] /\ killed' \in BOOLEAN
        /\ told' \in [Clients -> Floats] /\ parries' \in 0..(Huge + 1)
    BY <1>13 DEF Reload
  <2> QED BY <2>2, <2>4, <2>5, <2>6, <2>7, <2>8
<1>14. CASE Die
  <2>1. \A p \in Patches : [p EXCEPT !.dead = TRUE] \in Patches
    BY DEF Patches
  <2> QED BY <1>14, <2>1 DEF Die
<1>15. ASSUME NEW j \in Jvms, RegistryChanges(j)
       PROVE  TypeOK'
  BY <1>15 DEF RegistryChanges, Write
<1>16. CASE UNCHANGED vars
  BY <1>16 DEF vars
<1> QED
  BY <1>1, <1>2, <1>3, <1>5, <1>6, <1>8, <1>9, <1>10, <1>11, <1>12, <1>13, <1>14,
     <1>15, <1>16
  DEF Next, ScriptStep

(* Every variable keeps to its type, the posture meter among them: it is   *)
(* never negative, and a float, whatever scripts pass to its setters.      *)
THEOREM TypeCorrect == Spec => []TypeOK
BY InitType, NextType, PTL DEF Spec

(* An NPC that is unloaded comes back as it was, whatever was written to   *)
(* it: what writeToNBT leaves out is what readFromNBT puts back.           *)
THEOREM SavedIsRestored == Spec => []SaveIsLossless
<1>1. TypeOK => SaveIsLossless
  BY SaveLossless DEF TypeOK
<1> QED BY <1>1, TypeCorrect, PTL

-----------------------------------------------------------------------------
(* The guard.                                                              *)

(* A float is a multiple of the distance of the floats below it. *)
LEMMA SpacingFacts ==
  ASSUME NEW x \in Numbers
  PROVE  /\ Spacing(x) \in Spacings /\ Spacing(x) \in Nat \ {0}
         /\ \E k \in 0..Exact : x = k * Spacing(x)
<1>0. Exact \in Nat /\ x \in Nat /\ Spacings \subseteq Nat \ {0}
  BY NumberFacts, FloatAssumption
<1>1. PICK m \in 0..Exact, t \in Spacings : x = m * t
  BY DEF Numbers
<1>2. x <= Exact * t
  BY <1>0, <1>1, Monotone
<1>3. \E s \in {u \in Spacings : x <= Exact * u} :
        \A u \in {v \in Spacings : x <= Exact * v} : s <= u
  BY <1>0, <1>2, LeastNat
<1>4. PICK s \in Spacings : /\ s = Spacing(x) /\ x <= Exact * s
                            /\ \A u \in Spacings : x <= Exact * u => s <= u
  BY <1>3 DEF Spacing, Min
<1>5. s <= t /\ s \in Nat \ {0} /\ t \in Nat
  BY <1>0, <1>2, <1>4
<1>6. CASE s = t
  BY <1>1, <1>4, <1>5, <1>6
<1>7. CASE s < t
  <2>1. PICK q \in 1..t : t = 2 * q * s
    BY <1>7, <1>4, FloatAssumption
  <2>2. m * 2 * q \in Nat /\ x = (m * 2 * q) * s
    BY <1>0, <1>1, <1>5, <2>1
  <2>3. m * 2 * q <= Exact
    BY <1>0, <1>4, <1>5, <2>2, Cancel
  <2>4. m * 2 * q \in 0..Exact
    BY <1>0, <2>2, <2>3
  <2> QED BY <1>4, <1>5, <2>2, <2>4
<1> QED BY <1>5, <1>6, <1>7

(* Rounding a number below a float loses at most half of that distance. *)
LEMMA RoundedLoses ==
  ASSUME NEW max \in Numbers, NEW n \in Nat, n < max
  PROVE  2 * Rounded(n) >= 2 * n - Spacing(max)
<1> DEFINE s == Spacing(max)
<1>1. s \in Spacings /\ s \in Nat \ {0}
  BY SpacingFacts
<1>2. PICK m \in 0..Exact : max = m * s
  BY SpacingFacts
<1> HIDE DEF s
<1>3. Exact \in Nat /\ m \in Nat
  BY NumberFacts
<1>4. PICK k \in {i \in Nat : n < i * s} : \A i \in {j \in Nat : n < j * s} : k <= i
  <2>1. m \in {i \in Nat : n < i * s}
    BY <1>2, <1>3
  <2> QED BY <2>1, LeastNat
<1>5. k <= m /\ k \in Nat
  BY <1>2, <1>3, <1>4
<1>6. k # 0
  <2>1. 0 * s = 0
    BY <1>1
  <2> QED BY <1>4, <2>1
<1>7. k - 1 \in Nat /\ (k - 1) * s <= n
  <2>1. k - 1 \in Nat /\ ~(k <= k - 1)
    BY <1>5, <1>6
  <2>2. ~(n < (k - 1) * s)
    BY <1>4, <2>1
  <2>3. (k - 1) * s \in Nat
    BY <1>1, <2>1
  <2> QED BY <2>1, <2>2, <2>3
<1>8. k \in 0..Exact /\ k - 1 \in 0..Exact
  BY <1>3, <1>5, <1>7
<1>9. k * s \in Numbers /\ (k - 1) * s \in Numbers
  BY <1>1, <1>8 DEF Numbers
<1>10. k * s - (k - 1) * s = s
  BY <1>1, <1>5
<1>11. n <= k * s
  <2>1. k * s \in Nat
    BY <1>1, <1>5
  <2> QED BY <1>4, <2>1
<1>12. 2 * Rounded(n) >= 2 * n - (k * s - (k - 1) * s)
  BY <1>7, <1>9, <1>11, RoundedFacts
<1> QED BY <1>10, <1>12 DEF s

(* Multiples of that distance below the float are floats. *)
LEMMA MultipleIsFloat ==
  ASSUME NEW max \in Numbers, NEW q \in Nat, IsMultiple(q, Spacing(max)),
         NEW c \in Nat, c * q <= max
  PROVE  c * q \in Numbers
<1> DEFINE s == Spacing(max)
<1>1. s \in Spacings /\ s \in Nat \ {0}
  BY SpacingFacts
<1>2. PICK m \in 0..Exact : max = m * s
  BY SpacingFacts
<1>3. PICK j \in Nat : q = j * s
  BY DEF IsMultiple
<1> HIDE DEF s
<1>4. c * j \in Nat /\ c * q = (c * j) * s
  BY <1>1, <1>3
<1>5. m \in Nat /\ Exact \in Nat
  BY NumberFacts
<1>6. c * j <= m
  BY <1>1, <1>2, <1>4, <1>5, Cancel
<1>7. c * j \in 0..Exact
  BY <1>4, <1>5, <1>6
<1> QED BY <1>1, <1>4, <1>7 DEF Numbers

(* What a blow adds to the meter, at least, twice over. *)
Gain == 2 * srv.perParry - Slack

(* Since the last stun, or the last write of the settings, every blow that *)
(* was counted added its gain to the meter, which is below the maximum.    *)
GuardInv ==
  /\ Gt(srv.max, 0)
  /\ srv.posture # NaN
  /\ Gt(srv.perParry, 0)
  /\ parries > 0
  => /\ srv.posture < srv.max
     /\ parries * Gain <= 2 * srv.posture

LEMMA InitGuard == Init => GuardInv
BY DEF Init, GuardInv

LEMMA OneMore ==
  ASSUME NEW n \in Nat, NEW q \in Int
  PROVE  n * q \in Int /\ (n + 1) * q = n * q + q
OBVIOUS

LEMMA GainType ==
  ASSUME srv \in Displays, srv.max \in Numbers, srv.perParry \in Numbers
  PROVE  /\ Gain \in Int
         /\ \/ Gain = 2 * srv.perParry /\ IsMultiple(srv.perParry, Spacing(srv.max))
            \/ Gain = 2 * srv.perParry - Spacing(srv.max)
BY SpacingFacts, NumberFacts DEF Gain, Slack

(* A blow that does not break the guard adds its gain. *)
LEMMA BlowAdds ==
  ASSUME srv \in Displays, srv.max \in Numbers, srv.perParry \in Numbers,
         srv.posture \in Numbers, NEW c \in Nat, c * Gain <= 2 * srv.posture,
         Plus(srv.posture, srv.perParry) < srv.max
  PROVE  /\ (c + 1) * Gain <= 2 * Plus(srv.posture, srv.perParry)
         /\ c * Gain <= 2 * Plus(srv.posture, srv.perParry)
<1> DEFINE p == srv.posture
           q == srv.perParry
           max == srv.max
           n == p + q
           g == Gain
           r == Rounded(n)
<1>1. p \in Nat /\ q \in Nat /\ max \in Nat /\ n \in Nat /\ r \in Nat
  BY RoundedFacts, NumberFacts
<1>2. Plus(srv.posture, srv.perParry) = r
  BY NumberFacts DEF Plus
<1>3. n < max
  <2>1. ~(max <= r)
    BY <1>1, <1>2
  <2>2. max <= n => max <= r
    BY <1>1, RoundedFacts
  <2> QED BY <1>1, <2>1, <2>2
<1>4. p <= r
  BY <1>1, RoundedFacts
<1>5. g \in Int /\ (\/ g = 2 * q /\ IsMultiple(q, Spacing(max))
                    \/ g = 2 * q - Spacing(max))
  BY GainType
<1>6. c * g <= 2 * p /\ c * g \in Int /\ (c + 1) * g = c * g + g
  BY <1>5, OneMore
<1>7. CASE g = 2 * q /\ IsMultiple(q, Spacing(max))
  <2>1. c * q \in Nat /\ (c + 1) * q = c * q + q /\ c * g = 2 * (c * q)
    BY <1>1, <1>7, OneMore
  <2>2. (c + 1) * q <= n
    BY <1>1, <1>6, <2>1
  <2>3. (c + 1) * q \in Numbers
    BY <1>1, <1>3, <1>7, <2>1, <2>2, MultipleIsFloat
  <2>4. (c + 1) * q <= r
    BY <1>1, <2>2, <2>3, RoundedFacts
  <2> HIDE DEF g, p, r, n, q, max
  <2>5. c * q + q <= r
    BY <2>1, <2>4
  <2>6. c * g + g = 2 * (c * q + q)
    BY <1>1, <1>7, <2>1
  <2> QED BY <1>1, <1>2, <1>4, <1>6, <2>1, <2>5, <2>6 DEF g, p, q
<1>8. CASE g = 2 * q - Spacing(max)
  <2>1. Spacing(max) \in Nat
    BY SpacingFacts
  <2>2. 2 * r >= 2 * n - Spacing(max)
    BY <1>1, <1>3, RoundedLoses
  <2>3. n = p + q
    OBVIOUS
  <2> HIDE DEF g, p, r, n, q, max
  <2> QED BY <1>1, <1>2, <1>4, <1>6, <1>8, <2>1, <2>2, <2>3 DEF g, p, q
<1> QED BY <1>5, <1>7, <1>8

(* The meter and its count are as they were, or the count starts again. *)
LEMMA MeterStays ==
  ASSUME GuardInv,
         \/ /\ srv'.posture = srv.posture /\ srv'.max = srv.max
            /\ srv'.perParry = srv.perParry /\ parries' = parries
         \/ parries' = 0
  PROVE  GuardInv'
BY DEF GuardInv, Gt, Gain, Slack

LEMMA NextGuard == TypeOK /\ GuardInv /\ [Next]_vars => GuardInv'
<1> SUFFICES ASSUME TypeOK, GuardInv, [Next]_vars PROVE GuardInv'
  OBVIOUS
<1>0. srv \in Displays /\ parries \in 0..(Huge + 1)
  BY DEF TypeOK
<1>1. ASSUME NEW m \in Models, SetModel(m)
      PROVE  GuardInv'
  BY <1>0, <1>1, MeterStays DEF SetModel, Displays
<1>2. ASSUME NEW b \in BOOLEAN, SetAttackAIDisabled(b) \/ SetAnimationDamage(b)
      PROVE  GuardInv'
  BY <1>0, <1>2, MeterStays DEF SetAttackAIDisabled, SetAnimationDamage, Displays
<1>3. ASSUME NEW x \in Inputs,
             SetPosture(x) \/ SetPostureMax(x) \/ SetPosturePerParry(x)
      PROVE  GuardInv'
  BY <1>3, MeterStays
  DEF SetPosture, SetPostureMax, SetPosturePerParry, PostureWrite
<1>4. CASE AttackBlocked
  <2>1. NextPosture \in Floats /\ NextPosture = Plus(srv.posture, srv.perParry)
    BY <1>0, DisplayFields, PlusIsFloat, NonNegativeIsFloat DEF NextPosture
  <2>2. /\ srv'.max = srv.max /\ srv'.perParry = srv.perParry
        /\ srv'.posture = NonNegative(IF Breaks THEN 0 ELSE NextPosture)
        /\ parries' = IF Breaks THEN 0 ELSE AtMost(parries + 1, Huge + 1)
    BY <1>0, <1>4 DEF AttackBlocked, Displays
  <2>3. CASE Breaks
    BY <2>2, <2>3, MeterStays
  <2>4. CASE ~Breaks
    <3>1. srv'.posture = NextPosture
      BY <2>1, <2>2, <2>4, NonNegativeIsFloat
    <3>2. Gain' = Gain
      BY <2>2 DEF Gain, Slack
    <3> SUFFICES ASSUME Gt(srv.max, 0), NextPosture # NaN, Gt(srv.perParry, 0)
                 PROVE  /\ NextPosture < srv.max
                        /\ parries' * Gain <= 2 * NextPosture
      BY <2>2, <3>1, <3>2 DEF GuardInv
    <3>3. srv.posture # NaN
      BY <2>1 DEF Plus
    <3>4. srv.max \in Numbers /\ srv.posture \in Numbers /\ srv.perParry \in Numbers
      BY <1>0, <3>3, DisplayFields, NumberFacts DEF Gt
    <3>5. NextPosture < srv.max
      BY <2>1, <2>4, <3>4, NumberFacts DEF Breaks, Ge, Gt
    <3>6. parries \in Nat /\ parries' \in {parries, parries + 1}
      BY <1>0, <2>2, <2>4, NumberFacts DEF AtMost, Gt
    <3>7. parries * Gain <= 2 * srv.posture
      <4>1. CASE parries = 0
        <5>1. Gain \in Int /\ srv.posture \in Nat
          BY <1>0, <3>4, GainType, NumberFacts
        <5>2. 0 * Gain = 0
          BY <5>1
        <5> QED BY <4>1, <5>1, <5>2
      <4>2. CASE parries # 0
        BY <3>3, <3>6, <4>2 DEF GuardInv
      <4> QED BY <4>1, <4>2
    <3> QED BY <1>0, <2>1, <3>4, <3>5, <3>6, <3>7, BlowAdds
  <2> QED BY <2>3, <2>4
<1>5. ASSUME NEW c \in Clients, EditorStep(c)
      PROVE  GuardInv'
  BY <1>5, MeterStays
  DEF EditorStep, EditModel, EditAttackAI, EditAnimationDamage, Edit, SendSave
<1>6. ASSUME NEW c \in Clients, ServerReads(c)
      PROVE  GuardInv'
  BY <1>6, MeterStays DEF ServerReads
<1>7. ASSUME NEW c \in Clients, ClientReads(c) \/ Track(c) \/ Untrack(c)
      PROVE  GuardInv'
  BY <1>7, MeterStays DEF ClientReads, Track, Untrack
<1>8. CASE Reload
  <2>1. /\ srv'.posture = srv.posture /\ srv'.perParry = srv.perParry
        /\ srv'.max = IF srv.max = NaN THEN 0 ELSE srv.max
        /\ parries' = parries
    BY <1>0, <1>8, RestoredFields DEF Reload, Restored
  <2> QED BY <2>1, NumberFacts DEF GuardInv, Gt, Gain, Slack
<1>9. CASE Die \/ \E j \in Jvms : RegistryChanges(j)
  BY <1>9, MeterStays DEF Die, RegistryChanges
<1>10. CASE UNCHANGED vars
  BY <1>10, MeterStays DEF vars
<1> QED
  BY <1>1, <1>2, <1>3, <1>4, <1>5, <1>6, <1>7, <1>8, <1>9, <1>10
  DEF Next, ScriptStep

(* An NPC whose attacks keep being blocked is stunned before what its      *)
(* blows add comes to the maximum, for any floats and however they round:  *)
(* a blow adds its perParry, less half the distance of the floats below    *)
(* the maximum unless its perParry is a multiple of that.  A reload loses  *)
(* no blow.                                                                *)
THEOREM GuardIsBroken == Spec => []GuardBreaksInTime
<1>1. TypeOK /\ GuardInv => GuardBreaksInTime
  <2> SUFFICES ASSUME TypeOK, GuardInv,
                      Gt(srv.max, 0), srv.posture # NaN,
                      Gt(srv.perParry, 0), parries > 0
               PROVE  parries * Gain < 2 * srv.max
    BY DEF GuardBreaksInTime, Gain
  <2>1. /\ srv \in Displays
        /\ srv.posture \in Numbers /\ srv.max \in Numbers /\ srv.perParry \in Numbers
    BY DisplayFields, NumberFacts DEF TypeOK, Gt
  <2>2. srv.posture \in Nat /\ srv.max \in Nat /\ parries \in Nat
    BY <2>1, NumberFacts DEF TypeOK
  <2>3. parries * Gain \in Int
    BY <2>1, <2>2, GainType, OneMore
  <2>4. srv.posture < srv.max /\ parries * Gain <= 2 * srv.posture
    BY DEF GuardInv
  <2> QED BY <2>2, <2>3, <2>4
<1> QED BY <1>1, InitGuard, NextGuard, TypeCorrect, PTL DEF Spec

-----------------------------------------------------------------------------
(* The server's patch.                                                     *)

ServerPatch ==
  applied[Server] => patch[Server] # NoPatch /\ patch[Server].model = srv.model

LEMMA InitServerPatch == Init => ServerPatch
BY DEF Init, ServerPatch, Jvms

(* No step of the server takes a model away from the NPC, and each leaves  *)
(* the patches of the clients alone.                                       *)
LEMMA ModelIsKept ==
  ASSUME TypeOK, NEW tag \in Tags
  PROVE  /\ Read(srv, tag).model =
              (IF tag.efModel # NoModel THEN tag.efModel ELSE srv.model)
         /\ Restored(srv).model = srv.model
BY RestoredFields DEF Read, TypeOK

LEMMA NextServerPatch == TypeOK /\ ServerPatch /\ [Next]_vars => ServerPatch'
<1> SUFFICES ASSUME TypeOK, ServerPatch, [Next]_vars PROVE ServerPatch'
  OBVIOUS
<1>0. /\ Server \in Jvms /\ Clients \subseteq Jvms /\ Server \notin Clients
      /\ srv \in Displays
  BY DisplayNamesAssumption DEF Jvms, TypeOK
<1>a. ASSUME srv'.model = srv.model, applied'[Server] = applied[Server],
             patch'[Server] = patch[Server]
      PROVE  ServerPatch'
  BY <1>a DEF ServerPatch
<1>b. ASSUME NEW m \in Models, NEW dead \in BOOLEAN, srv'.model = m,
             Rebuild(Server, m, dead, patch[Server])
      PROVE  ServerPatch'
  BY <1>0, <1>b, RebuildType DEF ServerPatch
<1>1. ASSUME NEW m \in Models, SetModel(m)
      PROVE  ServerPatch'
  BY <1>0, <1>1, <1>b, FieldIsReplaced DEF SetModel
<1>2. ASSUME NEW b \in BOOLEAN, SetAttackAIDisabled(b)
      PROVE  ServerPatch'
  <2>1. srv'.model = srv.model
    BY <1>0, <1>2, FieldIsReplaced DEF SetAttackAIDisabled
  <2>2. CASE srv.model = NoModel
    BY <1>2, <1>a, <2>1, <2>2 DEF SetAttackAIDisabled
  <2>3. CASE srv.model # NoModel
    BY <1>0, <1>2, <1>b, <2>1, <2>3, DisplayFields DEF SetAttackAIDisabled
  <2> QED BY <2>2, <2>3
<1>3. ASSUME NEW b \in BOOLEAN, SetAnimationDamage(b)
      PROVE  ServerPatch'
  BY <1>0, <1>3, <1>a, FieldIsReplaced DEF SetAnimationDamage
<1>4. ASSUME NEW x \in Inputs,
             SetPosture(x) \/ SetPostureMax(x) \/ SetPosturePerParry(x)
      PROVE  ServerPatch'
  BY <1>0, <1>4, <1>a
  DEF SetPosture, SetPostureMax, SetPosturePerParry, PostureWrite, Displays
<1>5. CASE AttackBlocked
  BY <1>0, <1>5, <1>a DEF AttackBlocked, Displays
<1>6. ASSUME NEW c \in Clients, EditorStep(c)
      PROVE  ServerPatch'
  BY <1>6, <1>a
  DEF EditorStep, EditModel, EditAttackAI, EditAnimationDamage, Edit, SendSave
<1>7. ASSUME NEW c \in Clients, ServerReads(c)
      PROVE  ServerPatch'
  <2> DEFINE tag == Head(saves[c])
  <2>1. tag \in Tags
    BY <1>7, HeadTailProperties DEF ServerReads, TypeOK
  <2>2. srv'.model = IF tag.efModel # NoModel THEN tag.efModel ELSE srv.model
    BY <1>7, <2>1, ModelIsKept DEF ServerReads
  <2>3. CASE tag.efModel = NoModel
    BY <1>7, <1>a, <2>2, <2>3 DEF ServerReads, ReadPatch
  <2>4. CASE tag.efModel # NoModel
    <3>1. tag.efModel \in Models /\ killed \in BOOLEAN
      BY <2>1, <2>4 DEF Tags, TypeOK
    <3>2. Rebuild(Server, tag.efModel, killed, patch[Server])
      BY <1>7, <2>4 DEF ServerReads, ReadPatch
    <3> QED BY <1>b, <2>2, <2>4, <3>1, <3>2
  <2> QED BY <2>3, <2>4
<1>8. ASSUME NEW c \in Clients, ClientReads(c)
      PROVE  ServerPatch'
  <2>1. CASE Head(wire[c]).efModel = NoModel
    BY <1>8, <1>a, <2>1 DEF ClientReads, ReadPatch
  <2>2. CASE Head(wire[c]).efModel # NoModel
    <3>1. Head(wire[c]) \in Tags
      BY <1>8, HeadTailProperties DEF ClientReads, TypeOK
    <3>2. Head(wire[c]).efModel \in Models /\ killed \in BOOLEAN
      BY <2>2, <3>1 DEF Tags, TypeOK
    <3>3. Rebuild(c, Head(wire[c]).efModel, killed, patch[c])
      BY <1>8, <2>2 DEF ClientReads, ReadPatch
    <3>4. applied'[Server] = applied[Server] /\ patch'[Server] = patch[Server]
      BY <1>0, <3>2, <3>3, RebuildType
    <3>5. srv' = srv
      BY <1>8 DEF ClientReads
    <3> QED BY <1>a, <3>4, <3>5
  <2> QED BY <2>1, <2>2
<1>9. ASSUME NEW c \in Clients, Track(c) \/ Untrack(c)
      PROVE  ServerPatch'
  BY <1>0, <1>9, <1>a DEF Track, Untrack, TypeOK
<1>10. CASE Reload
  <2> DEFINE m == Save(srv).efModel
  <2>1. m = srv.model /\ srv'.model = srv.model
    BY <1>0, <1>10, ModelIsKept, SaveIsTag DEF Reload, Restored, Save
  <2>2. applied'[Server] <=> m \in usable[Server]
    BY <1>0, <1>10 DEF Reload, TypeOK
  <2>3. m \in usable[Server] => m \in Models /\ m # NoModel
    BY <1>0, DisplayNamesAssumption DEF TypeOK
  <2>4. m # NoModel => patch'[Server] = PatchFor(Server, m, killed, NoPatch)
    BY <1>0, <1>10 DEF Reload
  <2> HIDE DEF m
  <2>5. m \in usable[Server] => /\ patch'[Server] # NoPatch
                                /\ patch'[Server].model = m
    BY <1>0, <2>3, <2>4, PatchForType DEF TypeOK
  <2> QED BY <2>1, <2>2, <2>5 DEF ServerPatch
<1>11. CASE Die
  <2>1. \A p \in Patches : /\ [p EXCEPT !.dead = TRUE] \in Patches
                           /\ [p EXCEPT !.dead = TRUE].model = p.model
    BY DEF Patches
  <2>2. patch'[Server] = IF patch[Server] = NoPatch THEN NoPatch
                         ELSE [patch[Server] EXCEPT !.dead = TRUE]
    BY <1>0, <1>11 DEF Die
  <2>3. patch[Server] \in Patches \union {NoPatch} /\ NoPatch \notin Patches
    BY <1>0, NoneAssumption DEF TypeOK
  <2>4. srv' = srv /\ applied' = applied
    BY <1>11 DEF Die
  <2>5. patch[Server] # NoPatch => /\ patch'[Server] # NoPatch
                                   /\ patch'[Server].model = patch[Server].model
    BY <2>1, <2>2, <2>3
  <2> QED BY <2>4, <2>5 DEF ServerPatch
<1>12. CASE \E j \in Jvms : RegistryChanges(j)
  BY <1>12, <1>a DEF RegistryChanges
<1>13. CASE UNCHANGED vars
  BY <1>13, <1>a DEF vars
<1> QED
  BY <1>1, <1>2, <1>3, <1>4, <1>5, <1>6, <1>7, <1>8, <1>9, <1>10, <1>11, <1>12,
     <1>13
  DEF Next, ScriptStep

-----------------------------------------------------------------------------
(* What the clients are told.                                              *)

(* Tags come to a client in the order in which they were sent, and an NPC  *)
(* that was given a model keeps having one: once a client has seen a tag   *)
(* with a model, or is about to, all that follow have one.                 *)
HasModel(tag) == tag.efModel # NoModel

ModelKnown(c) ==
  /\ \A i \in 1..Len(wire[c]) : HasModel(wire[c][i]) => srv.model # NoModel
  /\ \A i, k \in 1..Len(wire[c]) :
       i < k /\ HasModel(wire[c][i]) => HasModel(wire[c][k])
  /\ applied[c] => /\ srv.model # NoModel
                   /\ \A i \in 1..Len(wire[c]) : HasModel(wire[c][i])

(* A client that does not watch the NPC has no part of it, and the last    *)
(* tag on its way to one is the display as the server knows it, but for    *)
(* the blows since.                                                        *)
Told(c) == [srv EXCEPT !.posture = told[c]]

Posted(c) ==
  /\ c \notin watching => wire[c] = <<>> /\ cli[c] = NoCopy
  /\ wire[c] # <<>> => wire[c][Len(wire[c])] = Save(Told(c))

(* A client's copy, when no tag is on its way. *)
Shows(c) ==
  /\ cli[c].posture = told[c]
  /\ cli[c].max = (IF srv.max = NaN THEN 0 ELSE srv.max)
  /\ cli[c].perParry = srv.perParry
  /\ "switches" \notin edited[c] => /\ cli[c].attackAIOff = srv.attackAIOff
                                    /\ cli[c].animDamage = srv.animDamage
  /\ "model" \notin edited[c] => cli[c].model = srv.model

Synced(c) ==
  cli[c] # NoCopy =>
    /\ wire[c] = <<>> => Shows(c)
    /\ "model" \notin edited[c] /\ cli[c].model # NoModel => srv.model # NoModel

ClientPatch(c) ==
  cli[c] # NoCopy /\ applied[c] /\ "model" \notin edited[c] =>
    patch[c] # NoPatch /\ patch[c].model = cli[c].model

ClientOk(c) == ModelKnown(c) /\ Posted(c) /\ Synced(c) /\ ClientPatch(c)

ClientInv == \A c \in Clients : ClientOk(c)

LEMMA InitClients == Init => ClientInv
<1> SUFFICES ASSUME Init, NEW c \in Clients PROVE ClientOk(c)
  BY DEF ClientInv
<1>1. /\ wire[c] = <<>> /\ cli[c] = NoCopy /\ ~applied[c]
  BY DEF Init, Jvms
<1>2. Len(wire[c]) = 0
  BY <1>1
<1> QED
  BY <1>1, <1>2 DEF ClientOk, ModelKnown, Posted, Synced, ClientPatch

(* A step that is not about the client c. *)
Untouched(c) ==
  /\ Told(c)' = Told(c)
  /\ srv'.model = srv.model /\ srv'.max = srv.max /\ srv'.perParry = srv.perParry
  /\ srv'.attackAIOff = srv.attackAIOff /\ srv'.animDamage = srv.animDamage
  /\ wire'[c] = wire[c] /\ cli'[c] = cli[c] /\ told'[c] = told[c]
  /\ edited'[c] = edited[c] /\ applied'[c] = applied[c]
  /\ c \in watching' <=> c \in watching
  /\ patch[c] # NoPatch => patch'[c] # NoPatch /\ patch'[c].model = patch[c].model

LEMMA UntouchedIsOk ==
  ASSUME NEW c \in Clients, ClientOk(c), Untouched(c)
  PROVE  ClientOk(c)'
<1>1. ModelKnown(c)'
  BY DEF ClientOk, Untouched, ModelKnown
<1>2. Posted(c)'
  BY DEF ClientOk, Untouched, Posted
<1>3. Synced(c)'
  BY DEF ClientOk, Untouched, Synced, Shows
<1>4. ClientPatch(c)'
  BY DEF ClientOk, Untouched, ClientPatch
<1> QED BY <1>1, <1>2, <1>3, <1>4 DEF ClientOk

(* The client c loses the NPC. *)
Lost(c) ==
  /\ wire'[c] = <<>> /\ cli'[c] = NoCopy /\ applied'[c] = applied[c]
  /\ srv'.model = srv.model

LEMMA LostIsOk ==
  ASSUME NEW c \in Clients, ClientOk(c), Lost(c)
  PROVE  ClientOk(c)'
<1>1. Len(wire'[c]) = 0
  BY DEF Lost
<1> QED
  BY <1>1 DEF ClientOk, Lost, ModelKnown, Posted, Synced, ClientPatch

(* A script or an editor writes to the server's display. *)
Announces ==
  /\ srv' \in Displays
  /\ Announce(srv')
  /\ UNCHANGED <<cli, edited, watching>>
  /\ srv.model # NoModel => srv'.model # NoModel
  /\ \A c \in Clients : patch'[c] = patch[c] /\ applied'[c] = applied[c]

LEMMA ServerAnnounces ==
  ASSUME TypeOK, TypeOK', ScriptStep \/ \E c \in Clients : ServerReads(c)
  PROVE  Announces
<1>0. /\ Server \in Jvms /\ Clients \subseteq Jvms /\ Server \notin Clients
      /\ srv \in Displays /\ srv' \in Displays
  BY DisplayNamesAssumption DEF Jvms, TypeOK
<1>1. ASSUME NEW m \in Models, SetModel(m)
      PROVE  Announces
  <2>1. srv'.model = m /\ m # NoModel
    BY <1>0, <1>1, FieldIsReplaced, DisplayNamesAssumption DEF SetModel
  <2>2. Rebuild(Server, m, FALSE, patch[Server])
    BY <1>1 DEF SetModel
  <2>3. \A c \in Clients : patch'[c] = patch[c] /\ applied'[c] = applied[c]
    BY <1>0, <2>2, RebuildType
  <2> QED BY <1>0, <1>1, <2>1, <2>3 DEF SetModel, Announces
<1>2. ASSUME NEW b \in BOOLEAN, SetAttackAIDisabled(b)
      PROVE  Announces
  <2>1. srv'.model = srv.model
    BY <1>0, <1>2, FieldIsReplaced DEF SetAttackAIDisabled
  <2>2. \A c \in Clients : patch'[c] = patch[c] /\ applied'[c] = applied[c]
    <3>1. CASE srv.model = NoModel
      BY <1>2, <3>1 DEF SetAttackAIDisabled
    <3>2. CASE srv.model # NoModel
      BY <1>0, <1>2, <3>2, RebuildType, DisplayFields DEF SetAttackAIDisabled
    <3> QED BY <3>1, <3>2
  <2> QED BY <1>0, <1>2, <2>1, <2>2 DEF SetAttackAIDisabled, Announces
<1>3. ASSUME NEW b \in BOOLEAN, SetAnimationDamage(b)
      PROVE  Announces
  <2>1. srv'.model = srv.model
    BY <1>0, <1>3, FieldIsReplaced DEF SetAnimationDamage
  <2> QED BY <1>0, <1>3, <2>1 DEF SetAnimationDamage, Announces
<1>4. ASSUME NEW x \in Inputs,
             SetPosture(x) \/ SetPostureMax(x) \/ SetPosturePerParry(x)
      PROVE  Announces
  <2>1. srv'.model = srv.model
    BY <1>0, <1>4
    DEF SetPosture, SetPostureMax, SetPosturePerParry, PostureWrite, Displays
  <2>2. PICK d : d = srv' /\ PostureWrite(d)
    BY <1>4
    DEF SetPosture, SetPostureMax, SetPosturePerParry, PostureWrite
  <2>3. Announce(srv')
    BY <2>2 DEF PostureWrite
  <2> QED BY <1>0, <2>1, <2>2, <2>3 DEF PostureWrite, Announces
<1>5. ASSUME NEW c \in Clients, ServerReads(c)
      PROVE  Announces
  <2> DEFINE tag == Head(saves[c])
  <2>1. tag \in Tags
    BY <1>5, HeadTailProperties DEF ServerReads, TypeOK
  <2>2. srv'.model = IF tag.efModel # NoModel THEN tag.efModel ELSE srv.model
    BY <1>5, <2>1, ModelIsKept DEF ServerReads
  <2>3. \A k \in Clients : patch'[k] = patch[k] /\ applied'[k] = applied[k]
    <3>1. CASE tag.efModel = NoModel
      BY <1>5, <3>1 DEF ServerReads, ReadPatch
    <3>2. CASE tag.efModel # NoModel
      <4>1. tag.efModel \in Models /\ killed \in BOOLEAN
        BY <2>1, <3>2 DEF Tags, TypeOK
      <4>2. Rebuild(Server, tag.efModel, killed, patch[Server])
        BY <1>5, <3>2 DEF ServerReads, ReadPatch
      <4> QED BY <1>0, <4>1, <4>2, RebuildType
    <3> QED BY <3>1, <3>2
  <2> QED BY <1>0, <1>5, <2>2, <2>3 DEF ServerReads, Announces
<1> QED BY <1>1, <1>2, <1>3, <1>4, <1>5 DEF ScriptStep

LEMMA AnnouncedIsOk ==
  ASSUME TypeOK, NEW c \in Clients, ClientOk(c), Announces
  PROVE  ClientOk(c)'
<1>1. /\ cli'[c] = cli[c] /\ edited'[c] = edited[c]
      /\ c \in watching' <=> c \in watching
      /\ patch'[c] = patch[c] /\ applied'[c] = applied[c]
      /\ srv.model # NoModel => srv'.model # NoModel
  BY DEF Announces
<1>2. /\ wire'[c] = IF c \in watching THEN Append(wire[c], Save(srv')) ELSE wire[c]
      /\ told'[c] = IF c \in watching THEN srv'.posture ELSE told[c]
  BY DEF Announces, Announce
<1>3. CASE c \notin watching
  <2>1. wire'[c] = <<>> /\ cli'[c] = NoCopy
    BY <1>1, <1>2, <1>3 DEF ClientOk, Posted
  <2>2. Len(wire'[c]) = 0
    BY <2>1
  <2> QED
    BY <1>1, <2>1, <2>2 DEF ClientOk, ModelKnown, Posted, Synced, ClientPatch
<1>4. CASE c \in watching
  <2>1. /\ Save(srv') \in Tags /\ Save(srv').efModel = srv'.model
        /\ [srv' EXCEPT !.posture = srv'.posture] = srv'
    <3>1. PICK d \in Displays : d = srv'
      BY DEF Announces
    <3>2. [d EXCEPT !.posture = d.posture] = d
      BY DEF Displays
    <3> QED BY <3>1, <3>2, SaveIsTag DEF Save
  <2>2. wire[c] \in Seq(Tags) /\ Len(wire[c]) \in Nat
    BY DEF TypeOK
  <2>3. /\ wire'[c] # <<>> /\ Len(wire'[c]) = Len(wire[c]) + 1
        /\ \A i \in 1..Len(wire[c]) : wire'[c][i] = wire[c][i]
        /\ wire'[c][Len(wire[c]) + 1] = Save(srv')
    BY <1>2, <1>4, <2>1, <2>2, AppendProperties
  <2>4. ModelKnown(c)'
    <3>1. \A i \in 1..Len(wire'[c]) :
            HasModel(wire'[c][i]) => srv'.model # NoModel
      BY <1>1, <2>1, <2>2, <2>3 DEF ClientOk, ModelKnown, HasModel
    <3>2. ASSUME NEW i \in 1..Len(wire'[c]), NEW k \in 1..Len(wire'[c]),
                 i < k, HasModel(wire'[c][i])
          PROVE  HasModel(wire'[c][k])
      <4>1. CASE k = Len(wire[c]) + 1
        <5>1. srv'.model # NoModel
          BY <3>1, <3>2, Zenon
        <5>2. wire'[c][k].efModel = srv'.model
          BY <2>1, <2>3, <4>1, Zenon
        <5> QED BY <5>1, <5>2, Zenon DEF HasModel
      <4>2. CASE k # Len(wire[c]) + 1
        <5>1. i \in 1..Len(wire[c]) /\ k \in 1..Len(wire[c])
          BY <2>2, <2>3, <3>2, <4>2
        <5>2. wire'[c][i] = wire[c][i] /\ wire'[c][k] = wire[c][k]
          BY <2>3, <5>1
        <5>3. HasModel(wire[c][i]) => HasModel(wire[c][k])
          BY <3>2, <5>1 DEF ClientOk, ModelKnown
        <5> QED BY <3>2, <5>2, <5>3, Zenon DEF HasModel
      <4> QED BY <4>1, <4>2
    <3>3. ASSUME applied'[c]
          PROVE  /\ srv'.model # NoModel
                 /\ \A i \in 1..Len(wire'[c]) : HasModel(wire'[c][i])
      <4>1. srv.model # NoModel /\ srv'.model # NoModel
        BY <1>1, <3>3 DEF ClientOk, ModelKnown
      <4>2. \A i \in 1..Len(wire[c]) : HasModel(wire[c][i])
        BY <1>1, <3>3 DEF ClientOk, ModelKnown
      <4> QED BY <2>1, <2>2, <2>3, <4>1, <4>2 DEF HasModel
    <3> QED BY <3>1, <3>2, <3>3 DEF ModelKnown
  <2>5. Posted(c)'
    BY <1>1, <1>2, <1>4, <2>1, <2>3 DEF Posted, Told
  <2>6. Synced(c)'
    BY <1>1, <2>3 DEF ClientOk, Synced
  <2>7. ClientPatch(c)'
    BY <1>1 DEF ClientOk, ClientPatch
  <2> QED BY <2>4, <2>5, <2>6, <2>7 DEF ClientOk
<1> QED BY <1>3, <1>4

LEMMA EditedIsOk ==
  ASSUME TypeOK, NEW c \in Clients, ClientOk(c),
         \/ \E m \in Models : EditModel(c, m)
         \/ EditAttackAI(c) \/ EditAnimationDamage(c)
  PROVE  ClientOk(c)'
<1>1. /\ cli[c] \in Displays /\ cli[c] # NoCopy
      /\ UNCHANGED <<srv, patch, usable, killed, watching, wire, saves, told,
                     applied, parries>>
  BY DEF EditModel, EditAttackAI, EditAnimationDamage, Edit, TypeOK
<1>2. ModelKnown(c)'
  BY <1>1 DEF ClientOk, ModelKnown
<1>3. Posted(c)'
  BY <1>1 DEF ClientOk, Posted, Told
<1>4. CASE \E m \in Models : EditModel(c, m)
  <2>1. PICK m \in Models : EditModel(c, m)
    BY <1>4
  <2>2. /\ cli'[c] = [cli[c] EXCEPT !.model = m]
        /\ edited'[c] = edited[c] \union {"model"}
    BY <2>1 DEF EditModel, Edit, TypeOK
  <2>3. /\ cli'[c].posture = cli[c].posture /\ cli'[c].max = cli[c].max
        /\ cli'[c].perParry = cli[c].perParry
        /\ cli'[c].attackAIOff = cli[c].attackAIOff
        /\ cli'[c].animDamage = cli[c].animDamage
    BY <1>1, <2>2 DEF Displays
  <2> QED
    BY <1>1, <1>2, <1>3, <2>2, <2>3
    DEF ClientOk, Synced, Shows, ClientPatch
<1>5. CASE EditAttackAI(c) \/ EditAnimationDamage(c)
  <2>1. /\ cli'[c].posture = cli[c].posture /\ cli'[c].max = cli[c].max
        /\ cli'[c].perParry = cli[c].perParry /\ cli'[c].model = cli[c].model
        /\ edited'[c] = edited[c] \union {"switches"}
    BY <1>1, <1>5 DEF EditAttackAI, EditAnimationDamage, Edit, TypeOK, Displays
  <2>2. Synced(c)'
    BY <1>1, <2>1 DEF ClientOk, Synced, Shows
  <2>3. ClientPatch(c)'
    BY <1>1, <2>1 DEF ClientOk, ClientPatch
  <2> QED BY <1>2, <1>3, <2>2, <2>3 DEF ClientOk
<1> QED BY <1>4, <1>5

LEMMA TrackedIsOk ==
  ASSUME TypeOK, NEW c \in Clients, ClientOk(c), Track(c)
  PROVE  ClientOk(c)'
<1>1. /\ wire'[c] = <<Save(srv)>> /\ told'[c] = srv.posture
      /\ c \in watching' /\ c \notin watching
      /\ UNCHANGED <<srv, cli, patch, usable, killed, saves, edited, applied, parries>>
  BY DEF Track, TypeOK
<1>2. cli'[c] = NoCopy
  BY <1>1 DEF ClientOk, Posted
<1>3. Len(wire'[c]) = 1 /\ wire'[c][1] = Save(srv) /\ wire'[c] # <<>>
  BY <1>1
<1>4. Save(srv).efModel = srv.model /\ [srv EXCEPT !.posture = srv.posture] = srv
  BY DEF Save, TypeOK, Displays
<1>5. ModelKnown(c)'
  BY <1>1, <1>3, <1>4 DEF ClientOk, ModelKnown, HasModel
<1>6. Posted(c)'
  BY <1>1, <1>3, <1>4 DEF Posted, Told
<1> QED BY <1>2, <1>5, <1>6 DEF ClientOk, Synced, ClientPatch

(* The client c reads the next tag. *)
LEMMA ReaderIsOk ==
  ASSUME TypeOK, TypeOK', NEW c \in Clients, ClientOk(c), ClientReads(c)
  PROVE  ClientOk(c)'
<1> DEFINE tag == Head(wire[c])
           old == IF cli[c] = NoCopy THEN Fresh ELSE cli[c]
           n == Len(wire[c])
<1>0. c \in Jvms /\ srv \in Displays /\ NoCopy \notin Displays
  BY NoneAssumption DEF TypeOK, Jvms
<1>1. /\ wire[c] \in Seq(Tags) /\ wire[c] # <<>> /\ tag \in Tags
      /\ tag = wire[c][1] /\ n \in Nat \ {0}
      /\ wire'[c] = Tail(wire[c]) /\ Len(wire'[c]) = n - 1
      /\ \A i \in 1..(n - 1) : wire'[c][i] = wire[c][i + 1]
  BY HeadTailProperties, EmptySeq DEF ClientReads, TypeOK
<1>2. old \in Displays /\ cli'[c] = Read(old, tag) /\ cli'[c] \in Displays
  BY <1>1, FreshIsDisplay, ReadIsDisplay DEF ClientReads, TypeOK
<1>3. /\ srv' = srv /\ told' = told /\ watching' = watching
      /\ edited'[c] = edited[c] \ (IF tag.efModel # NoModel
                                   THEN {"model", "switches"} ELSE {"switches"})
  BY DEF ClientReads, TypeOK
<1>4. c \in watching
  BY <1>1 DEF ClientOk, Posted
<1>5. cli'[c].model = IF tag.efModel # NoModel THEN tag.efModel ELSE old.model
  BY <1>2 DEF Read
<1>6. HasModel(tag) => /\ srv.model # NoModel
                       /\ \A i \in 1..n : HasModel(wire[c][i])
  BY <1>1 DEF ClientOk, ModelKnown
<1>7. applied'[c] => /\ HasModel(tag)
                     /\ patch'[c] # NoPatch /\ patch'[c].model = tag.efModel
  <2>1. CASE ~HasModel(tag)
    <3>1. applied' = applied
      BY <2>1 DEF ClientReads, ReadPatch, HasModel
    <3>2. ~applied[c]
      BY <1>1, <2>1 DEF ClientOk, ModelKnown
    <3> QED BY <2>1, <3>1, <3>2
  <2>2. CASE HasModel(tag)
    <3>1. tag.efModel \in Models /\ killed \in BOOLEAN
      BY <1>1, <2>2 DEF Tags, HasModel, TypeOK
    <3>2. Rebuild(c, tag.efModel, killed, patch[c])
      BY <2>2 DEF ClientReads, ReadPatch, HasModel
    <3>3. applied'[c] => patch'[c] # NoPatch /\ patch'[c].model = tag.efModel
      BY <1>0, <3>1, <3>2, RebuildType
    <3> QED BY <2>2, <3>3
  <2> QED BY <2>1, <2>2
<1>8. ModelKnown(c)'
  <2>1. \A i \in 1..(n - 1) : i + 1 \in 1..n
    BY <1>1
  <2>2. \A i \in 1..Len(wire'[c]) : HasModel(wire'[c][i]) => srv'.model # NoModel
    BY <1>1, <1>3, <2>1 DEF ClientOk, ModelKnown
  <2>3. ASSUME NEW i \in 1..Len(wire'[c]), NEW k \in 1..Len(wire'[c]),
               i < k, HasModel(wire'[c][i])
        PROVE  HasModel(wire'[c][k])
    <3>1. i + 1 \in 1..n /\ k + 1 \in 1..n /\ i + 1 < k + 1
      BY <1>1, <2>1, <2>3
    <3>2. wire'[c][i] = wire[c][i + 1] /\ wire'[c][k] = wire[c][k + 1]
      BY <1>1, <2>3
    <3> HIDE DEF n
    <3> QED BY <2>3, <3>1, <3>2 DEF ClientOk, ModelKnown, n
  <2>4. applied'[c] => /\ srv'.model # NoModel
                       /\ \A i \in 1..Len(wire'[c]) : HasModel(wire'[c][i])
    BY <1>1, <1>3, <1>6, <1>7, <2>1
  <2> QED BY <2>2, <2>3, <2>4 DEF ModelKnown
<1>9. Posted(c)'
  <2>1. c \in watching'
    BY <1>3, <1>4
  <2>2. ASSUME wire'[c] # <<>>
        PROVE  wire'[c][Len(wire'[c])] = Save(Told(c))
    <3>1. wire'[c] \in Seq(Tags)
      BY DEF TypeOK
    <3>2. Len(wire'[c]) \in Nat \ {0}
      BY <2>2, <3>1, EmptySeq
    <3>3. n - 1 \in 1..(n - 1) /\ (n - 1) + 1 = n
      <4> HIDE DEF n
      <4>1. n \in Nat /\ n - 1 \in Nat \ {0}
        BY <1>1, <3>2
      <4> QED BY <4>1
    <3>4. wire[c][n] = Save(Told(c))
      BY <1>1 DEF ClientOk, Posted
    <3> QED BY <1>1, <3>3, <3>4
  <2>3. Told(c)' = Told(c)
    BY <1>3 DEF Told
  <2> QED BY <2>1, <2>2, <2>3 DEF Posted
<1>10. Synced(c)'
  <2>1. /\ "model" \notin edited'[c] /\ cli'[c].model # NoModel
        => srv'.model # NoModel
    <3>1. CASE HasModel(tag)
      BY <1>3, <1>6, <3>1
    <3>2. CASE ~HasModel(tag)
      <4>1. "model" \notin edited'[c] => "model" \notin edited[c]
        BY <1>3, <3>2 DEF HasModel
      <4>2. cli'[c].model = old.model
        BY <1>5, <3>2 DEF HasModel
      <4>3. old.model # NoModel => cli[c] # NoCopy /\ old = cli[c]
        BY DEF Fresh
      <4> QED BY <1>3, <4>1, <4>2, <4>3 DEF ClientOk, Synced
    <3> QED BY <3>1, <3>2
  <2>2. ASSUME wire'[c] = <<>>
        PROVE  Shows(c)'
    <3>1. n = 1
      <4> HIDE DEF n
      <4>1. n \in Nat /\ n - 1 = 0
        BY <1>1, <2>2, EmptySeq
      <4> QED BY <4>1
    <3>2. tag = Save(Told(c))
      BY <1>1, <3>1 DEF ClientOk, Posted
    <3>3. /\ Told(c) \in Displays /\ Told(c).posture = told[c]
          /\ Told(c).max = srv.max /\ Told(c).perParry = srv.perParry
          /\ Told(c).attackAIOff = srv.attackAIOff
          /\ Told(c).animDamage = srv.animDamage /\ Told(c).model = srv.model
      BY DEF TypeOK, Told, Displays
    <3>4. /\ cli'[c].posture = told[c]
          /\ cli'[c].max = (IF srv.max = NaN THEN 0 ELSE srv.max)
          /\ cli'[c].perParry = srv.perParry
          /\ cli'[c].attackAIOff = srv.attackAIOff
          /\ cli'[c].animDamage = srv.animDamage
      BY <1>2, <3>2, <3>3, ReadSaved
    <3>5. tag.efModel = srv.model
      BY <3>2, <3>3 DEF Save
    <3>6. "model" \notin edited'[c] => cli'[c].model = srv.model
      BY <1>3, <1>5, <2>1, <3>5
    <3> QED BY <1>3, <3>4, <3>6 DEF Shows
  <2> QED BY <2>1, <2>2 DEF Synced
<1>11. ClientPatch(c)'
  BY <1>5, <1>7 DEF ClientPatch, HasModel
<1> QED BY <1>8, <1>9, <1>10, <1>11 DEF ClientOk

LEMMA NextClients ==
  TypeOK /\ TypeOK' /\ ClientInv /\ [Next]_vars => ClientInv'
<1> SUFFICES ASSUME TypeOK, TypeOK', ClientInv, [Next]_vars, NEW c \in Clients
             PROVE  ClientOk(c)'
  BY DEF ClientInv
<1>0. /\ ClientOk(c) /\ c \in Jvms /\ Server \in Jvms /\ Server # c
      /\ srv \in Displays /\ Clients \subseteq Jvms
  BY DisplayNamesAssumption DEF ClientInv, Jvms, TypeOK
<1>1. CASE ScriptStep \/ \E k \in Clients : ServerReads(k)
  BY <1>0, <1>1, ServerAnnounces, AnnouncedIsOk
<1>2. CASE AttackBlocked
  <2>1. PICK x : srv' = [srv EXCEPT !.posture = x]
    BY <1>2 DEF AttackBlocked
  <2>2. [[srv EXCEPT !.posture = x] EXCEPT !.posture = told[c]]
          = [srv EXCEPT !.posture = told[c]]
    BY <1>0 DEF Displays
  <2>3. told' = told
    BY <1>2 DEF AttackBlocked
  <2>4. Told(c)' = Told(c)
    BY <2>1, <2>2, <2>3 DEF Told
  <2>5. /\ srv'.model = srv.model /\ srv'.max = srv.max
        /\ srv'.perParry = srv.perParry
        /\ srv'.attackAIOff = srv.attackAIOff /\ srv'.animDamage = srv.animDamage
    BY <1>0, <2>1 DEF Displays
  <2>6. Untouched(c)
    BY <1>2, <2>4, <2>5 DEF AttackBlocked, Untouched
  <2> QED BY <1>0, <2>6, UntouchedIsOk
<1>3. ASSUME NEW k \in Clients, EditorStep(k)
      PROVE  ClientOk(c)'
  <2>1. CASE k # c \/ SendSave(k)
    <3>1. cli'[c] = cli[c] /\ edited'[c] = edited[c]
      BY <1>3, <2>1
      DEF EditorStep, EditModel, EditAttackAI, EditAnimationDamage, Edit, SendSave,
          TypeOK
    <3>2. UNCHANGED <<srv, patch, watching, wire, told, applied>>
      BY <1>3
      DEF EditorStep, EditModel, EditAttackAI, EditAnimationDamage, Edit, SendSave
    <3>3. Untouched(c)
      BY <3>1, <3>2 DEF Untouched, Told
    <3> QED BY <1>0, <3>3, UntouchedIsOk
  <2>2. CASE k = c /\ ~SendSave(k)
    BY <1>0, <1>3, <2>2, EditedIsOk DEF EditorStep
  <2> QED BY <2>1, <2>2
<1>4. ASSUME NEW k \in Clients, ClientReads(k)
      PROVE  ClientOk(c)'
  <2>1. CASE k = c
    BY <1>0, <1>4, <2>1, ReaderIsOk
  <2>2. CASE k # c
    <3>1. /\ wire'[c] = wire[c] /\ cli'[c] = cli[c] /\ edited'[c] = edited[c]
          /\ UNCHANGED <<srv, watching, told>>
      BY <1>4, <2>2 DEF ClientReads, TypeOK
    <3>2. patch'[c] = patch[c] /\ applied'[c] = applied[c]
      <4>1. CASE Head(wire[k]).efModel = NoModel
        BY <1>4, <4>1 DEF ClientReads, ReadPatch
      <4>2. CASE Head(wire[k]).efModel # NoModel
        <5>1. Head(wire[k]) \in Tags
          BY <1>4, HeadTailProperties DEF ClientReads, TypeOK
        <5>2. Head(wire[k]).efModel \in Models /\ killed \in BOOLEAN
          BY <4>2, <5>1 DEF Tags, TypeOK
        <5>3. Rebuild(k, Head(wire[k]).efModel, killed, patch[k])
          BY <1>4, <4>2 DEF ClientReads, ReadPatch
        <5> QED BY <1>0, <2>2, <5>2, <5>3, RebuildType
      <4> QED BY <4>1, <4>2
    <3>3. Untouched(c)
      BY <3>1, <3>2 DEF Untouched, Told
    <3> QED BY <1>0, <3>3, UntouchedIsOk
  <2> QED BY <2>1, <2>2
<1>5. ASSUME NEW k \in Clients, Track(k)
      PROVE  ClientOk(c)'
  <2>1. CASE k = c
    BY <1>0, <1>5, <2>1, TrackedIsOk
  <2>2. CASE k # c
    <3>1. /\ wire'[c] = wire[c] /\ told'[c] = told[c]
          /\ c \in watching' <=> c \in watching
          /\ UNCHANGED <<srv, cli, patch, edited, applied>>
      BY <1>5, <2>2 DEF Track, TypeOK
    <3>2. Untouched(c)
      BY <3>1 DEF Untouched, Told
    <3> QED BY <1>0, <3>2, UntouchedIsOk
  <2> QED BY <2>1, <2>2
<1>6. ASSUME NEW k \in Clients, Untrack(k)
      PROVE  ClientOk(c)'
  <2>1. CASE k = c
    <3>1. Lost(c)
      BY <1>6, <2>1 DEF Untrack, Lost, TypeOK
    <3> QED BY <1>0, <3>1, LostIsOk
  <2>2. CASE k # c
    <3>1. /\ wire'[c] = wire[c] /\ cli'[c] = cli[c] /\ patch'[c] = patch[c]
          /\ edited'[c] = edited[c]
          /\ c \in watching' <=> c \in watching
          /\ UNCHANGED <<srv, told, applied>>
      BY <1>0, <1>6, <2>2 DEF Untrack, TypeOK
    <3>2. Untouched(c)
      BY <3>1 DEF Untouched, Told
    <3> QED BY <1>0, <3>2, UntouchedIsOk
  <2> QED BY <2>1, <2>2
<1>7. CASE Reload
  <2>1. srv'.model = srv.model
    BY <1>0, <1>7, ModelIsKept, SaveIsTag DEF Reload, Restored
  <2>2. wire'[c] = <<>> /\ cli'[c] = NoCopy
    BY <1>7 DEF Reload
  <2>3. applied'[c] = applied[c]
    BY <1>0, <1>7 DEF Reload, TypeOK
  <2>4. Lost(c)
    BY <2>1, <2>2, <2>3 DEF Lost
  <2> QED BY <1>0, <2>4, LostIsOk
<1>8. CASE Die
  <2>1. \A p \in Patches : /\ [p EXCEPT !.dead = TRUE] \in Patches
                           /\ [p EXCEPT !.dead = TRUE].model = p.model
    BY DEF Patches
  <2>2. patch'[c] = IF patch[c] = NoPatch THEN NoPatch
                    ELSE [patch[c] EXCEPT !.dead = TRUE]
    BY <1>0, <1>8 DEF Die
  <2>3. patch[c] \in Patches \union {NoPatch} /\ NoPatch \notin Patches
    BY <1>0, NoneAssumption DEF TypeOK
  <2>4. patch[c] # NoPatch => patch'[c] # NoPatch /\ patch'[c].model = patch[c].model
    BY <2>1, <2>2, <2>3
  <2>5. UNCHANGED <<srv, cli, watching, wire, told, edited, applied>>
    BY <1>8 DEF Die
  <2>6. Untouched(c)
    BY <2>4, <2>5 DEF Untouched, Told
  <2> QED BY <1>0, <2>6, UntouchedIsOk
<1>9. CASE (\E j \in Jvms : RegistryChanges(j)) \/ UNCHANGED vars
  <2>1. UNCHANGED <<srv, cli, patch, watching, wire, told, edited, applied>>
    BY <1>9 DEF RegistryChanges, vars
  <2>2. Untouched(c)
    BY <2>1 DEF Untouched, Told
  <2> QED BY <1>0, <2>2, UntouchedIsOk
<1> QED
  BY <1>1, <1>2, <1>3, <1>4, <1>5, <1>6, <1>7, <1>8, <1>9 DEF Next

LEMMA DisplayInvariant == Spec => [](TypeOK /\ ServerPatch /\ ClientInv)
<1>1. Init => TypeOK /\ ServerPatch /\ ClientInv
  BY InitType, InitServerPatch, InitClients
<1>2. TypeOK /\ ServerPatch /\ ClientInv /\ [Next]_vars
      => (TypeOK /\ ServerPatch /\ ClientInv)'
  BY NextType, NextServerPatch, NextClients
<1> QED BY <1>1, <1>2, PTL DEF Spec

(* In every JVM the patch in use was made for the model the display shows, *)
(* unless that model had no usable provider when it was applied, or a      *)
(* client's editor picked a model for itself: setEFModel assigns the field *)
(* before it rebuilds, and a tag that has no model comes to no client that *)
(* has rebuilt a patch for one.                                            *)
THEOREM PatchIsForTheModel == Spec => []PatchFollowsModel
<1>1. TypeOK /\ ServerPatch /\ ClientInv => PatchFollowsModel
  BY DEF ServerPatch, ClientInv, ClientOk, ClientPatch, PatchFollowsModel
<1> QED BY <1>1, DisplayInvariant, PTL

(* A client that has read all it was sent shows what the server holds,     *)
(* whatever scripts, editors of other clients and blocked attacks came in  *)
(* between, but for the blows since it was told and what its own editor    *)
(* changed.                                                                *)
THEOREM ClientCatchesUp == Spec => []CaughtUpClientAgrees
<1>1. TypeOK /\ ServerPatch /\ ClientInv => CaughtUpClientAgrees
  <2> SUFFICES ASSUME TypeOK, ClientInv, NEW c \in Clients,
                      cli[c] # NoCopy, wire[c] = <<>>
               PROVE  LET d == Restored(Told(c)) IN
                      /\ cli[c].posture = d.posture
                      /\ cli[c].max = d.max
                      /\ cli[c].perParry = d.perParry
                      /\ "switches" \notin edited[c] =>
                           /\ cli[c].attackAIOff = d.attackAIOff
                           /\ cli[c].animDamage = d.animDamage
                      /\ "model" \notin edited[c] => cli[c].model = d.model
    BY DEF CaughtUpClientAgrees, Told
  <2>1. Shows(c)
    BY DEF ClientInv, ClientOk, Synced
  <2>2. /\ Told(c) \in Displays /\ Told(c).posture = told[c]
        /\ Told(c).max = srv.max /\ Told(c).perParry = srv.perParry
        /\ Told(c).attackAIOff = srv.attackAIOff
        /\ Told(c).animDamage = srv.animDamage /\ Told(c).model = srv.model
    BY DEF TypeOK, Told, Displays
  <2> QED BY <2>1, <2>2, RestoredFields DEF Shows
<1> QED BY <1>1, DisplayInvariant, PTL

===============================================================================
