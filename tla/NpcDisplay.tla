------------------------------ MODULE NpcDisplay ------------------------------
(***************************************************************************)
(* The display data the addon keeps for an NPC (MixinDataDisplay): the     *)
(* model, two switches and the posture meter.  The server's copy is        *)
(* written by scripts (MixinNPCWrapper), by blocked attacks                *)
(* (MixinLivingEntityPatch) and by the editor of a client                  *)
(* (MixinGuiCreationEntities); it is saved as a tag when the NPC is        *)
(* unloaded, and sent as a tag to the clients that see the NPC.  Giving an *)
(* NPC a model replaces its entity patch, if the model has a provider.     *)
(*                                                                         *)
(* One NPC.  A posture is a Java float, counted in units of the smallest   *)
(* one: a number of at most Exact times a power of two, or NaN.  The next  *)
(* float is one unit away up to Exact, and the further the larger the      *)
(* number; 1.0F is One units, so that a float may be a fraction.  What     *)
(* lies between two floats (a script's double, a sum) is rounded to the    *)
(* nearest, a tie to the even one.                                         *)
(***************************************************************************)
EXTENDS Integers, Sequences, FiniteSetsExt

CONSTANTS
  Models,     \* resource locations an NPC may be given
  NoModel,
  Clients,    \* clients that may see and edit the NPC
  Server,
  NaN,
  One,        \* 1.0F, in units
  Exact,      \* bound: the largest significand
  Spacings,   \* bound: the distances between neighbouring floats
  Huge,       \* bound: the largest float; stands for infinity as well
  Inputs,     \* numbers scripts pass to the posture setters, floats or not
  NoCopy,     \* the NPC does not exist on a client
  NoPatch,    \* the NPC has no entity patch
  MaxWrites   \* bound: writes, edits and reloads in a behaviour

ASSUME DisplayNamesAssumption ==
  /\ NoModel \notin Models
  /\ Server \notin Clients
ASSUME FloatAssumption ==
  /\ Exact \in Nat /\ Exact % 4 = 0 /\ One \in 1..Exact
  /\ Spacings \subseteq Nat \ {0} /\ 1 \in Spacings
  /\ \A s, t \in Spacings : s < t => \E q \in 1..t : t = 2 * q * s
  /\ \E t \in Spacings : Huge = Exact * t /\ \A s \in Spacings : s <= t
  /\ NaN \notin Int
  /\ Inputs \subseteq (Int \union {NaN})
ASSUME WritesAssumption == MaxWrites \in Nat

Numbers == {m * s : m \in 0..Exact, s \in Spacings}
Floats == Numbers \union {NaN}

Displays == [model : Models \union {NoModel}, attackAIOff : BOOLEAN,
             animDamage : BOOLEAN, posture : Floats, max : Floats,
             perParry : Floats]
Patches == [model : Models, dead : BOOLEAN]

ASSUME NoneAssumption == NoCopy \notin Displays /\ NoPatch \notin Patches

Jvms == {Server} \union Clients

(* The fields of a new DataDisplay. *)
Fresh == [model |-> NoModel, attackAIOff |-> FALSE, animDamage |-> FALSE,
          posture |-> 0, max |-> 0, perParry |-> One]

-----------------------------------------------------------------------------
(* Java floats.  A comparison with NaN is false, but for #.                *)

Gt(a, b) == a # NaN /\ b # NaN /\ a > b
Ge(a, b) == a # NaN /\ b # NaN /\ a >= b
AtMost(a, bound) == IF Gt(a, bound) THEN bound ELSE a

Below(n) == Max({x \in Numbers : x <= n})
Above(n) == Min({x \in Numbers : x >= n})
EvenFloat(x, spacing) == (x \div spacing) % 2 = 0

(* The float nearest to a number of units. *)
Nearest == [n \in 0..Huge |->
  LET down == n - Below(n)
      up == Above(n) - n
      toBelow == \/ down < up \/ n \in Numbers
                 \/ down = up /\ EvenFloat(Below(n), down + up)
  IN IF toBelow THEN Below(n) ELSE Above(n)]
Rounded(n) == IF n > Huge THEN Huge ELSE Nearest[n]
Plus(a, b) == IF a = NaN \/ b = NaN THEN NaN ELSE Rounded(a + b)

(* Mistake: the number is not kept from being negative. *)
NonNegativeNot(x) == IF x = NaN THEN NaN ELSE AtMost(x, Huge)

(* Math.max(0.0F, x): NaN stays NaN. *)
NonNegative(x) == IF x = NaN THEN NaN
                  ELSE IF x < 0 THEN 0 ELSE Rounded(x)

-----------------------------------------------------------------------------
(* The tag.  A key that was not put is Missing; a switch that was not put  *)
(* reads FALSE.                                                            *)

Missing == -1
Tags == [efModel : Models \union {NoModel}, efDisableAttackAI : BOOLEAN,
         efAnimationDamage : BOOLEAN, efPosture : Floats \union {Missing},
         efPostureMax : Floats \union {Missing},
         efPosturePerParry : Floats \union {Missing}]

(* writeToNBT *)
Save(d) ==
  [efModel           |-> d.model,
   efDisableAttackAI |-> d.attackAIOff,
   efAnimationDamage |-> d.animDamage,
   efPosture         |-> IF d.posture # 0 THEN d.posture ELSE Missing,
   efPostureMax      |-> IF Gt(d.max, 0) THEN d.max ELSE Missing,
   efPosturePerParry |-> IF d.perParry # One THEN d.perParry ELSE Missing]

(* CompoundTag.getFloat *)
Float(x) == IF x = Missing THEN 0 ELSE x

(* Mistake: a missing efPosturePerParry reads 0, like the other numbers. *)
ReadNoDefault(d, tag) ==
  [model       |-> IF tag.efModel # NoModel THEN tag.efModel ELSE d.model,
   attackAIOff |-> tag.efDisableAttackAI,
   animDamage  |-> tag.efAnimationDamage,
   posture     |-> NonNegative(Float(tag.efPosture)),
   max         |-> NonNegative(Float(tag.efPostureMax)),
   perParry    |-> NonNegative(Float(tag.efPosturePerParry))]

(* Mistake: the switches stay as they are when the tag does not set them. *)
ReadKeepSwitches(d, tag) ==
  [model       |-> IF tag.efModel # NoModel THEN tag.efModel ELSE d.model,
   attackAIOff |-> tag.efDisableAttackAI \/ d.attackAIOff,
   animDamage  |-> tag.efAnimationDamage \/ d.animDamage,
   posture     |-> NonNegative(Float(tag.efPosture)),
   max         |-> NonNegative(Float(tag.efPostureMax)),
   perParry    |-> IF tag.efPosturePerParry # Missing
                   THEN NonNegative(tag.efPosturePerParry) ELSE One]

(* readFromNBT into the display d, the patch excepted. *)
Read(d, tag) ==
  [model       |-> IF tag.efModel # NoModel THEN tag.efModel ELSE d.model,
   attackAIOff |-> tag.efDisableAttackAI,
   animDamage  |-> tag.efAnimationDamage,
   posture     |-> NonNegative(Float(tag.efPosture)),
   max         |-> NonNegative(Float(tag.efPostureMax)),
   perParry    |-> IF tag.efPosturePerParry # Missing
                   THEN NonNegative(tag.efPosturePerParry) ELSE One]

Restored(d) == Read(Fresh, Save(d))

-----------------------------------------------------------------------------
VARIABLES
  srv,       \* the server's DataDisplay
  cli,       \* [Clients -> Displays \union {NoCopy}]: the clients' copies
  patch,     \* [Jvms -> Patches \union {NoPatch}]: the capability in use
  usable,    \* [Jvms -> SUBSET Models]: models whose provider makes a patch
  killed,    \* npc.isKilled()
  watching,  \* clients that track the NPC
  wire,      \* [Clients -> Seq(Tags)]: tags on their way to a client
  saves,     \* [Clients -> Seq(Tags)]: tags an editor sent to the server
  writes,    \* counts writes, edits and reloads, up to MaxWrites
  told,      \* history: the server's posture when a client was last told
  edited,    \* history: what a client's editor changed in its own copy and
             \* no tag of the server has overwritten
  applied,   \* history: the last rebuild of a JVM's patch took effect
  parries    \* history: blocked attacks since the last stun or the last
             \* other write of the posture settings, counted up to Huge + 1

vars == <<srv, cli, patch, usable, killed, watching, wire, saves, writes,
          told, edited, applied, parries>>

TypeOK ==
  /\ srv \in Displays
  /\ cli \in [Clients -> Displays \union {NoCopy}]
  /\ patch \in [Jvms -> Patches \union {NoPatch}]
  /\ usable \in [Jvms -> SUBSET Models]
  /\ killed \in BOOLEAN
  /\ watching \in SUBSET Clients
  /\ wire \in [Clients -> Seq(Tags)]
  /\ saves \in [Clients -> Seq(Tags)]
  /\ writes \in Nat
  /\ told \in [Clients -> Floats]
  /\ edited \in [Clients -> SUBSET {"model", "switches"}]
  /\ applied \in [Jvms -> BOOLEAN]
  /\ parries \in 0..(Huge + 1)

-----------------------------------------------------------------------------
(* updateModelCap in JVM j, for an NPC whose model is m: without a patch   *)
(* from the provider the old one stays.  dead: readFromNBT tells the patch *)
(* of a killed NPC of its death.                                           *)
PatchFor(j, m, dead, old) ==
  IF m \in usable[j] THEN [model |-> m, dead |-> dead]
  ELSE IF dead /\ old # NoPatch THEN [old EXCEPT !.dead = TRUE]
  ELSE old

Rebuild(j, m, dead, old) ==
  /\ patch' = [patch EXCEPT ![j] = PatchFor(j, m, dead, old)]
  /\ applied' = [applied EXCEPT ![j] = m \in usable[j]]

(* EntityNPCInterface.updateClient: the clients that see the NPC are sent  *)
(* the display as it is now.                                               *)
Announce(d) ==
  /\ wire' = [c \in Clients |-> IF c \in watching THEN Append(wire[c], Save(d))
                                ELSE wire[c]]
  /\ told' = [c \in Clients |-> IF c \in watching THEN srv'.posture ELSE told[c]]

Write == writes < MaxWrites /\ writes' = writes + 1

-----------------------------------------------------------------------------
(* Scripts, on the server.                                                 *)

(* Mistake: the patch is rebuilt before the field is assigned. *)
SetModelLate(m) ==
  /\ Write
  /\ srv' = [srv EXCEPT !.model = m]
  /\ Rebuild(Server, srv.model, FALSE, patch[Server])
  /\ Announce(srv')
  /\ UNCHANGED <<cli, usable, killed, watching, saves, edited, parries>>

SetModel(m) ==
  /\ Write
  /\ srv' = [srv EXCEPT !.model = m]
  /\ Rebuild(Server, m, FALSE, patch[Server])
  /\ Announce(srv')
  /\ UNCHANGED <<cli, usable, killed, watching, saves, edited, parries>>

SetAttackAIDisabled(b) ==
  /\ Write
  /\ srv' = [srv EXCEPT !.attackAIOff = b]
  /\ IF srv.model # NoModel THEN Rebuild(Server, srv.model, FALSE, patch[Server])
     ELSE UNCHANGED <<patch, applied>>
  /\ Announce(srv')
  /\ UNCHANGED <<cli, usable, killed, watching, saves, edited, parries>>

SetAnimationDamage(b) ==
  /\ Write
  /\ srv' = [srv EXCEPT !.animDamage = b]
  /\ Announce(srv')
  /\ UNCHANGED <<cli, patch, usable, killed, watching, saves, edited, applied,
                 parries>>

(* The three posture setters end alike. *)
PostureWrite(d) ==
  /\ Write
  /\ srv' = d
  /\ Announce(d)
  /\ parries' = 0
  /\ UNCHANGED <<cli, patch, usable, killed, watching, saves, edited, applied>>

SetPosture(x) ==
  PostureWrite([srv EXCEPT !.posture = NonNegative(x)])

(* Mistake: the clients are told before the posture is cut to the maximum. *)
SetPostureMaxLate(x) ==
  LET max == NonNegative(x)
      cut == Gt(max, 0) /\ Gt(srv.posture, max)
      d == [srv EXCEPT !.max = max]
  IN /\ Write
     /\ srv' = [d EXCEPT !.posture = IF cut THEN max ELSE @]
     /\ Announce(d)
     /\ parries' = 0
     /\ UNCHANGED <<cli, patch, usable, killed, watching, saves, edited, applied>>

SetPostureMax(x) ==
  LET max == NonNegative(x)
      cut == Gt(max, 0) /\ Gt(srv.posture, max)
  IN PostureWrite([srv EXCEPT !.max = max,
                              !.posture = IF cut THEN max ELSE @])

SetPosturePerParry(x) ==
  PostureWrite([srv EXCEPT !.perParry = NonNegative(x)])

(* setLastAttackResult(BLOCKED) of the NPC's patch, on the server: the     *)
(* clients are not told.                                                   *)
NextPosture == Plus(srv.posture, NonNegative(srv.perParry))

(* Mistake: the meter has to pass the maximum. *)
BreaksOver == Gt(NextPosture, srv.max)

Breaks == Ge(NextPosture, srv.max)

(* Mistake: a blow that does not break the guard is not remembered. *)
AttackBlockedForgotten ==
  /\ patch[Server] # NoPatch
  /\ Gt(srv.max, 0) \/ srv.max = NaN
  /\ srv' = [srv EXCEPT !.posture = IF Breaks THEN 0 ELSE @]
  /\ parries' = IF Breaks THEN 0 ELSE AtMost(parries + 1, Huge + 1)
  /\ UNCHANGED <<cli, patch, usable, killed, watching, wire, saves, writes,
                 told, edited, applied>>

AttackBlocked ==
  /\ patch[Server] # NoPatch
  /\ Gt(srv.max, 0) \/ srv.max = NaN
  /\ srv' = [srv EXCEPT !.posture = NonNegative(IF Breaks THEN 0 ELSE NextPosture)]
  /\ parries' = IF Breaks THEN 0 ELSE AtMost(parries + 1, Huge + 1)
  /\ UNCHANGED <<cli, patch, usable, killed, watching, wire, saves, writes,
                 told, edited, applied>>

-----------------------------------------------------------------------------
(* The editor of a client writes the client's copy and nothing else.       *)

Edit(c, d, what) ==
  /\ cli[c] # NoCopy
  /\ Write
  /\ cli' = [cli EXCEPT ![c] = d]
  /\ edited' = [edited EXCEPT ![c] = @ \union {what}]
  /\ UNCHANGED <<srv, patch, usable, killed, watching, wire, saves, told,
                 applied, parries>>

EditModel(c, m) == Edit(c, [cli[c] EXCEPT !.model = m], "model")
EditAttackAI(c) == Edit(c, [cli[c] EXCEPT !.attackAIOff = ~@], "switches")
EditAnimationDamage(c) == Edit(c, [cli[c] EXCEPT !.animDamage = ~@], "switches")

(* Leaving the menu: the client's copy is saved and sent to the server. *)
SendSave(c) ==
  /\ cli[c] # NoCopy
  /\ Write
  /\ saves' = [saves EXCEPT ![c] = Append(@, Save(cli[c]))]
  /\ UNCHANGED <<srv, cli, patch, usable, killed, watching, wire, told, edited,
                 applied, parries>>

(* readFromNBT in JVM j, what it does to the patch. *)
ReadPatch(j, tag, old) ==
  IF tag.efModel # NoModel THEN Rebuild(j, tag.efModel, killed, old)
  ELSE UNCHANGED <<patch, applied>>

(* The server reads it over its own copy and tells the clients. *)
ServerReads(c) ==
  LET tag == Head(saves[c]) IN
  /\ saves[c] # <<>>
  /\ saves' = [saves EXCEPT ![c] = Tail(@)]
  /\ srv' = Read(srv, tag)
  /\ ReadPatch(Server, tag, patch[Server])
  /\ Announce(srv')
  /\ parries' = 0
  /\ UNCHANGED <<cli, usable, killed, watching, writes, edited>>

(* A client reads a tag of the server over its copy; the first one creates *)
(* the NPC there.                                                          *)
ClientReads(c) ==
  LET tag == Head(wire[c])
      new == cli[c] = NoCopy
  IN /\ wire[c] # <<>>
     /\ wire' = [wire EXCEPT ![c] = Tail(@)]
     /\ cli' = [cli EXCEPT ![c] = Read(IF new THEN Fresh ELSE @, tag)]
     /\ ReadPatch(c, tag, patch[c])
     /\ edited' = [edited EXCEPT ![c] =
                     @ \ IF tag.efModel # NoModel THEN {"model", "switches"}
                         ELSE {"switches"}]
     /\ UNCHANGED <<srv, usable, killed, watching, saves, writes, told, parries>>

-----------------------------------------------------------------------------
(* The world around the NPC.                                               *)

(* A client comes to see the NPC, and loses sight of it. *)
Track(c) ==
  /\ c \notin watching
  /\ Write
  /\ watching' = watching \union {c}
  /\ wire' = [wire EXCEPT ![c] = <<Save(srv)>>]
  /\ told' = [told EXCEPT ![c] = srv.posture]
  /\ UNCHANGED <<srv, cli, patch, usable, killed, saves, edited, applied, parries>>

Untrack(c) ==
  /\ c \in watching
  /\ watching' = watching \ {c}
  /\ wire' = [wire EXCEPT ![c] = <<>>]
  /\ cli' = [cli EXCEPT ![c] = NoCopy]
  /\ patch' = [patch EXCEPT ![c] = NoPatch]
  /\ edited' = [edited EXCEPT ![c] = {}]
  /\ UNCHANGED <<srv, usable, killed, saves, writes, told, applied, parries>>

(* The NPC is unloaded and loaded again, or the server restarts: a new     *)
(* entity reads what the old one saved.  The clients lose the old entity.  *)
Reload ==
  LET tag == Save(srv) IN
  /\ Write
  /\ srv' = Read(Fresh, tag)
  /\ patch' = [j \in Jvms |->
                 IF j = Server /\ tag.efModel # NoModel
                 THEN PatchFor(Server, tag.efModel, killed, NoPatch)
                 ELSE NoPatch]
  /\ applied' = [applied EXCEPT ![Server] = tag.efModel \in usable[Server]]
  /\ cli' = [c \in Clients |-> NoCopy]
  /\ wire' = [c \in Clients |-> <<>>]
  /\ saves' = [c \in Clients |-> <<>>]
  /\ edited' = [c \in Clients |-> {}]
  /\ watching' = {}
  /\ UNCHANGED <<usable, killed, told, parries>>

(* The NPC dies; its patch hears of it. *)
Die ==
  /\ ~killed
  /\ killed' = TRUE
  /\ patch' = [j \in Jvms |->
                 IF patch[j] = NoPatch THEN NoPatch ELSE [patch[j] EXCEPT !.dead = TRUE]]
  /\ UNCHANGED <<srv, cli, usable, watching, wire, saves, writes, told, edited,
                 applied, parries>>

(* The registry of a JVM changes: see NpcPatchRegistry. *)
RegistryChanges(j) ==
  /\ Write
  /\ \E models \in SUBSET Models : usable' = [usable EXCEPT ![j] = models]
  /\ UNCHANGED <<srv, cli, patch, killed, watching, wire, saves, told, edited,
                 applied, parries>>

-----------------------------------------------------------------------------
Init ==
  /\ srv = Fresh
  /\ cli = [c \in Clients |-> NoCopy]
  /\ patch = [j \in Jvms |-> NoPatch]
  /\ usable \in [Jvms -> SUBSET Models]
  /\ killed = FALSE
  /\ watching = {}
  /\ wire = [c \in Clients |-> <<>>]
  /\ saves = [c \in Clients |-> <<>>]
  /\ writes = 0
  /\ told = [c \in Clients |-> 0]
  /\ edited = [c \in Clients |-> {}]
  /\ applied = [j \in Jvms |-> FALSE]
  /\ parries = 0

ScriptStep ==
  \/ \E m \in Models : SetModel(m)
  \/ \E b \in BOOLEAN : SetAttackAIDisabled(b) \/ SetAnimationDamage(b)
  \/ \E x \in Inputs : SetPosture(x) \/ SetPostureMax(x) \/ SetPosturePerParry(x)

EditorStep(c) ==
  \/ \E m \in Models : EditModel(c, m)
  \/ EditAttackAI(c)
  \/ EditAnimationDamage(c)
  \/ SendSave(c)

Next ==
  \/ ScriptStep
  \/ AttackBlocked
  \/ \E c \in Clients :
       EditorStep(c) \/ ServerReads(c) \/ ClientReads(c) \/ Track(c) \/ Untrack(c)
  \/ Reload
  \/ Die
  \/ \E j \in Jvms : RegistryChanges(j)

Spec == Init /\ [][Next]_vars

(* An opponent that keeps blocking: an assumption of the meter's property. *)
BlockingSpec == Spec /\ WF_vars(AttackBlocked)

-----------------------------------------------------------------------------
(* Properties.                                                             *)

(* An NPC that is unloaded comes back as it was, whatever scripts, blocked *)
(* attacks and editors wrote before: what writeToNBT leaves out is what    *)
(* readFromNBT puts back.  Only a maximum of NaN comes back as 0.          *)
SaveIsLossless ==
  Restored(srv) = [srv EXCEPT !.max = IF @ = NaN THEN 0 ELSE @]

(* A client that has read all it was sent shows what the server holds,     *)
(* whichever of scripts, editors of other clients and blocked attacks came *)
(* in between: every write but a blocked attack reaches it, and it knows   *)
(* the posture of the last write.  What its own editor changed is excepted *)
(* until a tag overwrites it; for the model, until one that has a model.   *)
CaughtUpClientAgrees ==
  \A c \in Clients :
    cli[c] # NoCopy /\ wire[c] = <<>> =>
      LET d == Restored([srv EXCEPT !.posture = told[c]]) IN
      /\ cli[c].posture = d.posture
      /\ cli[c].max = d.max
      /\ cli[c].perParry = d.perParry
      /\ "switches" \notin edited[c] =>
           /\ cli[c].attackAIOff = d.attackAIOff
           /\ cli[c].animDamage = d.animDamage
      /\ "model" \notin edited[c] => cli[c].model = d.model

(* In every JVM the patch in use was made for the model the display shows, *)
(* unless that model had no usable provider when it was applied (the old   *)
(* patch stays then), or a client's editor picked a model for itself.      *)
PatchFollowsModel ==
  /\ applied[Server] =>
       patch[Server] # NoPatch /\ patch[Server].model = srv.model
  /\ \A c \in Clients :
       cli[c] # NoCopy /\ applied[c] /\ "model" \notin edited[c] =>
         patch[c] # NoPatch /\ patch[c].model = cli[c].model

(* The distance of the floats just below x. *)
Spacing(x) == Min({s \in Spacings : x <= Exact * s})

IsMultiple(x, spacing) == \E k \in 0..x : x = k * spacing

(* What rounding may cost a blow, twice over: the distance of the floats   *)
(* below the maximum; nothing if what a blow adds is a multiple of it.     *)
Slack ==
  IF IsMultiple(srv.perParry, Spacing(srv.max)) THEN 0 ELSE Spacing(srv.max)

(* An NPC whose attacks keep being blocked is stunned in time: since the   *)
(* last stun, or the last write of its settings, fewer than max / perParry *)
(* attacks were blocked, reloads or not, or somewhat more where the sums   *)
(* are rounded: half a spacing is lost of a blow, at most.  NaN switches   *)
(* the meter off.  Blows that are no larger than what is lost may never    *)
(* stun: see below.                                                        *)
GuardBreaksInTime ==
  /\ Gt(srv.max, 0)
  /\ srv.posture # NaN
  /\ Gt(srv.perParry, 0)
  /\ parries > 0
  => parries * (2 * srv.perParry - Slack) < 2 * srv.max

(* Posture the next blow does not change, by rounding, and which does not  *)
(* reach the maximum.                                                      *)
StandsStill == NextPosture = srv.posture /\ ~Breaks

(* An NPC with a meter whose attacks go on being blocked is stunned in the *)
(* end, or its meter is written, or the NPC loses its patch; only a meter  *)
(* that a blow is too small to move never gets there.                      *)
GuardBreaksOrStandsStill ==
  (/\ patch[Server] # NoPatch
   /\ Gt(srv.max, 0)
   /\ srv.posture # NaN
   /\ Gt(srv.perParry, 0)
   /\ parries > 0)
  ~> (parries = 0 \/ patch[Server] = NoPatch \/ StandsStill)

===============================================================================
