----------------------------- MODULE NpcWorldProofs -----------------------------
(***************************************************************************)
(* Theorems about NpcWorld, for all sets of models, contents and players,  *)
(* whoever owns the world, and any number of reloads, logins and writes.   *)
(***************************************************************************)
EXTENDS NpcWorld, RegistryTablesProofs, FiniteSetTheorems

-----------------------------------------------------------------------------
(* The world keeps to the registry: what is proved of NpcPatchRegistry     *)
(* holds in the world of the NPC.                                          *)

LEMMA WorldStep == [WorldNext]_worldVars => [Next]_vars
BY DEF WorldNext, worldVars, MainThread, SetModel, LoadNpc, Track, Untrack,
   ServerWrites, ReadNpc, ServerRegistryStep, BeginSync, ClientRegistryStep,
   LeaveWorld, RestartGuest, OwnWorld, StopWorld, Next, ClientStep, vars,
   tables, npc

(* Every behaviour of the world is, for the tables of the JVMs, their      *)
(* threads and the packets between them, a behaviour of the registry by    *)
(* itself: the NPC and the order of its connection add no step to it.      *)
THEOREM WorldKeepsRegistry == WorldSpec => Spec
<1>1. WorldInit => Init
  BY DEF WorldInit
<1> QED BY <1>1, WorldStep, PTL DEF WorldSpec, Spec

-----------------------------------------------------------------------------
(* Counting the messages of a kind.                                        *)

Places(s, kind) == {i \in DOMAIN s : s[i] = kind}

LEMMA CountIsNat ==
  ASSUME NEW s \in Seq(Kinds), NEW kind
  PROVE  IsFiniteSet(Places(s, kind)) /\ Count(s, kind) \in Nat
<1>1. Len(s) \in Nat /\ Places(s, kind) \in SUBSET (1..Len(s))
  BY LenProperties DEF Places
<1>2. IsFiniteSet(1..Len(s))
  BY <1>1, FS_Interval
<1>3. IsFiniteSet(Places(s, kind))
  BY <1>1, <1>2, FS_Subset
<1> QED BY <1>3, FS_CardinalityType DEF Count, Places

LEMMA CountEmpty == \A kind : Count(<<>>, kind) = 0
<1>1. \A kind : {i \in DOMAIN <<>> : <<>>[i] = kind} = {}
  OBVIOUS
<1> QED BY <1>1, FS_EmptySet DEF Count

LEMMA CountAppend ==
  ASSUME NEW s \in Seq(Kinds), NEW x \in Kinds, NEW kind
  PROVE  Count(Append(s, x), kind) = Count(s, kind) + (IF x = kind THEN 1 ELSE 0)
<1> DEFINE n == Len(s) + 1
           new == Append(s, x)
<1>1. /\ Len(s) \in Nat /\ DOMAIN s = 1..Len(s) /\ DOMAIN new = 1..n
      /\ \A i \in 1..Len(s) : new[i] = s[i]
      /\ new[n] = x
  BY AppendProperties, LenProperties
<1>2. IsFiniteSet(Places(s, kind))
  BY CountIsNat
<1> HIDE DEF new
<1>3. Places(new, kind) = IF x = kind THEN Places(s, kind) \union {n} ELSE Places(s, kind)
  BY <1>1 DEF Places
<1>4. Count(new, kind) = Cardinality(Places(new, kind))
      /\ Count(s, kind) = Cardinality(Places(s, kind)) /\ Count(s, kind) \in Nat
  BY CountIsNat DEF Count, Places
<1>5. Cardinality(Places(s, kind) \union {n}) = Cardinality(Places(s, kind)) + 1
  <2>1. n \notin Places(s, kind)
    BY <1>1 DEF Places
  <2> QED BY <1>2, <2>1, FS_AddElement
<1> QED BY <1>3, <1>4, <1>5 DEF new

LEMMA CountTail ==
  ASSUME NEW s \in Seq(Kinds), s # <<>>, NEW kind
  PROVE  Count(s, kind) = Count(Tail(s), kind) + (IF Head(s) = kind THEN 1 ELSE 0)
<1> DEFINE t == Tail(s)
           S == Places(t, kind)
           T == Places(s, kind) \ {1}
           f == [i \in S |-> i + 1]
<1>1. /\ t \in Seq(Kinds) /\ Len(s) \in Nat \ {0} /\ Len(t) = Len(s) - 1
      /\ DOMAIN s = 1..Len(s) /\ DOMAIN t = 1..Len(t)
      /\ \A i \in 1..Len(t) : t[i] = s[i + 1]
      /\ Head(s) = s[1]
  BY HeadTailProperties, LenProperties, EmptySeq
<1> HIDE DEF t
<1>2. IsFiniteSet(S) /\ IsFiniteSet(Places(s, kind))
  BY <1>1, CountIsNat
<1>3. S \subseteq 1..(Len(s) - 1) /\ T \subseteq 2..Len(s)
  BY <1>1 DEF Places
<1>4. \A i \in S : i + 1 \in T
  BY <1>1 DEF Places
<1>5. \A k \in T : k - 1 \in S /\ f[k - 1] = k
  BY <1>1 DEF Places
<1>6. f \in Bijection(S, T)
  <2>1. f \in [S -> T]
    BY <1>4
  <2>2. \A a, b \in S : f[a] = f[b] => a = b
    BY <1>1, <1>3
  <2>3. \A k \in T : \E a \in S : f[a] = k
    BY <1>5
  <2> HIDE DEF S, T, f
  <2>4. f \in Injection(S, T)
    BY <2>1, <2>2 DEF Injection, IsInjective
  <2>5. f \in Surjection(S, T)
    BY <2>1, <2>3 DEF Surjection
  <2> QED BY <2>4, <2>5 DEF Bijection
<1>7. Cardinality(T) = Cardinality(S)
  BY <1>2, <1>6, FS_Bijection DEF ExistsBijection
<1>8. Cardinality(T) = IF 1 \in Places(s, kind) THEN Cardinality(Places(s, kind)) - 1
                       ELSE Cardinality(Places(s, kind))
  BY <1>2, FS_RemoveElement
<1>9. 1 \in Places(s, kind) <=> Head(s) = kind
  BY <1>1 DEF Places
<1>10. /\ Count(s, kind) = Cardinality(Places(s, kind)) /\ Count(s, kind) \in Nat
       /\ Count(t, kind) = Cardinality(S) /\ Count(t, kind) \in Nat
  BY <1>1, CountIsNat DEF Count, Places
<1> QED BY <1>7, <1>8, <1>9, <1>10 DEF t

LEMMA CountTimes ==
  ASSUME NEW n \in Nat, NEW x \in Kinds
  PROVE  /\ Times(n, x) \in Seq(Kinds)
         /\ \A kind : Count(Times(n, x), kind) = IF kind = x THEN n ELSE 0
         /\ Times(n, x) # <<>> => Head(Times(n, x)) = x
<1> DEFINE s == Times(n, x)
<1>1. s \in Seq(Kinds) /\ DOMAIN s = 1..n /\ \A i \in 1..n : s[i] = x
  BY DEF Times
<1> HIDE DEF s
<1>2. \A kind : {i \in DOMAIN s : s[i] = kind} = IF kind = x THEN 1..n ELSE {}
  BY <1>1
<1>3. Cardinality(1..n) = n /\ Cardinality({}) = 0
  BY FS_Interval, FS_EmptySet
<1>4. \A kind : Count(s, kind) = IF kind = x THEN n ELSE 0
  BY <1>2, <1>3 DEF Count
<1>5. s # <<>> => Head(s) = x
  BY <1>1, EmptySeq, LenProperties
<1> QED BY <1>1, <1>4, <1>5 DEF s

-----------------------------------------------------------------------------
(* Types, the counts of WorldTypeOK excepted.                              *)

ShapeOK ==
  /\ TypeOK
  /\ model \in Keys \union {Absent}
  /\ built \in [Threads -> Entry \union {Absent}]
  /\ shown \in [Players -> NpcTags]
  /\ tracks \in SUBSET Players
  /\ mail \in [Players -> Seq(NpcTags)]
  /\ order \in [Players -> Seq(Kinds)]
  /\ npcWrites \in Nat
  /\ spoiled \in BOOLEAN

(* What a JVM answers for a model is one of its providers, or the default. *)
LEMMA ProviderType ==
  ASSUME TypeOK, NEW j \in Jvms, NEW k
  PROVE  /\ ProviderFor(j, k) \in Entry \union {Absent}
         /\ ProviderFor(j, k) # Absent =>
              /\ ProviderFor(j, k).key = k
              /\ \E i \in DOMAIN providers[j] : ProviderFor(j, k) = providers[j][i]
<1>1. providers[j] \in Seq(Entry)
  BY DEF TypeOK
<1>2. CASE k \in KeysOf(providers[j])
  BY <1>1, <1>2, ResolveBound DEF ProviderFor
<1>3. CASE k \notin KeysOf(providers[j])
  BY <1>1, <1>3, ResolveUnbound DEF ProviderFor
<1> QED BY <1>2, <1>3

LEMMA PatchType ==
  ASSUME TypeOK, NEW j \in Jvms, NEW k, NEW old \in Entry \union {Absent}
  PROVE  PatchOf(j, k, old) \in Entry \union {Absent}
BY ProviderType DEF PatchOf

(* The message in turn is the first one. *)
LEMMA HandledIsFirst ==
  ASSUME order \in [Players -> Seq(Kinds)], NEW p \in Players, NEW kind,
         InTurn(p, kind), Handled(p, kind)
  PROVE  order' = [order EXCEPT ![p] = Tail(order[p])]
<1> DEFINE s == order[p]
           First(i) == s[i] = kind /\ \A j \in 1..(i - 1) : s[j] # kind
           c == CHOOSE i \in DOMAIN s : First(i)
<1>1. /\ s \in Seq(Kinds) /\ s # <<>> /\ s[1] = kind
      /\ Len(s) \in Nat \ {0} /\ DOMAIN s = 1..Len(s)
  BY LenProperties, EmptySeq DEF InTurn
<1> HIDE DEF s
<1>2. First(1)
  BY <1>1
<1>3. \A i \in DOMAIN s : First(i) => i = 1
  BY <1>1
<1>4. c = 1
  BY <1>1, <1>2, <1>3
<1>5. order' = [order EXCEPT ![p] = SubSeq(s, 1, c - 1) \o SubSeq(s, c + 1, Len(s))]
  BY DEF Handled, s
<1> HIDE DEF c
<1>6. SubSeq(s, 1, c - 1) = <<>>
  BY <1>4, SubSeqEmpty
<1>7. SubSeq(s, c + 1, Len(s)) = Tail(s) /\ Tail(s) \in Seq(Kinds)
  BY <1>1, <1>4, TailIsSubSeq, HeadTailProperties
<1>8. <<>> \o Tail(s) = Tail(s)
  BY <1>7, ConcatEmptySeq
<1> QED BY <1>5, <1>6, <1>7, <1>8 DEF s

(* A step of the registry on the server sends a player nothing, or one     *)
(* packet; to a guest that logs in, one packet.                            *)
Sends ==
  \A p \in Players : \/ /\ inbox'[p] = inbox[p] /\ order'[p] = order[p]
                        /\ p \in connected' /\ p # Owner => p \in connected
                     \/ /\ inbox'[p] = Append(inbox[p], tagmap)
                        /\ order'[p] = Append(order[p], "sync")
                        /\ p \in connected'

LEMMA ServerSends ==
  ASSUME ShapeOK, ServerRegistryStep
  PROVE  /\ Sends
         /\ order' \in [Players -> Seq(Kinds)]
         /\ connected \subseteq connected'
         /\ heard' = heard
<1>1. \A p \in Players : \/ /\ inbox'[p] = inbox[p]
                            /\ p \in connected' /\ p # Owner => p \in connected
                         \/ inbox'[p] = Append(inbox[p], tagmap) /\ p \in connected'
  <2>1. CASE BroadcastSync
    BY <2>1 DEF BroadcastSync, Send
  <2>2. CASE \E p \in Players : Join(p)
    BY <2>2 DEF Join, Send
  <2>3. CASE ~BroadcastSync /\ ~\E p \in Players : Join(p)
    <3>1. inbox' = inbox /\ connected' = connected
      BY <2>3, Zenon DEF ServerRegistryStep, StartApply, ApplyStep, RaceStep, ResetTables,
         ApplyAdd, ApplyAddFails, AbortApply, LateStore, ApplyPublish,
         ApplyAnnounce, ApplyAnnounceFails, ApplyRender, ApplyRenderFails, Stall,
         RacePublish, RaceRender
    <3> QED BY <3>1
  <2> QED BY <2>1, <2>2, <2>3
<1>2. ASSUME NEW p \in Players
      PROVE  /\ order'[p] \in Seq(Kinds)
             /\ \/ /\ inbox'[p] = inbox[p] /\ order'[p] = order[p]
                   /\ p \in connected' /\ p # Owner => p \in connected
                \/ /\ inbox'[p] = Append(inbox[p], tagmap) /\ p \in connected'
                   /\ order'[p] = Append(order[p], "sync")
  <2>1. /\ inbox[p] \in Seq(Tags) /\ Len(inbox[p]) \in Nat /\ tagmap \in Tags
        /\ order[p] \in Seq(Kinds) /\ "sync" \in Kinds
    BY DEF ShapeOK, TypeOK, Kinds
  <2>2. order'[p] = order[p] \o Times(Len(inbox'[p]) - Len(inbox[p]), "sync")
    BY DEF ServerRegistryStep, OrderSyncs
  <2>3. CASE /\ inbox'[p] = inbox[p]
             /\ p \in connected' /\ p # Owner => p \in connected
    <3>1. Len(inbox'[p]) - Len(inbox[p]) = 0
      BY <2>1, <2>3
    <3>2. Times(0, "sync") = <<>>
      BY DEF Times
    <3> QED BY <2>1, <2>2, <2>3, <3>1, <3>2, ConcatEmptySeq
  <2>4. CASE inbox'[p] = Append(inbox[p], tagmap) /\ p \in connected'
    <3>1. Len(inbox'[p]) - Len(inbox[p]) = 1
      BY <2>1, <2>4, AppendProperties
    <3>2. Times(1, "sync") = <<"sync">>
      BY DEF Times
    <3>3. order'[p] = Append(order[p], "sync")
      BY <2>1, <2>2, <3>1, <3>2, AppendIsConcat
    <3>4. Append(order[p], "sync") \in Seq(Kinds)
      BY <2>1, AppendProperties
    <3> QED BY <2>4, <3>3, <3>4
  <2> QED BY <1>1, <2>3, <2>4
<1>3. order' = [p \in Players |-> order'[p]]
  BY DEF ServerRegistryStep, OrderSyncs
<1>4. connected \subseteq connected' /\ heard' = heard
  BY Zenon DEF ServerRegistryStep, StartApply, ApplyStep, RaceStep, ResetTables,
     ApplyAdd, ApplyAddFails, AbortApply, LateStore, ApplyPublish, ApplyAnnounce,
     ApplyAnnounceFails, ApplyRender, ApplyRenderFails, BroadcastSync, Join, Stall,
     RacePublish, RaceRender
<1> QED BY <1>2, <1>3, <1>4 DEF Sends

LEMMA TellType ==
  ASSUME ShapeOK, NEW players, NEW tag \in NpcTags, Tell(players, tag)
  PROVE  mail' \in [Players -> Seq(NpcTags)] /\ order' \in [Players -> Seq(Kinds)]
<1>1. \A p \in Players : /\ Append(mail[p], tag) \in Seq(NpcTags)
                         /\ Append(order[p], "npc") \in Seq(Kinds)
  BY AppendProperties DEF ShapeOK, Kinds
<1> QED BY <1>1 DEF Tell, ShapeOK

LEMMA LoseType ==
  ASSUME ShapeOK, TypeOK', NEW players, LoseWorld(players)
  PROVE  /\ shown' \in [Players -> NpcTags] /\ tracks' \in SUBSET Players
         /\ mail' \in [Players -> Seq(NpcTags)] /\ order' \in [Players -> Seq(Kinds)]
<1>1. \A p \in Players : /\ Len(inbox'[p]) \in Nat
                         /\ Times(Len(inbox'[p]), "sync") \in Seq(Kinds)
  BY CountTimes DEF TypeOK, Kinds
<1> QED BY <1>1, EmptySeq DEF LoseWorld, ShapeOK, NpcTags

LEMMA InitShape == WorldInit => ShapeOK
<1>1. WorldInit => TypeOK
  BY InitTypeInv DEF WorldInit, TypeInv
<1>2. <<>> \in Seq(NpcTags) /\ <<>> \in Seq(Kinds)
  BY EmptySeq
<1>3. 0 \in Nat /\ FALSE \in BOOLEAN /\ {} \in SUBSET Players
  OBVIOUS
<1>4. WorldInit => /\ mail \in [Players -> Seq(NpcTags)]
                   /\ order \in [Players -> Seq(Kinds)]
  BY <1>2, Zenon DEF WorldInit
<1>5. WorldInit => /\ built \in [Threads -> Entry \union {Absent}]
                   /\ shown \in [Players -> NpcTags]
                   /\ model \in Keys \union {Absent}
  BY DEF WorldInit, NpcTags
<1> QED BY <1>1, <1>3, <1>4, <1>5 DEF WorldInit, ShapeOK

LEMMA NextShape == ShapeOK /\ TypeInv /\ TypeOK' /\ [WorldNext]_worldVars => ShapeOK'
<1> SUFFICES ASSUME ShapeOK, TypeInv, TypeOK', [WorldNext]_worldVars PROVE ShapeOK'
  OBVIOUS
<1>0. /\ Server \in Threads /\ Server \in Jvms
      /\ \A p \in Players : p \in Threads /\ JvmOf(p) \in Jvms
      /\ Keys \subseteq NpcTags /\ Absent \in NpcTags /\ Gone \in NpcTags
      /\ TypeOK
  BY Names DEF NpcTags, TypeInv
<1> USE DEF ShapeOK
<1>1. ASSUME NEW k \in Keys, SetModel(k)
      PROVE  ShapeOK'
  <2>1. built' \in [Threads -> Entry \union {Absent}]
    BY <1>0, <1>1, PatchType DEF SetModel
  <2> QED BY <1>0, <1>1, <2>1, TellType DEF SetModel, ServerWrites
<1>2. CASE LoadNpc
  <2>1. built' \in [Threads -> Entry \union {Absent}]
    BY <1>0, <1>2, PatchType DEF LoadNpc
  <2> QED BY <1>0, <1>2, <2>1, TellType DEF LoadNpc, ServerWrites
<1>3. ASSUME NEW p \in Players, Track(p) \/ Untrack(p)
      PROVE  ShapeOK'
  <2>1. PICK tag \in NpcTags : Tell({p}, tag)
    BY <1>0, <1>3 DEF Track, Untrack
  <2>2. mail' \in [Players -> Seq(NpcTags)] /\ order' \in [Players -> Seq(Kinds)]
    BY <2>1, TellType
  <2> QED BY <1>3, <2>2 DEF Track, Untrack, ServerWrites
<1>4. ASSUME NEW p \in Players, ReadNpc(p)
      PROVE  ShapeOK'
  <2> DEFINE tag == Head(mail[p])
  <2>1. tag \in NpcTags /\ Tail(mail[p]) \in Seq(NpcTags)
    BY <1>4, HeadTailProperties DEF ReadNpc
  <2>2. order' = [order EXCEPT ![p] = Tail(order[p])] /\ Tail(order[p]) \in Seq(Kinds)
    BY <1>4, HandledIsFirst, HeadTailProperties DEF ReadNpc, InTurn
  <2>3. built' \in [Threads -> Entry \union {Absent}]
    BY <1>0, <1>4, PatchType DEF ReadNpc
  <2>4. shown' \in [Players -> NpcTags]
    BY <1>0, <1>4, <2>1 DEF ReadNpc
  <2>5. spoiled' \in BOOLEAN
    BY <1>4, Zenon DEF ReadNpc, RememberSpoiled
  <2> QED BY <1>4, <2>1, <2>2, <2>3, <2>4, <2>5 DEF ReadNpc
<1>5. CASE ServerRegistryStep
  <2>1. spoiled' \in BOOLEAN
    BY <1>5, Zenon DEF ServerRegistryStep, RememberSpoiled
  <2> QED BY <1>5, <2>1, ServerSends DEF ServerRegistryStep
<1>6. ASSUME NEW p \in Players, BeginSync(p)
      PROVE  ShapeOK'
  <2>1. order' = [order EXCEPT ![p] = Tail(order[p])] /\ Tail(order[p]) \in Seq(Kinds)
    BY <1>6, HandledIsFirst, HeadTailProperties DEF BeginSync, InTurn
  <2>2. spoiled' \in BOOLEAN
    BY <1>6, Zenon DEF BeginSync, RememberSpoiled
  <2> QED BY <1>6, <2>1, <2>2 DEF BeginSync
<1>7. ASSUME NEW p \in Players, ClientRegistryStep(p)
      PROVE  ShapeOK'
  <2>1. spoiled' \in BOOLEAN
    BY <1>7, Zenon DEF ClientRegistryStep, RememberSpoiled
  <2> QED BY <1>7, <2>1 DEF ClientRegistryStep
<1>8. ASSUME NEW p \in Players, LeaveWorld(p)
      PROVE  ShapeOK'
  BY <1>0, <1>8, LoseType DEF LeaveWorld
<1>9. ASSUME NEW p \in Players, RestartGuest(p)
      PROVE  ShapeOK'
  BY <1>9, LoseType DEF RestartGuest
<1>10. CASE StopWorld
  <2>1. built' \in [Threads -> Entry \union {Absent}]
    BY <1>10 DEF StopWorld
  <2>2. spoiled' \in BOOLEAN
    BY <1>10, Zenon DEF StopWorld, RememberSpoiled
  <2> QED BY <1>10, <2>1, <2>2, LoseType DEF StopWorld
<1>11. CASE UNCHANGED npc
  BY <1>11 DEF npc
<1> QED
  BY <1>1, <1>2, <1>3, <1>4, <1>5, <1>6, <1>7, <1>8, <1>9, <1>10, <1>11
  DEF WorldNext, worldVars, MainThread, OwnWorld

-----------------------------------------------------------------------------
(* What a step of the world is to one player.                              *)

(* To send the NPC to no one who is not there, and to go on sending it     *)
(* only while its model stays, is what every step but Tell does.           *)
TracksStay(p) == p \in tracks' => p \in tracks /\ model' = model

SameNpc(p) == shown'[p] = shown[p] /\ built'[p] = built[p]

Quiet(p) ==
  /\ SameNpc(p) /\ TracksStay(p)
  /\ mail'[p] = mail[p] /\ inbox'[p] = inbox[p] /\ order'[p] = order[p]
  /\ heard'[p] = heard[p]
  /\ p \in connected => p \in connected'
  /\ p \in connected' /\ p # Owner => p \in connected

SentSync(p) ==
  /\ SameNpc(p) /\ TracksStay(p)
  /\ mail'[p] = mail[p]
  /\ inbox'[p] = Append(inbox[p], tagmap) /\ order'[p] = Append(order[p], "sync")
  /\ heard'[p] = heard[p]
  /\ p \in connected'

SentTag(p) ==
  /\ SameNpc(p)
  /\ \E tag \in NpcTags : /\ mail'[p] = Append(mail[p], tag)
                          /\ p \in tracks' => tag = model'
  /\ inbox'[p] = inbox[p] /\ order'[p] = Append(order[p], "npc")
  /\ heard'[p] = heard[p]
  /\ p \in connected /\ p \in connected'

Begun(p) ==
  /\ SameNpc(p) /\ TracksStay(p)
  /\ mail'[p] = mail[p]
  /\ inbox[p] # <<>> /\ inbox'[p] = Tail(inbox[p])
  /\ InTurn(p, "sync") /\ order'[p] = Tail(order[p])
  /\ p # Owner => heard'[p] = heard[p] \union {Head(inbox[p])}
  /\ connected' = connected

Read(p) ==
  /\ ReadNpc(p)
  /\ order'[p] = Tail(order[p])

Lost(p) ==
  /\ shown'[p] = Gone
  /\ built'[p] = Absent \/ (built'[p] = built[p] /\ p \notin connected)
  /\ mail'[p] = <<>> /\ order'[p] = Times(Len(inbox'[p]), "sync")
  /\ p \notin tracks' /\ p \notin connected'

(* A guest that is not connected, and has nothing left to handle, starts a *)
(* world of its own.                                                       *)
AtHome(p) ==
  /\ SameNpc(p) /\ TracksStay(p)
  /\ mail'[p] = mail[p] /\ order'[p] = order[p]
  /\ inbox[p] = <<>> /\ inbox'[p] = <<>>
  /\ heard'[p] = {}
  /\ p \notin connected /\ p \notin connected'

PlayerStep(p) ==
  \/ Quiet(p) \/ SentSync(p) \/ SentTag(p)
  \/ Begun(p) \/ Read(p) \/ Lost(p) \/ AtHome(p)

LEMMA TellIsPlayerStep ==
  ASSUME ShapeOK, NEW players \in SUBSET connected, NEW tag \in NpcTags,
         Tell(players, tag), UNCHANGED <<vars, shown>>,
         NEW p \in Players, built'[p] = built[p],
         p \in tracks' /\ p \in players => tag = model',
         p \notin players => TracksStay(p)
  PROVE  PlayerStep(p)
<1>1. connected' = connected /\ inbox' = inbox /\ heard' = heard
  BY DEF vars
<1>2. CASE p \in players
  <2>1. mail'[p] = Append(mail[p], tag) /\ order'[p] = Append(order[p], "npc")
    BY <1>2 DEF Tell
  <2> QED BY <1>1, <1>2, <2>1 DEF PlayerStep, SentTag, SameNpc
<1>3. CASE p \notin players
  <2>1. mail'[p] = mail[p] /\ order'[p] = order[p]
    BY <1>3 DEF Tell
  <2> QED BY <1>1, <1>3, <2>1 DEF PlayerStep, Quiet, SameNpc
<1> QED BY <1>2, <1>3

LEMMA WorldIsPlayerStep ==
  ASSUME ShapeOK, tracks \subseteq connected, [WorldNext]_worldVars, NEW p \in Players
  PROVE  PlayerStep(p)
<1>0. /\ TypeOK /\ p # Server /\ p \in Threads /\ Server \in Threads
      /\ Keys \subseteq NpcTags /\ Absent \in NpcTags /\ Gone \in NpcTags
      /\ model \in NpcTags
  BY Names DEF NpcTags, ShapeOK
<1>1. ASSUME NEW k \in Keys, SetModel(k)
      PROVE  PlayerStep(p)
  <2>1. built'[p] = built[p] /\ model' = k /\ tracks' = tracks
    BY <1>0, <1>1 DEF SetModel, ShapeOK
  <2>2. UNCHANGED <<vars, shown>> /\ Tell(tracks, k)
    BY <1>1 DEF SetModel, ServerWrites
  <2> QED BY <1>0, <2>1, <2>2, TellIsPlayerStep DEF TracksStay
<1>2. CASE LoadNpc
  <2>1. built'[p] = built[p] /\ model' = model /\ tracks' = {}
    BY <1>0, <1>2 DEF LoadNpc, ShapeOK
  <2>2. UNCHANGED <<vars, shown>> /\ Tell(tracks, Gone)
    BY <1>2 DEF LoadNpc, ServerWrites
  <2> QED BY <1>0, <2>1, <2>2, TellIsPlayerStep DEF TracksStay
<1>3. ASSUME NEW q \in Players, Track(q)
      PROVE  PlayerStep(p)
  <2>1. /\ built'[p] = built[p] /\ model' = model /\ tracks' = tracks \union {q}
        /\ {q} \in SUBSET connected
    BY <1>3 DEF Track
  <2>2. UNCHANGED <<vars, shown>> /\ Tell({q}, model)
    BY <1>3 DEF Track, ServerWrites
  <2> QED BY <1>0, <2>1, <2>2, TellIsPlayerStep DEF TracksStay
<1>4. ASSUME NEW q \in Players, Untrack(q)
      PROVE  PlayerStep(p)
  <2>1. /\ built'[p] = built[p] /\ model' = model /\ tracks' = tracks \ {q}
        /\ {q} \in SUBSET connected
    BY <1>4 DEF Untrack
  <2>2. UNCHANGED <<vars, shown>> /\ Tell({q}, Gone)
    BY <1>4 DEF Untrack, ServerWrites
  <2> QED BY <1>0, <2>1, <2>2, TellIsPlayerStep DEF TracksStay
<1>5. ASSUME NEW q \in Players, ReadNpc(q)
      PROVE  PlayerStep(p)
  <2>1. order' = [order EXCEPT ![q] = Tail(order[q])]
    BY <1>5, HandledIsFirst DEF ReadNpc, ShapeOK
  <2>2. CASE q = p
    BY <1>5, <2>1, <2>2 DEF PlayerStep, Read, ShapeOK
  <2>3. CASE q # p
    <3>1. /\ mail'[p] = mail[p] /\ order'[p] = order[p]
          /\ shown'[p] = shown[p] /\ built'[p] = built[p]
      BY <1>0, <1>5, <2>1, <2>3 DEF ReadNpc, ShapeOK
    <3> QED BY <1>5, <3>1 DEF ReadNpc, vars, PlayerStep, Quiet, SameNpc, TracksStay
  <2> QED BY <2>2, <2>3
<1>6. CASE ServerRegistryStep
  <2>1. UNCHANGED <<model, built, shown, tracks, mail>>
    BY <1>6 DEF ServerRegistryStep
  <2> QED BY <1>6, <2>1, ServerSends
      DEF Sends, PlayerStep, Quiet, SentSync, SameNpc, TracksStay
<1>7. ASSUME NEW q \in Players, BeginSync(q)
      PROVE  PlayerStep(p)
  <2>1. order' = [order EXCEPT ![q] = Tail(order[q])]
    BY <1>7, HandledIsFirst DEF BeginSync, ShapeOK
  <2>2. UNCHANGED <<model, built, shown, tracks, mail, connected>>
    BY <1>7 DEF BeginSync, BeginPacket
  <2>3. CASE q = p
    <3>1. /\ order'[p] = Tail(order[p]) /\ InTurn(p, "sync")
          /\ inbox[p] # <<>> /\ inbox'[p] = Tail(inbox[p])
          /\ p # Owner => heard'[p] = heard[p] \union {Head(inbox[p])}
      BY <1>0, <1>7, <2>1, <2>3 DEF BeginSync, BeginPacket, ShapeOK, TypeOK, Guests
    <3> QED BY <2>2, <3>1 DEF PlayerStep, Begun, SameNpc, TracksStay
  <2>4. CASE q # p
    <3>1. order'[p] = order[p] /\ inbox'[p] = inbox[p] /\ heard'[p] = heard[p]
      BY <1>0, <1>7, <2>1, <2>4 DEF BeginSync, BeginPacket, ShapeOK, TypeOK
    <3> QED BY <2>2, <3>1 DEF PlayerStep, Quiet, SameNpc, TracksStay
  <2> QED BY <2>3, <2>4
<1>8. ASSUME NEW q \in Players, ClientRegistryStep(q)
      PROVE  PlayerStep(p)
  <2>1. UNCHANGED <<model, built, shown, tracks, mail, order>>
    BY <1>8 DEF ClientRegistryStep
  <2>2. UNCHANGED <<inbox, heard, connected>>
    BY <1>8, Zenon DEF ClientRegistryStep, ClientAdd, ClientAddFails, LateStore,
       ClientPublish, ClientRender, ClientRenderFails
  <2> QED BY <2>1, <2>2 DEF PlayerStep, Quiet, SameNpc, TracksStay
<1>9. ASSUME NEW q \in Players, LeaveWorld(q)
      PROVE  PlayerStep(p)
  <2>1. /\ connected' = connected \ {q} /\ heard' = heard /\ model' = model
        /\ p # q => inbox'[p] = inbox[p]
    BY <1>0, <1>9 DEF LeaveWorld, Leave, TypeOK
  <2>2. built'[p] = IF p = q THEN Absent ELSE built[p]
    BY <1>0, <1>9 DEF LeaveWorld, ShapeOK
  <2> QED BY <1>9, <2>1, <2>2
      DEF LeaveWorld, LoseWorld, PlayerStep, Quiet, Lost, SameNpc, TracksStay
<1>10. ASSUME NEW q \in Players, RestartGuest(q)
       PROVE  PlayerStep(p)
  <2>1. /\ connected' = connected /\ q \notin connected
        /\ model' = model /\ built' = built
        /\ p # q => inbox'[p] = inbox[p] /\ heard'[p] = heard[p]
    BY <1>0, <1>10 DEF RestartGuest, RestartClient, TypeOK
  <2> QED BY <1>10, <2>1
      DEF RestartGuest, LoseWorld, PlayerStep, Quiet, Lost, SameNpc, TracksStay
<1>11. CASE StopWorld
  <2>1. /\ connected' = {} /\ connected \subseteq {Owner} /\ heard' = heard
        /\ model' = model
        /\ p # Owner => inbox'[p] = inbox[p]
    BY <1>0, <1>11 DEF StopWorld, StopServer, TypeOK
  <2>2. built'[p] = IF p = Owner THEN Absent ELSE built[p]
    BY <1>0, <1>11 DEF StopWorld
  <2> QED BY <1>11, <2>1, <2>2
      DEF StopWorld, LoseWorld, PlayerStep, Quiet, Lost, SameNpc, TracksStay
<1>12. CASE UNCHANGED worldVars
  BY <1>12 DEF worldVars, vars, npc, PlayerStep, Quiet, SameNpc, TracksStay
<1>13. ASSUME NEW g \in Guests, OwnWorld(g)
       PROVE  PlayerStep(p)
  <2>1. UNCHANGED npc /\ UNCHANGED <<inbox, connected>>
    BY <1>13, Zenon DEF OwnWorld, OwnWorldStep, OwnWorldStarts, OwnWorldLoads,
       OwnWorldEnds
  <2>2. CASE heard'[p] = heard[p]
    BY <2>1, <2>2 DEF npc, PlayerStep, Quiet, SameNpc, TracksStay
  <2>3. CASE heard'[p] # heard[p]
    <3>1. OwnWorldStarts(g)
      BY <1>13, <2>3, Zenon DEF OwnWorld, OwnWorldStep, OwnWorldLoads, OwnWorldEnds
    <3>2. heard' = [heard EXCEPT ![g] = {}] /\ g \notin connected /\ inbox[g] = <<>>
      BY <3>1 DEF OwnWorldStarts
    <3>3. p = g /\ heard'[p] = {}
      BY <1>0, <2>3, <3>2 DEF TypeOK
    <3> QED BY <2>1, <3>2, <3>3 DEF npc, PlayerStep, AtHome, SameNpc, TracksStay
  <2> QED BY <2>2, <2>3
<1> QED
  BY <1>1, <1>2, <1>3, <1>4, <1>5, <1>6, <1>7, <1>8, <1>9, <1>10, <1>11, <1>12,
     <1>13
  DEF WorldNext, MainThread

-----------------------------------------------------------------------------
(* Players and their connections.                                          *)

(* order says of each message on the connection which kind it is.          *)
Counted(p) ==
  /\ Count(order[p], "sync") = Len(inbox[p])
  /\ Count(order[p], "npc") = Len(mail[p])

(* Nothing of the NPC is kept for a player who is not there.               *)
Away(p) ==
  /\ p \in tracks => p \in connected
  /\ p \notin connected => mail[p] = <<>> /\ shown[p] = Gone /\ built[p] = Absent

(* A guest's login sends it the registry first: until its game has begun   *)
(* with a packet, it knows nothing of the NPC, and a packet is in front of *)
(* whatever waits for it.                                                  *)
Login(g) ==
  heard[g] = {} =>
    /\ shown[g] = Gone
    /\ order[g] # <<>> => Head(order[g]) = "sync"
    /\ g \in connected => order[g] # <<>>

(* The last tag on its way to a player is of the model the NPC has, and if *)
(* none is on its way, the player shows it.                                *)
Told(p) ==
  p \in tracks /\ model # Absent =>
    IF mail[p] = <<>> THEN shown[p] = model ELSE mail[p][Len(mail[p])] = model

ConnectionInv(p) == Counted(p) /\ Away(p) /\ (p # Owner => Login(p)) /\ Told(p)

LEMMA LastOfAppend ==
  ASSUME NEW S, NEW s \in Seq(S), NEW x \in S
  PROVE  Append(s, x) # <<>> /\ Append(s, x)[Len(Append(s, x))] = x
BY AppendProperties

LEMMA HeadOfAppend ==
  ASSUME NEW S, NEW s \in Seq(S), NEW x \in S
  PROVE  Head(Append(s, x)) = IF s = <<>> THEN x ELSE Head(s)
BY AppendProperties, LenProperties, EmptySeq

LEMMA LastOfTail ==
  ASSUME NEW S, NEW s \in Seq(S), s # <<>>
  PROVE  IF Tail(s) = <<>> THEN Head(s) = s[Len(s)]
         ELSE Tail(s)[Len(Tail(s))] = s[Len(s)]
<1>1. /\ Tail(s) \in Seq(S) /\ Len(Tail(s)) = Len(s) - 1 /\ Len(s) \in Nat \ {0}
      /\ Head(s) = s[1] /\ \A i \in 1..(Len(s) - 1) : Tail(s)[i] = s[i + 1]
  BY HeadTailProperties, LenProperties, EmptySeq
<1>2. Tail(s) = <<>> <=> Len(s) = 1
  BY <1>1, EmptySeq
<1> QED BY <1>1, <1>2

LEMMA StepCounted ==
  ASSUME ShapeOK, TypeOK', NEW p \in Players, Counted(p), PlayerStep(p)
  PROVE  Counted(p)'
<1>0. /\ inbox[p] \in Seq(Tags) /\ mail[p] \in Seq(NpcTags) /\ order[p] \in Seq(Kinds)
      /\ tagmap \in Tags /\ inbox'[p] \in Seq(Tags)
      /\ "sync" \in Kinds /\ "npc" \in Kinds
  BY DEF ShapeOK, TypeOK, Kinds
<1>1. CASE Quiet(p) \/ AtHome(p)
  BY <1>1 DEF Quiet, AtHome, Counted
<1>2. CASE SentSync(p)
  <2>1. Len(inbox'[p]) = Len(inbox[p]) + 1
    BY <1>0, <1>2, AppendProperties DEF SentSync
  <2>2. /\ Count(order'[p], "sync") = Count(order[p], "sync") + 1
        /\ Count(order'[p], "npc") = Count(order[p], "npc") + 0
    BY <1>0, <1>2, CountAppend DEF SentSync
  <2>3. Count(order[p], "npc") \in Nat
    BY <1>0, CountIsNat
  <2> QED BY <1>2, <2>1, <2>2, <2>3 DEF SentSync, Counted
<1>3. CASE SentTag(p)
  <2>1. Len(mail'[p]) = Len(mail[p]) + 1
    BY <1>0, <1>3, AppendProperties DEF SentTag
  <2>2. /\ Count(order'[p], "sync") = Count(order[p], "sync") + 0
        /\ Count(order'[p], "npc") = Count(order[p], "npc") + 1
    BY <1>0, <1>3, CountAppend DEF SentTag
  <2>3. Count(order[p], "sync") \in Nat
    BY <1>0, CountIsNat
  <2> QED BY <1>3, <2>1, <2>2, <2>3 DEF SentTag, Counted
<1>4. CASE Begun(p)
  <2>1. Len(inbox'[p]) = Len(inbox[p]) - 1 /\ Len(inbox[p]) \in Nat
    BY <1>0, <1>4, HeadTailProperties, LenProperties DEF Begun
  <2>2. /\ Count(order[p], "sync") = Count(order'[p], "sync") + 1
        /\ Count(order[p], "npc") = Count(order'[p], "npc") + 0
    BY <1>0, <1>4, CountTail DEF Begun, InTurn
  <2>3. Count(order'[p], "npc") \in Nat /\ Count(order'[p], "sync") \in Nat
    BY <1>0, <1>4, HeadTailProperties, CountIsNat DEF Begun, InTurn
  <2> QED BY <1>4, <2>1, <2>2, <2>3 DEF Begun, Counted
<1>5. CASE Read(p)
  <2>0. /\ mail[p] # <<>> /\ mail'[p] = Tail(mail[p]) /\ inbox' = inbox
        /\ order[p] # <<>> /\ Head(order[p]) = "npc" /\ order'[p] = Tail(order[p])
    BY <1>5 DEF Read, ReadNpc, InTurn, vars, ShapeOK
  <2>1. Len(mail'[p]) = Len(mail[p]) - 1 /\ Len(mail[p]) \in Nat
    BY <1>0, <2>0, HeadTailProperties, LenProperties
  <2>2. /\ Count(order[p], "sync") = Count(order'[p], "sync") + 0
        /\ Count(order[p], "npc") = Count(order'[p], "npc") + 1
    BY <1>0, <2>0, CountTail
  <2>3. Count(order'[p], "npc") \in Nat /\ Count(order'[p], "sync") \in Nat
    BY <1>0, <2>0, HeadTailProperties, CountIsNat
  <2> QED BY <2>0, <2>1, <2>2, <2>3 DEF Counted
<1>6. CASE Lost(p)
  <2>1. Len(inbox'[p]) \in Nat
    BY <1>0, LenProperties
  <2>2. /\ Count(order'[p], "sync") = Len(inbox'[p])
        /\ Count(order'[p], "npc") = 0
    <3>1. PICK n \in Nat : n = Len(inbox'[p])
      BY <2>1
    <3>2. \A kind : Count(Times(n, "sync"), kind) = IF kind = "sync" THEN n ELSE 0
      BY <1>0, CountTimes
    <3>3. order'[p] = Times(n, "sync")
      BY <1>6, <3>1 DEF Lost
    <3> QED BY <3>1, <3>2, <3>3
  <2>3. Len(mail'[p]) = 0
    BY <1>6 DEF Lost
  <2> QED BY <2>2, <2>3 DEF Counted
<1> QED BY <1>1, <1>2, <1>3, <1>4, <1>5, <1>6 DEF PlayerStep

LEMMA StepAway ==
  ASSUME ShapeOK, NEW p \in Players, Away(p), PlayerStep(p)
  PROVE  Away(p)'
<1>1. CASE Quiet(p) \/ SentSync(p) \/ SentTag(p) \/ Begun(p) \/ Lost(p) \/ AtHome(p)
  BY <1>1 DEF Quiet, SentSync, SentTag, Begun, Lost, AtHome, Away, SameNpc, TracksStay
<1>2. CASE Read(p)
  <2>1. /\ mail[p] # <<>> /\ connected' = connected /\ tracks' = tracks
    BY <1>2 DEF Read, ReadNpc, vars
  <2> QED BY <2>1 DEF Away
<1> QED BY <1>1, <1>2 DEF PlayerStep

LEMMA StepLogin ==
  ASSUME ShapeOK, TypeOK', NEW p \in Players, p # Owner,
         Counted(p), Login(p), Away(p), PlayerStep(p)
  PROVE  Login(p)'
<1>0. /\ order[p] \in Seq(Kinds) /\ "sync" \in Kinds /\ "npc" \in Kinds
      /\ inbox'[p] \in Seq(Tags)
  BY DEF ShapeOK, TypeOK, Kinds
<1>1. CASE Quiet(p)
  BY <1>1 DEF Quiet, Login, SameNpc
<1>2. CASE SentSync(p)
  <2>1. /\ order'[p] # <<>>
        /\ Head(order'[p]) = IF order[p] = <<>> THEN "sync" ELSE Head(order[p])
    BY <1>0, <1>2, LastOfAppend, HeadOfAppend DEF SentSync
  <2> QED BY <1>2, <2>1 DEF SentSync, Login, SameNpc
<1>3. CASE SentTag(p)
  <2>1. /\ order'[p] # <<>>
        /\ Head(order'[p]) = IF order[p] = <<>> THEN "npc" ELSE Head(order[p])
    BY <1>0, <1>3, LastOfAppend, HeadOfAppend DEF SentTag
  <2> QED BY <1>3, <2>1 DEF SentTag, Login, SameNpc
<1>4. CASE Begun(p)
  BY <1>4 DEF Begun, Login
<1>5. CASE Read(p)
  <2>1. heard' = heard /\ order[p] # <<>> /\ Head(order[p]) = "npc"
    BY <1>5 DEF Read, ReadNpc, vars, InTurn
  <2> QED BY <2>1 DEF Login
<1>6. CASE Lost(p)
  <2>1. Len(inbox'[p]) \in Nat
    BY <1>0, LenProperties
  <2>2. order'[p] # <<>> => Head(order'[p]) = "sync"
    BY <1>0, <1>6, <2>1, CountTimes DEF Lost
  <2> QED BY <1>6, <2>2 DEF Lost, Login
<1>7. CASE AtHome(p)
  <2>1. mail[p] = <<>> /\ shown[p] = Gone /\ inbox[p] = <<>>
    BY <1>7 DEF AtHome, Away
  <2>2. Count(order[p], "sync") = 0 /\ Count(order[p], "npc") = 0
    BY <2>1 DEF Counted
  <2>3. order[p] = <<>>
    <3>1. ASSUME order[p] # <<>>
          PROVE  FALSE
      <4>1. Tail(order[p]) \in Seq(Kinds) /\ Head(order[p]) \in Kinds
        BY <1>0, <3>1, HeadTailProperties
      <4>2. PICK kind \in Kinds : kind = Head(order[p])
        BY <4>1
      <4>3. /\ Count(order[p], kind) = Count(Tail(order[p]), kind) + 1
            /\ Count(Tail(order[p]), kind) \in Nat
        BY <1>0, <3>1, <4>1, <4>2, CountTail, CountIsNat
      <4>4. Count(order[p], kind) = 0
        BY <2>2 DEF Kinds
      <4> QED BY <4>3, <4>4
    <3> QED BY <3>1
  <2> QED BY <1>7, <2>1, <2>3 DEF AtHome, Login, SameNpc
<1> QED BY <1>1, <1>2, <1>3, <1>4, <1>5, <1>6, <1>7 DEF PlayerStep

LEMMA StepTold ==
  ASSUME ShapeOK, NEW p \in Players, Told(p), PlayerStep(p)
  PROVE  Told(p)'
<1>0. mail[p] \in Seq(NpcTags)
  BY DEF ShapeOK
<1>1. CASE Quiet(p) \/ SentSync(p) \/ Begun(p) \/ Lost(p) \/ AtHome(p)
  BY <1>1 DEF Quiet, SentSync, Begun, Lost, AtHome, Told, SameNpc, TracksStay
<1>2. CASE SentTag(p)
  <2>1. PICK tag \in NpcTags : mail'[p] = Append(mail[p], tag) /\ (p \in tracks' => tag = model')
    BY <1>2 DEF SentTag
  <2>2. mail'[p] # <<>> /\ mail'[p][Len(mail'[p])] = tag
    BY <1>0, <2>1, LastOfAppend
  <2> QED BY <2>1, <2>2 DEF Told
<1>3. CASE Read(p)
  <2> DEFINE tag == Head(mail[p])
  <2>1. /\ mail[p] # <<>> /\ mail'[p] = Tail(mail[p])
        /\ tracks' = tracks /\ model' = model
        /\ tag # Absent => shown'[p] = tag
    BY <1>3 DEF Read, ReadNpc, ShapeOK
  <2>2. IF mail'[p] = <<>> THEN tag = mail[p][Len(mail[p])]
        ELSE mail'[p][Len(mail'[p])] = mail[p][Len(mail[p])]
    BY <1>0, <2>1, LastOfTail
  <2> QED BY <2>1, <2>2 DEF Told
<1> QED BY <1>1, <1>2, <1>3 DEF PlayerStep

LEMMA NextConnection ==
  ASSUME ShapeOK, TypeOK', \A p \in Players : ConnectionInv(p), [WorldNext]_worldVars
  PROVE  \A p \in Players : ConnectionInv(p)'
<1>1. tracks \subseteq connected
  BY DEF ConnectionInv, Away, ShapeOK
<1> SUFFICES ASSUME NEW p \in Players PROVE ConnectionInv(p)'
  OBVIOUS
<1>2. PlayerStep(p)
  BY <1>1, WorldIsPlayerStep
<1> QED BY <1>2, StepCounted, StepAway, StepLogin, StepTold DEF ConnectionInv

LEMMA InitConnection == WorldInit => \A p \in Players : ConnectionInv(p)
<1>1. ASSUME WorldInit, NEW p \in Players
      PROVE  /\ mail[p] = <<>> /\ order[p] = <<>> /\ inbox[p] = <<>>
             /\ shown[p] = Gone /\ built[p] = Absent
             /\ tracks = {} /\ connected = {}
  BY <1>1, Names DEF WorldInit, Init
<1>2. Len(<<>>) = 0
  OBVIOUS
<1> QED BY <1>1, <1>2, CountEmpty DEF ConnectionInv, Counted, Away, Login, Told

(* What holds of the types and the connections in every state.             *)
LEMMA ConnectionInvariant ==
  WorldSpec => [](ShapeOK /\ \A p \in Players : ConnectionInv(p))
<1>1. ShapeOK /\ TypeInv /\ TypeInv' /\ [WorldNext]_worldVars => ShapeOK'
  BY NextShape DEF TypeInv
<1>2. /\ ShapeOK /\ (\A p \in Players : ConnectionInv(p)) /\ TypeInv'
      /\ [WorldNext]_worldVars
      => (\A p \in Players : ConnectionInv(p))'
  BY NextConnection DEF TypeInv
<1>3. WorldSpec => []TypeInv
  BY WorldKeepsRegistry, TypeInvariant, PTL
<1> QED BY InitShape, InitConnection, <1>1, <1>2, <1>3, PTL DEF WorldSpec

(* Every variable keeps to its type, and the order kept for a connection   *)
(* accounts for each packet and each tag on it: none is lost or invented   *)
(* when a player leaves, restarts or is sent two kinds of message at once. *)
THEOREM WorldTypeCorrect == WorldSpec => []WorldTypeOK
<1>1. ShapeOK /\ (\A p \in Players : ConnectionInv(p)) => WorldTypeOK
  BY DEF ShapeOK, ConnectionInv, Counted, WorldTypeOK
<1> QED BY ConnectionInvariant, <1>1, PTL

-----------------------------------------------------------------------------
(* The patch of the NPC a guest shows.                                     *)

(* A guest that has begun packets of one content only has built the NPC's  *)
(* patch from that content, if it has a patch for the model; models that   *)
(* a world of its own has left a provider for are excepted.                *)
BuiltInv(g) ==
  \A tags \in Tags :
    /\ heard[g] = {tags}
    /\ ClientSafe(tags)
    /\ shown[g] \in Keys \ OwnKeys(g)
    /\ tags[shown[g]] # Absent
    /\ ~Shape[tags[shown[g]]].disabled
    => built[g] = [key |-> shown[g], def |-> tags[shown[g]], full |-> FALSE]

(* A guest's own files leave its registry only when its lists are emptied. *)
LEMMA OwnKeysStay ==
  ASSUME TypeInv, SeenInv, ServerInv, [Next]_vars, NEW g \in Guests, heard'[g] # {}
  PROVE  OwnKeys(g) \subseteq OwnKeys(g)'
<1>0. g \in Jvms /\ g # Server /\ Untainted(g)' /\ providers[g] \in Seq(Entry)
  BY Names DEF Untainted, TypeInv, TypeOK
<1>1. JvmStep(g) /\ ~Empties(g)
  BY <1>0, NextIsJvmStep DEF Empties
<1>2. ASSUME NEW e \in Entry, providers'[g] = Append(providers[g], e)
      PROVE  OwnKeys(g) \subseteq OwnKeys(g)'
  BY <1>0, <1>2, OwnKeysAppend
<1>3. CASE providers'[g] = providers[g]
  BY <1>3 DEF OwnKeys
<1> QED
  BY <1>1, <1>2, <1>3
  DEF JvmStep, Stays, ThreadStep, Begins, Stalls, Adds, Misses, Publishes,
      Announces, Renders, Fails, OwnAdds, OwnEnds, SameTables

LEMMA StepBuilt ==
  ASSUME ShapeOK, GuestAgreesWithItsPacket, NEW g \in Guests,
         Login(g), BuiltInv(g), PlayerStep(g),
         heard'[g] # {} => OwnKeys(g) \subseteq OwnKeys(g)'
  PROVE  BuiltInv(g)'
<1>0. g \in Players /\ g \in Jvms /\ g \in Threads /\ JvmOf(g) = g /\ g # Owner
  BY Names DEF Guests
<1> SUFFICES ASSUME OwnKeys(g) \subseteq OwnKeys(g)'
             PROVE  BuiltInv(g)'
  BY DEF BuiltInv
<1>1. CASE Quiet(g) \/ SentSync(g) \/ SentTag(g)
  BY <1>1 DEF Quiet, SentSync, SentTag, BuiltInv, SameNpc
<1>2. CASE Begun(g)
  <2>1. ASSUME NEW tags \in Tags, heard'[g] = {tags}, shown'[g] \in Keys
        PROVE  heard[g] = {tags}
    <3>1. shown[g] # Gone
      BY <1>2, <2>1, GoneAssumption DEF Begun, SameNpc
    <3>2. heard[g] # {}
      BY <3>1 DEF Login
    <3> QED BY <1>0, <1>2, <2>1, <3>2 DEF Begun
  <2> QED BY <1>2, <2>1 DEF BuiltInv, Begun, SameNpc
<1>3. CASE Read(g)
  <2> DEFINE tag == Head(mail[g])
  <2>1. /\ thread[g].pc = "idle" /\ heard' = heard
        /\ shown'[g] = IF tag # Absent THEN tag
                       ELSE IF shown[g] = Gone THEN Absent ELSE shown[g]
        /\ built'[g] = IF tag = Gone THEN Absent
                       ELSE IF tag = Absent THEN built[g] ELSE PatchOf(g, tag, built[g])
    BY <1>0, <1>3 DEF Read, ReadNpc, ShapeOK, vars
  <2> HIDE DEF tag
  <2> SUFFICES ASSUME NEW tags \in Tags, heard[g] = {tags}, ClientSafe(tags),
                      shown'[g] \in Keys, shown'[g] \notin OwnKeys(g),
                      tags[shown'[g]] # Absent,
                      ~Shape[tags[shown'[g]]].disabled
               PROVE  built'[g] = [key |-> shown'[g], def |-> tags[shown'[g]],
                                   full |-> FALSE]
    BY <2>1 DEF BuiltInv
  <2>2. CASE tag = Absent
    <3>1. shown'[g] = shown[g] /\ built'[g] = built[g]
      BY <2>1, <2>2, NoModelAssumption, GoneAssumption
    <3> QED BY <3>1 DEF BuiltInv
  <2>3. CASE tag # Absent
    <3>1. shown'[g] = tag /\ tag \in Keys /\ tag # Gone
      BY <2>1, <2>3, GoneAssumption
    <3>2. ProviderFor(g, tag) = [key |-> tag, def |-> tags[tag], full |-> FALSE]
      BY <2>1, <3>1 DEF GuestAgreesWithItsPacket
    <3>3. tags[tag] \in Defs
      BY <3>1 DEF Tags
    <3>4. ProviderFor(g, tag) \in Entry /\ ProviderFor(g, tag).def = tags[tag]
      BY <3>1, <3>2, <3>3 DEF Entry
    <3>5. Usable(ProviderFor(g, tag))
      BY <3>1, <3>4, AbsentAssumption DEF Usable
    <3> QED BY <2>1, <2>3, <3>1, <3>2, <3>5 DEF PatchOf
  <2> QED BY <2>2, <2>3
<1>4. CASE Lost(g)
  BY <1>4, GoneAssumption DEF Lost, BuiltInv
<1>5. CASE AtHome(g)
  BY <1>5 DEF AtHome, BuiltInv
<1> QED BY <1>1, <1>2, <1>3, <1>4, <1>5 DEF PlayerStep

LEMMA BuiltInvariant == WorldSpec => [](\A g \in Guests : BuiltInv(g))
<1>1. WorldInit => \A g \in Guests : BuiltInv(g)
  BY Names, GoneAssumption DEF WorldInit, BuiltInv
<1>2. /\ ShapeOK /\ (\A p \in Players : ConnectionInv(p)) /\ GuestAgreesWithItsPacket
      /\ TypeInv /\ SeenInv /\ ServerInv
      /\ (\A g \in Guests : BuiltInv(g)) /\ [WorldNext]_worldVars
      => (\A g \in Guests : BuiltInv(g))'
  <2> SUFFICES ASSUME ShapeOK, \A p \in Players : ConnectionInv(p),
                      GuestAgreesWithItsPacket, TypeInv, SeenInv, ServerInv,
                      \A g \in Guests : BuiltInv(g),
                      [WorldNext]_worldVars, NEW g \in Guests
               PROVE  BuiltInv(g)'
    OBVIOUS
  <2>1. g \in Players /\ g # Owner /\ Login(g)
    BY Names DEF ConnectionInv
  <2>2. tracks \subseteq connected
    BY DEF ConnectionInv, Away, ShapeOK
  <2>3. PlayerStep(g)
    BY <2>1, <2>2, WorldIsPlayerStep
  <2>4. heard'[g] # {} => OwnKeys(g) \subseteq OwnKeys(g)'
    BY WorldStep, OwnKeysStay
  <2> QED BY <2>1, <2>3, <2>4, StepBuilt
<1> QED
  BY WorldKeepsRegistry, TypeInvariant, SeenInvariant, ServerInvariant,
     GuestHoldsItsPacket, ConnectionInvariant, <1>1, <1>2, PTL
  DEF WorldSpec

(* A guest that has only been sent the server's content since its tables   *)
(* were last emptied, and has handled all it was sent, shows the NPC with  *)
(* the server's model and fights with the patch of the very content the    *)
(* server's NPC has: the connection keeps the packet of a login ahead of   *)
(* every tag.  Excepted is a model for which a world of the guest's own    *)
(* has left a provider: first match keeps that one in front.               *)
THEOREM GuestsFightAlike == WorldSpec => []GuestFightsLikeServer
<1>1. ASSUME ShapeOK, \A p \in Players : ConnectionInv(p),
             \A g \in Guests : BuiltInv(g), ServerServesItsTagmap,
             NEW g \in Guests, g \in tracks, heard[g] = {tagmap}, ClientSafe(tagmap),
             model \notin OwnKeys(g),
             order[g] = <<>>, ServerUpToDate
      PROVE  /\ shown[g] = model /\ built[g] # Absent
             /\ built[g].key = built[Server].key /\ built[g].def = built[Server].def
  <2>0. g \in Players /\ ConnectionInv(g) /\ BuiltInv(g) /\ tagmap \in Tags
    BY <1>1, Names DEF ShapeOK, TypeOK
  <2>1. model \in Keys /\ tagmap[model] \in Defs
    BY <1>1, <2>0 DEF ShapeOK, ServerUpToDate, Tags
  <2>2. mail[g] = <<>>
    <3>1. Len(mail[g]) = 0 /\ mail[g] \in Seq(NpcTags)
      BY <1>1, <2>0, CountEmpty DEF ConnectionInv, Counted, ShapeOK
    <3> QED BY <3>1, EmptySeq
  <2>3. shown[g] = model
    BY <1>1, <2>0, <2>2 DEF ConnectionInv, Told, ServerUpToDate
  <2>4. built[Server] = [key |-> model, def |-> tagmap[model], full |-> TRUE]
    BY <1>1, <2>1 DEF ServerServesItsTagmap, ServerUpToDate
  <2>5. ~Shape[tagmap[model]].disabled
    BY <1>1, <2>4 DEF ServerUpToDate, Usable
  <2>6. built[g] = [key |-> model, def |-> tagmap[model], full |-> FALSE]
    BY <1>1, <2>0, <2>1, <2>3, <2>5 DEF BuiltInv, ServerUpToDate
  <2>7. built[g] \in Entry
    BY <2>1, <2>6 DEF Entry
  <2>8. built[g].key = built[Server].key /\ built[g].def = built[Server].def
    BY <2>4, <2>6
  <2>9. built[g] # Absent
    BY <2>7, AbsentAssumption
  <2> QED BY <2>3, <2>8, <2>9
<1>2. /\ ShapeOK /\ (\A p \in Players : ConnectionInv(p))
      /\ (\A g \in Guests : BuiltInv(g)) /\ ServerServesItsTagmap
      => GuestFightsLikeServer
  BY <1>1 DEF GuestFightsLikeServer
<1> QED
  BY WorldKeepsRegistry, AnnouncedIsServed, ConnectionInvariant, BuiltInvariant,
     <1>2, PTL

-----------------------------------------------------------------------------
(* The renderer of the NPC that is drawn.                                  *)

(* spoiled remembers tainted until the patch is built anew. *)
SpoiledInv == tainted => spoiled

(* A patch in use names a renderer its JVM has, or is about to have; the   *)
(* provider it was built from may be gone since.                           *)
PatchInv(p) ==
  /\ built[p] # Absent
  /\ JvmOf(p) = Server => ~spoiled
  => /\ ~Shape[built[p].def].disabled
     /\ NamesRenderer(built[p].def) => Served(JvmOf(p), built[p])

(* What a step may do to the memory of a race: keep it, or forget it with  *)
(* the owner's patch, which is gone or built anew from the server's list.  *)
StepForgets ==
  \/ built'[Owner] = Absent
  \/ Read(Owner) /\ Usable(ProviderFor(Server, Head(mail[Owner])))
                 /\ Head(mail[Owner]) \notin {Absent, Gone}

LEMMA StepSpoiled ==
  ASSUME ShapeOK, TypeOK', SpoiledInv, [WorldNext]_worldVars
  PROVE  /\ SpoiledInv'
         /\ spoiled /\ ~spoiled' /\ Owner \in Players => StepForgets
<1>1. CASE RememberSpoiled(FALSE)
  BY <1>1, Zenon DEF RememberSpoiled, SpoiledInv
<1>2. CASE spoiled' = spoiled /\ tainted' = tainted
  BY <1>2 DEF SpoiledInv
<1>3. ASSUME NEW p \in Players, ReadNpc(p)
      PROVE  /\ SpoiledInv'
             /\ spoiled /\ ~spoiled' /\ Owner \in Players => StepForgets
  <2> DEFINE tag == Head(mail[p])
             rebuilt == /\ p = Owner /\ tag # Absent
                        /\ tag = Gone \/ Usable(ProviderFor(Server, tag))
  <2>1. RememberSpoiled(rebuilt) /\ built' = [built EXCEPT ![p] =
                 IF tag = Gone THEN Absent
                 ELSE IF tag = Absent THEN @ ELSE PatchOf(JvmOf(p), tag, @)]
    BY <1>3 DEF ReadNpc
  <2>2. SpoiledInv' /\ (spoiled /\ ~spoiled' => rebuilt)
    BY <2>1, Zenon DEF RememberSpoiled, SpoiledInv
  <2>3. ASSUME rebuilt, tag = Gone
        PROVE  StepForgets
    BY <2>1, <2>3, Names DEF ShapeOK, StepForgets
  <2>4. ASSUME rebuilt, tag # Gone
        PROVE  StepForgets
    <3>1. order' = [order EXCEPT ![p] = Tail(order[p])]
      BY <1>3, HandledIsFirst DEF ReadNpc, ShapeOK
    <3>2. Read(Owner)
      BY <1>3, <2>4, <3>1 DEF Read, ShapeOK
    <3> QED BY <2>4, <3>2 DEF StepForgets
  <2> QED BY <2>2, <2>3, <2>4
<1>4. CASE StopWorld
  <2>1. RememberSpoiled(TRUE)
    BY <1>4 DEF StopWorld
  <2>2. SpoiledInv'
    BY <2>1, Zenon DEF RememberSpoiled, SpoiledInv
  <2>3. Owner \in Players => built'[Owner] = Absent
    BY <1>4, Names DEF StopWorld
  <2> QED BY <2>2, <2>3 DEF StepForgets
<1>5. ASSUME NEW g \in Guests, OwnWorld(g)
      PROVE  spoiled' = spoiled /\ tainted' = tainted
  BY <1>5, Zenon DEF OwnWorld, npc, OwnWorldStep, OwnWorldStarts, OwnWorldLoads,
     OwnWorldEnds
<1> QED
  BY <1>1, <1>2, <1>3, <1>4, <1>5, Zenon
  DEF WorldNext, MainThread, worldVars, npc, vars, SetModel, LoadNpc, Track, Untrack,
      ServerWrites, ServerRegistryStep, BeginSync, ClientRegistryStep,
      LeaveWorld, Leave, RestartGuest, RestartClient

(* A patch that stays in use keeps its renderer. *)
LEMMA PatchKept ==
  ASSUME ShapeOK, TypeInv, SeenInv, ServerInv, \A j \in Jvms : RendererInv(j),
         SpoiledInv', [WorldNext]_worldVars,
         NEW p \in Players, Away(p), PatchInv(p),
         built[p] # Absent, JvmOf(p) = Server => ~spoiled /\ ~spoiled',
         built'[p] = built[p]
  PROVE  PatchInv(p)'
<1>0. PICK j \in Jvms : j = JvmOf(p)
  BY Names
<1>1. /\ TypeOK /\ p \in Threads /\ Side(j) = "client" /\ Untainted(j)'
      /\ \A g \in Guests : j = g => p = g
  BY <1>0, Names DEF ShapeOK, Side, Untainted, SpoiledInv
<1>2. PICK e \in Entry : e = built[p]
  BY <1>1 DEF ShapeOK
<1>3. ~Shape[e.def].disabled
  BY <1>2 DEF PatchInv
<1>4. ASSUME NamesRenderer(e.def)
      PROVE  Served(j, e)'
  <2>1. Served(j, e)
    BY <1>0, <1>2, <1>4 DEF PatchInv
  <2>2. JvmStep(j)
    BY <1>1, WorldStep, NextIsJvmStep
  <2>3. CASE Empties(j)
    <3>1. ~(j \in Guests /\ RestartClient(j))
      BY <1>1 DEF RestartClient, Away
    <3>2. /\ renderers'[j] = renderers[j]
          /\ \A t \in Runs(j) : thread[t].pc \in Body => thread'[t] = thread[t]
      BY <1>1, <2>3, <3>1 DEF Empties
    <3> QED BY <2>1, <3>2 DEF Served, InBody, Runs
  <2>4. CASE \/ Stays(j) \/ \E t \in Runs(j) : ThreadStep(j, t)
             \/ OwnEnds(j) \/ \E f \in Entry : OwnAdds(j, f)
    BY <1>1, <1>4, <2>1, <2>4, ServedStays
  <2> QED BY <2>2, <2>3, <2>4 DEF JvmStep
<1>5. Served(j, e)' => Served(JvmOf(p), built[p])'
  BY <1>0, <1>2 DEF Served, InBody
<1> QED BY <1>2, <1>3, <1>4, <1>5 DEF PatchInv

LEMMA StepPatch ==
  ASSUME ShapeOK, TypeInv, SeenInv, ServerInv, \A j \in Jvms : RendererInv(j),
         SpoiledInv', [WorldNext]_worldVars,
         spoiled /\ ~spoiled' /\ Owner \in Players => StepForgets,
         NEW p \in Players, Away(p), PatchInv(p), PlayerStep(p)
  PROVE  PatchInv(p)'
<1> SUFFICES ASSUME built'[p] # Absent, JvmOf(p) = Server => ~spoiled'
             PROVE  PatchInv(p)'
  BY DEF PatchInv
<1>0. PICK j \in Jvms : j = JvmOf(p)
  BY Names
<1>1. /\ TypeOK /\ p \in Threads /\ Side(j) = "client" /\ Untainted(j)'
      /\ JvmOf(p) = Server => p = Owner
  BY <1>0, Names DEF ShapeOK, Side, Untainted, SpoiledInv
<1> DEFINE tag == Head(mail[p])
           fresh == ProviderFor(j, tag)
<1>2. CASE Read(p) /\ tag \notin {Absent, Gone} /\ Usable(fresh)
  <2>1. UNCHANGED vars /\ built'[p] = fresh
    BY <1>0, <1>1, <1>2 DEF Read, ReadNpc, ShapeOK, PatchOf
  <2>2. PICK i \in DOMAIN providers[j] : fresh = providers[j][i]
    BY <1>1, <1>2, ProviderType DEF Usable
  <2> HIDE DEF tag, fresh
  <2>3. Untainted(j)
    BY <1>1, <2>1 DEF Untainted, vars
  <2>4. NamesRenderer(fresh.def) => Served(j, fresh)
    BY <1>1, <2>2, <2>3 DEF RendererInv
  <2>5. Served(j, fresh) => Served(JvmOf(p), built[p])'
    BY <1>0, <2>1 DEF Served, InBody, vars, tables
  <2> QED BY <1>2, <2>1, <2>4, <2>5 DEF PatchInv, Usable
<1>3. CASE ~(Read(p) /\ tag \notin {Absent, Gone} /\ Usable(fresh))
  <2>1. built'[p] = built[p]
    <3>1. CASE Read(p)
      BY <1>0, <1>3, <3>1 DEF Read, ReadNpc, ShapeOK, PatchOf
    <3>2. CASE ~Read(p)
      BY <3>2 DEF PlayerStep, Quiet, SentSync, SentTag, Begun, Lost, AtHome, SameNpc
    <3> QED BY <3>1, <3>2
  <2>2. JvmOf(p) = Server => ~spoiled
    BY <1>0, <1>1, <1>3 DEF StepForgets
  <2> QED BY <2>1, <2>2, PatchKept
<1> QED BY <1>2, <1>3

LEMMA PatchInvariant == WorldSpec => []\A p \in Players : PatchInv(p)
<1>1. WorldInit => SpoiledInv /\ \A p \in Players : PatchInv(p)
  BY Names DEF WorldInit, Init, SpoiledInv, PatchInv
<1>2. ShapeOK /\ TypeInv' /\ SpoiledInv /\ [WorldNext]_worldVars => SpoiledInv'
  BY StepSpoiled DEF TypeInv
<1>3. /\ ShapeOK /\ TypeInv /\ TypeInv' /\ SeenInv /\ ServerInv
      /\ (\A j \in Jvms : RendererInv(j))
      /\ (\A p \in Players : ConnectionInv(p))
      /\ SpoiledInv /\ (\A p \in Players : PatchInv(p)) /\ [WorldNext]_worldVars
      => (\A p \in Players : PatchInv(p))'
  <2> SUFFICES ASSUME ShapeOK, TypeInv, TypeInv', SeenInv, ServerInv,
                      \A j \in Jvms : RendererInv(j),
                      \A p \in Players : ConnectionInv(p),
                      SpoiledInv, \A p \in Players : PatchInv(p),
                      [WorldNext]_worldVars, NEW p \in Players
               PROVE  PatchInv(p)'
    OBVIOUS
  <2>1. Away(p) /\ PlayerStep(p)
    BY WorldIsPlayerStep DEF ConnectionInv, Away, ShapeOK
  <2>2. SpoiledInv' /\ (spoiled /\ ~spoiled' /\ Owner \in Players => StepForgets)
    BY StepSpoiled DEF TypeInv
  <2> QED BY <2>1, <2>2, StepPatch
<1> QED
  BY WorldKeepsRegistry, TypeInvariant, SeenInvariant, ServerInvariant,
     RendererInvariant, ConnectionInvariant, <1>1, <1>2, <1>3, PTL DEF WorldSpec

(* An NPC drawn with the patch of the model it shows has the renderer that *)
(* patch's content names, also when a reload or the end of the world took  *)
(* the provider away: renderersMap.get does not answer null.  On a host it *)
(* holds after a reload that the owner's client wrote into, too, once a    *)
(* reload has run undisturbed and the owner's patch was built anew;        *)
(* until then that patch is excepted, and so is content on which           *)
(* filterClientData throws.                                                *)
THEOREM DrawnNpcIsRendered == WorldSpec => []DrawnNpcHasRenderer
<1>1. (\A p \in Players : PatchInv(p)) => DrawnNpcHasRenderer
  <2> SUFFICES ASSUME NEW p \in Players, PatchInv(p), Settled(JvmOf(p)),
                      built[p] # Absent, built[p].key = shown[p],
                      Shape[built[p].def].filters,
                      Shape[built[p].def].renderer = "valid"
               PROVE  renderers[JvmOf(p)][shown[p]] # Absent
    BY DEF DrawnNpcHasRenderer
  <2>1. Served(JvmOf(p), built[p])
    BY DEF PatchInv, NamesRenderer, Settled
  <2>2. ~InBody(JvmOf(p), built[p])
    BY DEF InBody, Runs, Settled, Body
  <2> QED BY <2>1, <2>2 DEF Served
<1> QED BY PatchInvariant, <1>1, PTL

=============================================================================
