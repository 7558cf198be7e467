------------------------------- MODULE NpcWorld -------------------------------
(***************************************************************************)
(* One NPC in the world whose patch registry NpcPatchRegistry models: its  *)
(* model on the server, the copies the clients have of it, and the patch   *)
(* each side built from its own registry when it last applied a model.     *)
(*                                                                         *)
(* Composes the registry with what MixinDataDisplay does to the model and  *)
(* the patch (NpcDisplay has the rest of the display, with a registry that *)
(* is arbitrary).  The tags of the NPC and the packets of the registry     *)
(* reach a client over one connection, and one main thread handles both in *)
(* the order they were sent.                                               *)
(***************************************************************************)
EXTENDS NpcPatchRegistry

CONSTANTS
  Gone,         \* the NPC does not exist on a client; the tag that says so
  MaxNpcWrites  \* bound: writes, loads and trackings of the NPC

ASSUME NoModelAssumption == Absent \notin Keys
ASSUME GoneAssumption == Gone \notin Keys /\ Gone # Absent
ASSUME NpcWritesAssumption == MaxNpcWrites \in Nat

VARIABLES
  model,      \* the model of the server's NPC, or Absent
  built,      \* [Threads -> Entry \union {Absent}]: the provider the patch
              \* in use was built from
  shown,      \* [Players -> model of the client's copy, or Gone]
  tracks,     \* players the server sends the NPC to
  mail,       \* [Players -> Seq(NpcTags)]: tags on their way to a client
  order,      \* [Players -> Seq(Kinds)]: how mail and inbox are interleaved
  npcWrites,  \* counts writes, loads and trackings, up to MaxNpcWrites
  spoiled     \* history: since the owner's patch in use was built, tables
              \* counted that the owner's client had written into an apply()

npc == <<model, built, shown, tracks, mail, order, npcWrites, spoiled>>
worldVars == <<vars, npc>>

NpcTags == Keys \union {Absent, Gone}
Kinds == {"sync", "npc"}
Count(kinds, kind) == Cardinality({i \in DOMAIN kinds : kinds[i] = kind})

WorldTypeOK ==
  /\ TypeOK
  /\ model \in Keys \union {Absent}
  /\ built \in [Threads -> Entry \union {Absent}]
  /\ shown \in [Players -> NpcTags]
  /\ tracks \in SUBSET Players
  /\ mail \in [Players -> Seq(NpcTags)]
  /\ order \in [Players -> Seq(Kinds)]
  /\ \A p \in Players : Count(order[p], "sync") = Len(inbox[p])
  /\ \A p \in Players : Count(order[p], "npc") = Len(mail[p])
  /\ npcWrites \in Nat
  /\ spoiled \in BOOLEAN

-----------------------------------------------------------------------------
(* The patch.                                                              *)

Usable(e) == e # Absent /\ ~Shape[e.def].disabled

(* updateModelCap in JVM j: the provider of model k, or the patch that was *)
(* there before.                                                           *)
PatchOf(j, k, old) ==
  IF Usable(ProviderFor(j, k)) THEN ProviderFor(j, k) ELSE old

(* The owner's patch is built anew, or gone, if rebuilt; or it is kept. *)
RememberSpoiled(rebuilt) == spoiled' = (tainted' \/ (spoiled /\ ~rebuilt))

-----------------------------------------------------------------------------
(* The connection.                                                         *)

Times(n, kind) == [i \in 1..n |-> kind]

(* The packets a step of the registry sends go behind what was sent before. *)
OrderSyncs ==
  order' = [p \in Players |->
              order[p] \o Times(Len(inbox'[p]) - Len(inbox[p]), "sync")]

(* Tag the NPC's state is sent to the players of a set. *)
Tell(players, tag) ==
  /\ mail' = [p \in Players |-> IF p \in players THEN Append(mail[p], tag)
                                ELSE mail[p]]
  /\ order' = [p \in Players |-> IF p \in players THEN Append(order[p], "npc")
                                 ELSE order[p]]

(* Mistake: the client reads the NPC's tags ahead of the registry packets. *)
InTurnNpcFirst(p, kind) ==
  order[p] # <<>> /\ (kind = "sync" => Count(order[p], "npc") = 0)

(* It is the turn of a message of this kind on the main thread of p. *)
InTurn(p, kind) == order[p] # <<>> /\ Head(order[p]) = kind

(* The oldest message of this kind leaves the queue. *)
Handled(p, kind) ==
  LET i == CHOOSE i \in DOMAIN order[p] :
             /\ order[p][i] = kind
             /\ \A j \in 1..(i - 1) : order[p][j] # kind
  IN order' = [order EXCEPT ![p] = SubSeq(@, 1, i - 1) \o SubSeq(@, i + 1, Len(@))]

-----------------------------------------------------------------------------
(* The server's NPC.  Scripts, loads and trackings run on the server       *)
(* thread, so never inside apply(); but they do run between a reload and   *)
(* its broadcast.                                                          *)

ServerWrites ==
  /\ up
  /\ thread[Server].pc \in {"idle", "applied"}
  /\ npcWrites < MaxNpcWrites
  /\ npcWrites' = npcWrites + 1
  /\ UNCHANGED <<vars, shown, spoiled>>

(* setEFModel by a script: assign, rebuild the patch, tell the clients. *)
SetModel(k) ==
  /\ ServerWrites
  /\ model' = k
  /\ built' = [built EXCEPT ![Server] = PatchOf(Server, k, @)]
  /\ Tell(tracks, k)
  /\ UNCHANGED tracks

(* The NPC is loaded (again): the new entity reads the model that was      *)
(* saved, and those who saw the old one lose it.                           *)
LoadNpc ==
  /\ ServerWrites
  /\ built' = [built EXCEPT ![Server] = PatchOf(Server, model, Absent)]
  /\ tracks' = {}
  /\ Tell(tracks, Gone)
  /\ UNCHANGED model

(* Mistake: a client that begins to see the NPC is not sent its model. *)
TrackSilently(p) ==
  /\ ServerWrites
  /\ p \in connected \ tracks
  /\ tracks' = tracks \union {p}
  /\ Tell({p}, Absent)
  /\ UNCHANGED <<model, built>>

Track(p) ==
  /\ ServerWrites
  /\ p \in connected \ tracks
  /\ tracks' = tracks \union {p}
  /\ Tell({p}, model)
  /\ UNCHANGED <<model, built>>

Untrack(p) ==
  /\ ServerWrites
  /\ p \in tracks
  /\ tracks' = tracks \ {p}
  /\ Tell({p}, Gone)
  /\ UNCHANGED <<model, built>>

(* A client's main thread reads a tag of the NPC: the first one creates    *)
(* its copy, one with a model rebuilds the patch from the client's own     *)
(* registry.                                                               *)
ReadNpc(p) ==
  LET tag == Head(mail[p]) IN
  /\ thread[p].pc = "idle"
  /\ mail[p] # <<>>
  /\ InTurn(p, "npc")
  /\ Handled(p, "npc")
  /\ mail' = [mail EXCEPT ![p] = Tail(@)]
  /\ shown' = [shown EXCEPT ![p] =
                 IF tag # Absent THEN tag ELSE IF @ = Gone THEN Absent ELSE @]
  /\ built' = [built EXCEPT ![p] =
                 IF tag = Gone THEN Absent
                 ELSE IF tag = Absent THEN @ ELSE PatchOf(JvmOf(p), tag, @)]
  /\ UNCHANGED <<vars, model, tracks, npcWrites>>
  /\ RememberSpoiled(/\ p = Owner /\ tag # Absent
                     /\ tag = Gone \/ Usable(ProviderFor(Server, tag)))

-----------------------------------------------------------------------------
(* The registry's steps, and what they do to the NPC.                      *)

(* Loading, broadcasting, logging in, and the loop of a client's thread    *)
(* leave the NPC and its copies alone: a patch in use keeps the provider   *)
(* it was built from.                                                      *)
ServerRegistryStep ==
  /\ \/ \E t \in Tags : StartApply(t)
     \/ ApplyStep
     \/ RaceStep
     \/ \E p \in Players : Join(p)
  /\ OrderSyncs
  /\ RememberSpoiled(FALSE)
  /\ UNCHANGED <<model, built, shown, tracks, mail, npcWrites>>

BeginSync(p) ==
  /\ InTurn(p, "sync")
  /\ BeginPacket(p)
  /\ Handled(p, "sync")
  /\ RememberSpoiled(FALSE)
  /\ UNCHANGED <<model, built, shown, tracks, mail, npcWrites>>

ClientRegistryStep(p) ==
  /\ \/ \E k \in Keys : ClientAdd(p, k) \/ ClientAddFails(p, k)
     \/ LateStore(p)
     \/ ClientPublish(p)
     \/ ClientRender(p)
     \/ ClientRenderFails(p)
  /\ RememberSpoiled(FALSE)
  /\ UNCHANGED <<model, built, shown, tracks, mail, order, npcWrites>>

(* Mistake: the NPC's tags outlive the world they were for. *)
LoseWorldNotMail(players) ==
  /\ shown' = [p \in Players |-> IF p \in players THEN Gone ELSE shown[p]]
  /\ tracks' = tracks \ players
  /\ UNCHANGED mail
  /\ order' = [p \in Players |-> IF p \in players THEN Times(Len(inbox'[p]), "sync")
                                 ELSE order[p]]

(* The players of a set lose their world, and the NPC's copy with it; only *)
(* registry packets that are queued already are still handled.             *)
LoseWorld(players) ==
  /\ shown' = [p \in Players |-> IF p \in players THEN Gone ELSE shown[p]]
  /\ tracks' = tracks \ players
  /\ mail' = [p \in Players |-> IF p \in players THEN <<>> ELSE mail[p]]
  /\ order' = [p \in Players |-> IF p \in players THEN Times(Len(inbox'[p]), "sync")
                                 ELSE order[p]]

LeaveWorld(p) ==
  /\ Leave(p)
  /\ LoseWorld({p})
  /\ built' = [built EXCEPT ![p] = Absent]
  /\ UNCHANGED <<model, npcWrites, spoiled>>

RestartGuest(p) ==
  /\ RestartClient(p)
  /\ LoseWorld({p})
  /\ UNCHANGED <<model, built, npcWrites, spoiled>>

(* A guest in a world of its own does not see the NPC. *)
OwnWorld(g) == OwnWorldStep(g) /\ UNCHANGED npc

(* The NPC is saved with its model and unloaded. *)
StopWorld ==
  /\ StopServer
  /\ LoseWorld({Owner})
  /\ built' = [t \in Threads |-> IF t \in {Server, Owner} THEN Absent ELSE built[t]]
  /\ RememberSpoiled(TRUE)
  /\ UNCHANGED <<model, npcWrites>>

-----------------------------------------------------------------------------
WorldInit ==
  /\ Init
  /\ model = Absent
  /\ built = [t \in Threads |-> Absent]
  /\ shown = [p \in Players |-> Gone]
  /\ tracks = {}
  /\ mail = [p \in Players |-> <<>>]
  /\ order = [p \in Players |-> <<>>]
  /\ npcWrites = 0
  /\ spoiled = FALSE

MainThread(p) == BeginSync(p) \/ ClientRegistryStep(p) \/ ReadNpc(p)

WorldNext ==
  \/ ServerRegistryStep
  \/ \E k \in Keys : SetModel(k)
  \/ LoadNpc
  \/ \E p \in Players :
       Track(p) \/ Untrack(p) \/ MainThread(p) \/ LeaveWorld(p) \/ RestartGuest(p)
  \/ \E g \in Guests : OwnWorld(g)
  \/ StopWorld

WorldSpec == WorldInit /\ [][WorldNext]_worldVars

(* The server thread finishes the loop it is in, and every client runs     *)
(* what is queued on its main thread.  Nobody has to log in, to reload or  *)
(* to write.                                                               *)
FairWorldSpec ==
  /\ WorldSpec
  /\ WF_worldVars(ApplyStep /\ ServerRegistryStep)
  /\ \A p \in Players : WF_worldVars(MainThread(p))

-----------------------------------------------------------------------------
(* Properties.                                                             *)

(* The current registry, not spoiled by the owner's client, makes a patch  *)
(* for the NPC's model, on the server and on any client, and the server's  *)
(* NPC has it.                                                             *)
ServerUpToDate ==
  /\ ServerSettled /\ ~tainted
  /\ model # Absent
  /\ tagmap[model] # Absent
  /\ Usable(ProviderFor(Server, model))
  /\ built[Server] = ProviderFor(Server, model)

(* A guest that was only ever sent the server's current content, and has   *)
(* handled all it was sent, fights with the patch the server's NPC has:    *)
(* the one content reached it before any tag of the NPC, even if reloads,  *)
(* logins and scripts fell between a reload and its broadcast.  Excluded:  *)
(* a model that a world of the guest's own has left a provider for.        *)
GuestFightsLikeServer ==
  \A g \in Guests \intersect tracks :
    /\ heard[g] = {tagmap}
    /\ ClientSafe(tagmap)
    /\ model \notin OwnKeys(g)
    /\ thread[g].pc = "idle"
    /\ order[g] = <<>>
    /\ ServerUpToDate
    => /\ shown[g] = model
       /\ built[g] # Absent
       /\ built[g].key = built[Server].key
       /\ built[g].def = built[Server].def

(* The owner's client has no lock against the server thread: it may build  *)
(* a patch from a provider whose renderer is yet to be registered, or one  *)
(* that the two threads raced for.                                         *)
Settled(j) ==
  /\ \A t \in Threads :
       JvmOf(t) = j => thread[t].pc \notin {"publish", "announce", "render"}
  /\ j = Server => ~spoiled

(* An NPC that is drawn with the patch of the model it shows has the       *)
(* renderer that patch's content names, also when reloads have replaced    *)
(* the provider since: MixinRenderEngine asks renderersMap unchecked.      *)
(* After a reload that the owner's client wrote into, this holds again     *)
(* once another reload has run and the patch was built anew.  Excluded is  *)
(* content on which filterClientData throws.                               *)
DrawnNpcHasRenderer ==
  \A p \in Players :
    /\ Settled(JvmOf(p))
    /\ shown[p] \in Keys
    /\ built[p] # Absent
    /\ built[p].key = shown[p]
    /\ Shape[built[p].def].filters
    /\ Shape[built[p].def].renderer = "valid"
    => renderers[JvmOf(p)][shown[p]] # Absent

(* Contents in which model k has a patch, and which any client can handle. *)
GoodFor(k) ==
  {tags \in Tags : /\ ClientSafe(tags)
                   /\ tags[k] \in {d \in Defs : ~Shape[d].disabled}}

(* A guest sees the NPC right in the end: if its game has heard no other   *)
(* content than the server's, the NPC's model has a usable patch there,    *)
(* unless the guest, the NPC or the content goes away first; or a world of *)
(* the guest's own has left a provider for the model that makes no patch.  *)
GuestSeesNpc ==
  \A g \in Guests : \A k \in Keys : \A tags \in GoodFor(k) :
    LET current ==
          /\ g \in tracks /\ model = k /\ tagmap = tags /\ heard[g] \subseteq {tags}
          /\ k \in OwnKeys(g) => Usable(Resolve(providers[g], k))
    IN (ServerSettled /\ current)
       ~> (~current \/ (shown[g] = k /\ built[g] # Absent /\ built[g].key = k))

===============================================================================
