--------------------------- MODULE NpcPatchRegistry ---------------------------
(***************************************************************************)
(* The NPC patch registry of the addon: the static tables that             *)
(* NpcPatchReloadListener and RenderStorage keep in every JVM, how a       *)
(* datapack (re)load rebuilds the server's tables, how SPDatapackSync      *)
(* carries them to the clients, and how NpcBranchPatchProvider looks a     *)
(* model up.                                                               *)
(*                                                                         *)
(* A dedicated server has a JVM of its own (Owner = NoOwner).  In a        *)
(* singleplayer or LAN world the owner's client runs in the server's JVM,  *)
(* so its main thread and the server thread write the same static tables.  *)
(* A guest, too, may play a world of its own before it joins: apply() runs *)
(* in its JVM then, and leaves its tables behind.                          *)
(*                                                                         *)
(* Granularity: a thread takes one step per access to a table that another *)
(* thread of its JVM may touch.  Order of a HashMap is not specified, so   *)
(* the loops take their entries in any order.                              *)
(***************************************************************************)
EXTENDS Naturals, Sequences, FiniteSets

CONSTANTS
  Keys,        \* resource locations a patch file may have
  Defs,        \* contents a patch file may have
  OwnDefs,     \* bound: contents of the files in the guests' own worlds
  Shape,       \* what the code's branches see of a content (DefShape below)
  Absent,      \* no file, no entry
  Players,     \* players that may be online
  Owner,       \* the singleplayer owner, or NoOwner on a dedicated server
  NoOwner,
  Server,      \* the server thread, and the JVM it runs in
  MaxReloads,  \* bound: starts of apply() in a behaviour
  MaxJoins     \* bound: logins in a behaviour, to own worlds too

(* disabled: the "disabled" flag.  loads: the physical sides on which      *)
(* parsing and deserializeMobPatchProvider succeed; a client also needs    *)
(* the mesh.  filters: filterClientData finds what it copies and does not  *)
(* throw.  renderer: registerRenderer's three cases, "" / known / else.    *)
DefShape == [disabled : BOOLEAN,
             loads    : SUBSET {"server", "client"},
             filters  : BOOLEAN,
             renderer : {"none", "valid", "invalid"}]

Entry == [key : Keys, def : Defs, full : BOOLEAN]

ASSUME ShapeAssumption == Shape \in [Defs -> DefShape]
ASSUME OwnDefsAssumption == OwnDefs \subseteq Defs
ASSUME AbsentAssumption == Absent \notin Defs /\ Absent \notin Entry
ASSUME ThreadsAssumption ==
  /\ Server \notin Players
  /\ NoOwner \notin Players
  /\ Owner \in Players \union {NoOwner}
ASSUME BoundsAssumption == MaxReloads \in Nat /\ MaxJoins \in Nat

Guests == Players \ {Owner}
Jvms == {Server} \union Guests
Threads == {Server} \union Players

(* The JVM a thread runs in, and EpicFightSharedConstants.isPhysicalClient *)
JvmOf(t) == IF t = Owner THEN Server ELSE t
Side(j) == IF j = Server /\ Owner = NoOwner THEN "server" ELSE "client"

(* The entries of a datapack, of TAGMAP or of a packet. *)
Tags == [Keys -> Defs \union {Absent}]
NoTags == [k \in Keys |-> Absent]
Present(tags) == {k \in Keys : tags[k] # Absent}

Loads(d, j) == Side(j) \in Shape[d].loads

VARIABLES
  providers,   \* [Jvms -> Seq(Entry)]: branchPatchProvider.providers
  avail,       \* [Jvms -> SUBSET Keys]: AVAILABLE_MODELS
  hooked,      \* [Jvms -> BOOLEAN]: putCustomEntityPatch was called
  renderers,   \* [Jvms -> Tags]: renderersMap, by the content it came from
  tagmap,      \* the server's TAGMAP
  up,          \* the server has finished starting
  thread,      \* [Threads -> [pc, todo, cur]]: the loop of each thread
  seen,        \* [Threads -> [object, list]]: the providers that a stalled
               \* add has read, and of which branchPatchProvider
  connected,   \* players that are logged in
  inbox,       \* [Players -> Seq(Tags)]: packets sent and not yet handled
  reloads,     \* counts the starts of apply(), up to MaxReloads
  joins,       \* counts the logins, up to MaxJoins
  tainted,     \* history: since apply() last started, the owner's client
               \* thread wrote a table while apply() was running
  failed,      \* history: the last apply() was cut short by an exception
  heard        \* history: the distinct packets a guest has started to handle
               \* since its lists were last emptied

tables == <<providers, avail, hooked, renderers>>
vars == <<tables, tagmap, up, thread, seen, connected, inbox,
          reloads, joins, tainted, failed, heard>>

Pcs == {"idle", "reset", "add", "store", "publish", "announce", "render",
        "applied", "home"}
Idle == [pc |-> "idle", todo |-> NoTags, cur |-> Absent]
NotSeen == [object |-> 0, list |-> <<>>]

TypeOK ==
  /\ providers \in [Jvms -> Seq(Entry)]
  /\ avail \in [Jvms -> SUBSET Keys]
  /\ hooked \in [Jvms -> BOOLEAN]
  /\ renderers \in [Jvms -> Tags]
  /\ tagmap \in Tags
  /\ up \in BOOLEAN
  /\ thread \in [Threads -> [pc : Pcs, todo : Tags, cur : Keys \union {Absent}]]
  /\ seen \in [Threads -> [object : Nat, list : Seq(Entry)]]
  /\ connected \in SUBSET Players
  /\ inbox \in [Players -> Seq(Tags)]
  /\ reloads \in Nat
  /\ joins \in Nat
  /\ tainted \in BOOLEAN
  /\ failed \in BOOLEAN
  /\ heard \in [Players -> SUBSET Tags]

-----------------------------------------------------------------------------
(* Looking a model up.                                                     *)

Matches(list, k) == {i \in DOMAIN list : list[i].key = k}
FirstMatches(list, k) ==
  {i \in Matches(list, k) : \A j \in Matches(list, k) : i <= j}

(* Mistake: the last entry wins. *)
ResolveLast(list, k) ==
  IF Matches(list, k) = {}
  THEN Absent
  ELSE list[CHOOSE i \in Matches(list, k) : \A j \in Matches(list, k) : j <= i]

(* NpcBranchPatchProvider.get for an NPC whose model is k: the first entry *)
(* added under k, or the default provider (Absent).                        *)
Resolve(list, k) ==
  IF Matches(list, k) = {}
  THEN Absent
  ELSE list[CHOOSE i \in FirstMatches(list, k) : TRUE]

(* The provider a new patch of an NPC with model k is built from in JVM j. *)
ProviderFor(j, k) == IF hooked[j] THEN Resolve(providers[j], k) ELSE Absent

KeysOf(list) == {list[i].key : i \in DOMAIN list}

-----------------------------------------------------------------------------
(* Pieces of the two loops.                                                *)

(* Thread t at a step of the loop body, for entry k. *)
At(t, step, k) == [pc |-> step, todo |-> thread[t].todo, cur |-> k]

(* What is left of a loop over todo when entry k is done. *)
Rest(t, k) == [thread[t].todo EXCEPT ![k] = Absent]

(* The thread goes on with its next entry, or leaves the loop at pc "end". *)
Continue(t, k, end) ==
  [pc   |-> IF Present(Rest(t, k)) = {} THEN end ELSE "add",
   todo |-> Rest(t, k),
   cur  |-> Absent]

(* Mistake: the map of renderers is created anew for each entry. *)
RenderersFresh(j, k, d) ==
  IF Shape[d].renderer = "valid"
  THEN [renderers EXCEPT ![j] = [NoTags EXCEPT ![k] = d]]
  ELSE renderers

(* RenderStorage.registerRenderer, the case that throws excepted. *)
RenderersWith(j, k, d) ==
  IF Shape[d].renderer = "valid"
  THEN [renderers EXCEPT ![j] = [@ EXCEPT ![k] = d]]
  ELSE renderers

(* A write of thread t while apply() runs in the same JVM spoils the       *)
(* history variable tainted.                                               *)
Applying ==
  thread[Server].pc \in {"reset", "add", "store", "publish", "announce", "render"}
Taint(t) == tainted' = (tainted \/ (t = Owner /\ Applying))

-----------------------------------------------------------------------------
(* The server thread: NpcPatchReloadListener.apply.                        *)

(* Mistake: the reload adds to the provider object of the one before. *)
StartApplyOnOld(t) ==
  /\ thread[Server].pc = "idle"
  /\ reloads < MaxReloads
  /\ reloads' = reloads + 1
  /\ thread' = [thread EXCEPT ![Server] =
                  [pc |-> "reset", todo |-> t, cur |-> Absent]]
  /\ tainted' = FALSE
  /\ failed' = FALSE
  /\ UNCHANGED <<tables, tagmap, up, connected, inbox, joins, heard, seen>>

(* apply() on the files t: branchPatchProvider is a new, empty object. It  *)
(* runs once before the server is up, and again on each /reload.           *)
StartApply(t) ==
  /\ thread[Server].pc = "idle"
  /\ reloads < MaxReloads
  /\ reloads' = reloads + 1
  /\ providers' = [providers EXCEPT ![Server] = <<>>]
  /\ thread' = [thread EXCEPT ![Server] =
                  [pc |-> "reset", todo |-> t, cur |-> Absent]]
  /\ tainted' = FALSE
  /\ failed' = FALSE
  /\ UNCHANGED <<avail, hooked, renderers, tagmap, up, connected, inbox,
                 joins, heard, seen>>

(* Leaving the loop: a start is complete, a reload has its broadcast left. *)
ApplyEnd == IF up THEN "applied" ELSE "idle"

(* Mistake: AVAILABLE_MODELS survives a reload. *)
ResetTablesNotAvail ==
  LET over == Present(thread[Server].todo) = {}
  IN /\ thread[Server].pc = "reset"
     /\ tagmap' = NoTags
     /\ thread' = [thread EXCEPT ![Server] =
                     At(Server, IF over THEN ApplyEnd ELSE "add", Absent)]
     /\ up' = (up \/ over)
     /\ UNCHANGED <<tables, connected, inbox, reloads, joins, tainted, failed,
                    heard, seen>>

(* AVAILABLE_MODELS and TAGMAP are new and empty; the loop begins. *)
ResetTables ==
  LET todo == thread[Server].todo
      over == Present(todo) = {}
  IN /\ thread[Server].pc = "reset"
     /\ avail' = [avail EXCEPT ![Server] = {}]
     /\ tagmap' = NoTags
     /\ thread' = [thread EXCEPT ![Server] =
                     At(Server, IF over THEN ApplyEnd ELSE "add", Absent)]
     /\ up' = (up \/ over)
     /\ UNCHANGED <<providers, hooked, renderers, connected, inbox, reloads,
                    joins, tainted, failed, heard, seen>>

(* An exception leaves apply(): the entries already handled stay, nothing  *)
(* is broadcast, and a server that was starting does not come up.          *)
AbortApply ==
  /\ thread' = [thread EXCEPT ![Server] = Idle]
  /\ failed' = TRUE
  /\ UNCHANGED <<tagmap, up, connected, inbox, reloads, joins, tainted, heard,
                 seen>>

(* Parse and deserialize entry k, then addProvider. *)
ApplyAdd(k) ==
  LET d == thread[Server].todo[k] IN
  /\ thread[Server].pc = "add"
  /\ d # Absent
  /\ Loads(d, Server)
  /\ providers' = [providers EXCEPT ![Server] =
                     Append(@, [key |-> k, def |-> d, full |-> TRUE])]
  /\ thread' = [thread EXCEPT ![Server] = At(Server, "publish", k)]
  /\ UNCHANGED <<avail, hooked, renderers, tagmap, up, connected, inbox,
                 reloads, joins, tainted, failed, heard, seen>>

(* Entry k does not parse (tag stays null) or deserializing it throws. *)
ApplyAddFails(k) ==
  /\ thread[Server].pc = "add"
  /\ thread[Server].todo[k] # Absent
  /\ ~Loads(thread[Server].todo[k], Server)
  /\ AbortApply
  /\ UNCHANGED tables

(* AVAILABLE_MODELS.add. *)
ApplyPublish ==
  LET k == thread[Server].cur IN
  /\ thread[Server].pc = "publish"
  /\ avail' = [avail EXCEPT ![Server] = @ \union {k}]
  /\ thread' = [thread EXCEPT ![Server] = At(Server, "announce", k)]
  /\ UNCHANGED <<providers, hooked, renderers, tagmap, up, connected, inbox,
                 reloads, joins, tainted, failed, heard, seen>>

(* TAGMAP.put of the filtered tag and putCustomEntityPatch; a dedicated    *)
(* server is then done with the entry.                                     *)
ApplyAnnounce ==
  LET k == thread[Server].cur
      d == thread[Server].todo[k]
      dedicated == Side(Server) = "server"
      over == dedicated /\ Present(Rest(Server, k)) = {}
  IN /\ thread[Server].pc = "announce"
     /\ Shape[d].filters
     /\ tagmap' = [tagmap EXCEPT ![k] = d]
     /\ hooked' = [hooked EXCEPT ![Server] = TRUE]
     /\ thread' = [thread EXCEPT ![Server] =
                     IF dedicated THEN Continue(Server, k, ApplyEnd)
                     ELSE At(Server, "render", k)]
     /\ up' = (up \/ over)
     /\ UNCHANGED <<providers, avail, renderers, connected, inbox, reloads,
                    joins, tainted, failed, heard, seen>>

(* filterClientData throws on the content that addProvider has just been   *)
(* given: the model stays, and is not announced.                           *)
ApplyAnnounceFails ==
  /\ thread[Server].pc = "announce"
  /\ ~Shape[thread[Server].todo[thread[Server].cur]].filters
  /\ AbortApply
  /\ UNCHANGED tables

(* Mistake: no renderer is registered by apply(). *)
ApplyRenderNothing ==
  LET k == thread[Server].cur
  IN /\ thread[Server].pc = "render"
     /\ thread' = [thread EXCEPT ![Server] = Continue(Server, k, ApplyEnd)]
     /\ up' = (up \/ Present(Rest(Server, k)) = {})
     /\ UNCHANGED <<tables, tagmap, connected, inbox, reloads, joins, tainted,
                    failed, heard, seen>>

(* On a physical client the renderer is registered, disabled entry or not. *)
ApplyRender ==
  LET k == thread[Server].cur
      d == thread[Server].todo[k]
  IN /\ thread[Server].pc = "render"
     /\ Shape[d].renderer # "invalid"
     /\ renderers' = RenderersWith(Server, k, d)
     /\ thread' = [thread EXCEPT ![Server] = Continue(Server, k, ApplyEnd)]
     /\ up' = (up \/ Present(Rest(Server, k)) = {})
     /\ UNCHANGED <<providers, avail, hooked, tagmap, connected, inbox,
                    reloads, joins, tainted, failed, heard, seen>>

ApplyRenderFails ==
  LET d == thread[Server].todo[thread[Server].cur] IN
  /\ thread[Server].pc = "render"
  /\ Shape[d].renderer = "invalid"
  /\ AbortApply
  /\ UNCHANGED tables

-----------------------------------------------------------------------------
(* The server thread: CNPCEpicFightAddon.onDatapackSync.                   *)

(* Mistake: an empty TAGMAP is sent as no map at all. *)
SendNull(receivers) ==
  LET tags == IF Present(tagmap) = {} THEN Absent ELSE tagmap
  IN inbox' = [p \in Players |-> IF p \in receivers THEN Append(inbox[p], tags)
                                 ELSE inbox[p]]

Send(receivers) ==
  inbox' = [p \in Players |-> IF p \in receivers THEN Append(inbox[p], tagmap)
                              ELSE inbox[p]]

(* A completed reload is followed by the event without a player: everyone  *)
(* gets the packet, the owner too.                                         *)
BroadcastSync ==
  /\ thread[Server].pc = "applied"
  /\ Send(connected)
  /\ thread' = [thread EXCEPT ![Server] = Idle]
  /\ UNCHANGED <<tables, tagmap, up, connected, reloads, joins, tainted,
                 failed, heard, seen>>

(* Mistake: the owner is sent the packet, and the others are not. *)
JoinOwnerOnly(p) ==
  /\ up
  /\ thread[Server].pc \in {"idle", "applied"}
  /\ p \notin connected
  /\ thread[p].pc # "home"
  /\ joins < MaxJoins
  /\ joins' = joins + 1
  /\ connected' = connected \union {p}
  /\ Send({p} \intersect {Owner})
  /\ UNCHANGED <<tables, tagmap, up, thread, reloads, tainted, failed, heard, seen>>

(* A login raises the event with the player: the owner is sent nothing.    *)
(* Logins are handled between reloads, and before a reload's broadcast.    *)
Join(p) ==
  /\ up
  /\ thread[Server].pc \in {"idle", "applied"}
  /\ p \notin connected
  /\ thread[p].pc # "home"
  /\ joins < MaxJoins
  /\ joins' = joins + 1
  /\ connected' = connected \union {p}
  /\ Send({p} \ {Owner})
  /\ UNCHANGED <<tables, tagmap, up, thread, reloads, tainted, failed, heard, seen>>

-----------------------------------------------------------------------------
(* A client's main thread: NpcPatchReloadListener.processServerPacket, run *)
(* by enqueueWork for each packet in the order of arrival.                 *)

BeginPacket(p) ==
  LET tags == Head(inbox[p]) IN
  /\ thread[p].pc = "idle"
  /\ inbox[p] # <<>>
  /\ inbox' = [inbox EXCEPT ![p] = Tail(@)]
  /\ thread' = [thread EXCEPT ![p] =
                  IF Present(tags) = {} THEN Idle
                  ELSE [pc |-> "add", todo |-> tags, cur |-> Absent]]
  /\ heard' = [heard EXCEPT ![p] = IF p \in Guests THEN @ \union {tags} ELSE {}]
  /\ UNCHANGED <<tables, tagmap, up, connected, reloads, joins, tainted,
                 failed, seen>>

(* Deserialize the filtered tag, then addProvider to the existing object. *)
ClientAdd(p, k) ==
  LET d == thread[p].todo[k]
      j == JvmOf(p)
  IN /\ thread[p].pc = "add"
     /\ d # Absent
     /\ Loads(d, j)
     /\ providers' = [providers EXCEPT ![j] =
                        Append(@, [key |-> k, def |-> d, full |-> FALSE])]
     /\ thread' = [thread EXCEPT ![p] = At(p, "publish", k)]
     /\ Taint(p)
     /\ UNCHANGED <<avail, hooked, renderers, tagmap, up, connected, inbox,
                    reloads, joins, failed, heard, seen>>

(* An exception in the queued task drops the rest of the packet. *)
ClientAddFails(p, k) ==
  /\ thread[p].pc = "add"
  /\ thread[p].todo[k] # Absent
  /\ ~Loads(thread[p].todo[k], JvmOf(p))
  /\ thread' = [thread EXCEPT ![p] = Idle]
  /\ UNCHANGED <<tables, tagmap, up, connected, inbox, reloads, joins,
                 tainted, failed, heard, seen>>

(* Mistake: a disabled entry ends the loop, where it should end its turn. *)
AfterPublishReturns(p) ==
  LET k == thread[p].cur IN
  IF Shape[thread[p].todo[k]].disabled THEN Idle ELSE At(p, "render", k)

(* A disabled entry is done when it is published; any other still has its  *)
(* renderer to register.                                                   *)
AfterPublish(p) ==
  LET k == thread[p].cur IN
  IF Shape[thread[p].todo[k]].disabled THEN Continue(p, k, "idle")
  ELSE At(p, "render", k)

(* Mistake: a client does not offer what a packet brings in its editor. *)
ClientPublishHidden(p) ==
  /\ thread[p].pc = "publish"
  /\ hooked' = [hooked EXCEPT ![JvmOf(p)] = TRUE]
  /\ thread' = [thread EXCEPT ![p] = AfterPublish(p)]
  /\ Taint(p)
  /\ UNCHANGED <<providers, avail, renderers, tagmap, up, connected, inbox,
                 reloads, joins, failed, heard, seen>>

(* AVAILABLE_MODELS.add and putCustomEntityPatch. *)
ClientPublish(p) ==
  LET k == thread[p].cur
      j == JvmOf(p)
  IN /\ thread[p].pc = "publish"
     /\ avail' = [avail EXCEPT ![j] = @ \union {k}]
     /\ hooked' = [hooked EXCEPT ![j] = TRUE]
     /\ thread' = [thread EXCEPT ![p] = AfterPublish(p)]
     /\ Taint(p)
     /\ UNCHANGED <<providers, renderers, tagmap, up, connected, inbox,
                    reloads, joins, failed, heard, seen>>

ClientRender(p) ==
  LET k == thread[p].cur
      d == thread[p].todo[k]
  IN /\ thread[p].pc = "render"
     /\ Shape[d].renderer # "invalid"
     /\ renderers' = RenderersWith(JvmOf(p), k, d)
     /\ thread' = [thread EXCEPT ![p] = Continue(p, k, "idle")]
     /\ Taint(p)
     /\ UNCHANGED <<providers, avail, hooked, tagmap, up, connected, inbox,
                    reloads, joins, failed, heard, seen>>

ClientRenderFails(p) ==
  /\ thread[p].pc = "render"
  /\ Shape[thread[p].todo[thread[p].cur]].renderer = "invalid"
  /\ thread' = [thread EXCEPT ![p] = Idle]
  /\ UNCHANGED <<tables, tagmap, up, connected, inbox, reloads, joins,
                 tainted, failed, heard, seen>>

-----------------------------------------------------------------------------
(* The owner's client and the server thread share unsynchronized           *)
(* collections.  When both write a set or a map, the two writes may        *)
(* collide and either of them is lost.  When one is in ArrayList.add, the  *)
(* other may add any number of elements before it goes on.                 *)

(* addProvider has read the size of the list and its array.                *)
Stall(t, k) ==
  LET d == thread[t].todo[k] IN
  /\ Owner \in Players
  /\ thread[t].pc = "add"
  /\ d # Absent
  /\ Loads(d, Server)
  /\ seen' = [seen EXCEPT ![t] = [object |-> reloads, list |-> providers[Server]]]
  /\ thread' = [thread EXCEPT ![t] = At(t, "store", k)]
  /\ Taint(t)
  /\ UNCHANGED <<tables, tagmap, up, connected, inbox, reloads, joins, failed,
                 heard>>

(* What a list becomes when e is stored behind the n elements read, and    *)
(* its size set to n + 1: elements added since are cut off, and the one in *)
(* e's place may be there still if the array was replaced by a larger one; *)
(* elements that another stalled add cut off come back.                    *)
Stored(list, read, e) ==
  LET n == Len(read) IN
  IF Len(list) <= n
  THEN {list \o SubSeq(read, Len(list) + 1, n) \o <<e>>}
  ELSE {Append(SubSeq(list, 1, n), x) : x \in {e, list[n + 1]}}

(* Mistake: the object that a reload has replaced is written still. *)
LateStoreInto(t) ==
  LET k == thread[t].cur
      e == [key |-> k, def |-> thread[t].todo[k], full |-> t = Server]
  IN /\ thread[t].pc = "store"
     /\ \E list \in Stored(providers[Server], seen[t].list, e) :
          providers' = [providers EXCEPT ![Server] = list]
     /\ seen' = [seen EXCEPT ![t] = NotSeen]
     /\ thread' = [thread EXCEPT ![t] = At(t, "publish", k)]
     /\ Taint(t)
     /\ UNCHANGED <<avail, hooked, renderers, tagmap, up, connected, inbox,
                    reloads, joins, failed, heard>>

(* The add goes on; into the object it was called on, which a reload may   *)
(* have replaced.                                                          *)
LateStore(t) ==
  LET k == thread[t].cur
      e == [key |-> k, def |-> thread[t].todo[k], full |-> t = Server]
  IN /\ thread[t].pc = "store"
     /\ IF seen[t].object = reloads
        THEN \E list \in Stored(providers[Server], seen[t].list, e) :
               providers' = [providers EXCEPT ![Server] = list]
        ELSE UNCHANGED providers
     /\ seen' = [seen EXCEPT ![t] = NotSeen]
     /\ thread' = [thread EXCEPT ![t] = At(t, "publish", k)]
     /\ Taint(t)
     /\ UNCHANGED <<avail, hooked, renderers, tagmap, up, connected, inbox,
                    reloads, joins, failed, heard>>

BothAt(pc) ==
  /\ Owner \in Players
  /\ thread[Server].pc = pc
  /\ thread[Owner].pc = pc

(* HashSet.add twice into one bucket: one element is lost. *)
RacePublish ==
  LET k == thread[Server].cur
      l == thread[Owner].cur
  IN /\ BothAt("publish")
     /\ k # l
     /\ \E kept \in {k, l} :
          avail' = [avail EXCEPT ![Server] = @ \union {kept}]
     /\ hooked' = [hooked EXCEPT ![Server] = TRUE]
     /\ thread' = [thread EXCEPT ![Server] = At(Server, "announce", k),
                                 ![Owner] = AfterPublish(Owner)]
     /\ tainted' = TRUE
     /\ UNCHANGED <<providers, renderers, tagmap, up, connected, inbox, reloads,
                    joins, failed, heard, seen>>

(* HashMap.put twice into one bucket: one mapping is lost. *)
RaceRender ==
  LET k == thread[Server].cur
      l == thread[Owner].cur
      d == thread[Server].todo[k]
      e == thread[Owner].todo[l]
  IN /\ BothAt("render")
     /\ Shape[d].renderer = "valid"
     /\ Shape[e].renderer = "valid"
     /\ k # l
     /\ renderers' \in {RenderersWith(Server, k, d), RenderersWith(Server, l, e)}
     /\ thread' = [thread EXCEPT ![Server] = Continue(Server, k, ApplyEnd),
                                 ![Owner] = Continue(Owner, l, "idle")]
     /\ up' = (up \/ Present(Rest(Server, k)) = {})
     /\ tainted' = TRUE
     /\ UNCHANGED <<providers, avail, hooked, tagmap, connected, inbox,
                    reloads, joins, failed, heard, seen>>

-----------------------------------------------------------------------------
(* Connections and processes.                                              *)

(* A guest leaves or is dropped: packets still on the wire are lost, tasks *)
(* already queued on its main thread are not.                              *)
Leave(p) ==
  /\ p \in connected \ {Owner}
  /\ connected' = connected \ {p}
  /\ \E n \in 0..Len(inbox[p]) :
       inbox' = [inbox EXCEPT ![p] = SubSeq(@, 1, n)]
  /\ UNCHANGED <<tables, tagmap, up, thread, reloads, joins, tainted, failed,
                 heard, seen>>

(* A guest that is not connected plays a world of its own: apply() runs in *)
(* its JVM.  Nobody else uses its tables then, and an entry is one step.   *)
(* What the packets of that world add is behind what its files have added. *)
OwnWorldStarts(g) ==
  /\ g \in Guests \ connected
  /\ thread[g].pc = "idle" /\ inbox[g] = <<>>
  /\ joins < MaxJoins
  /\ joins' = joins + 1
  /\ providers' = [providers EXCEPT ![g] = <<>>]
  /\ avail' = [avail EXCEPT ![g] = {}]
  /\ heard' = [heard EXCEPT ![g] = {}]
  /\ thread' = [thread EXCEPT ![g] = [Idle EXCEPT !.pc = "home"]]
  /\ UNCHANGED <<hooked, renderers, tagmap, up, connected, inbox, reloads,
                 tainted, failed, seen>>

(* An entry k with content d: the whole body of apply()'s loop.  An        *)
(* exception of filterClientData or registerRenderer leaves the loop.      *)
OwnWorldLoads(g, k, d) ==
  LET s == Shape[d] IN
  /\ g \in Guests
  /\ thread[g].pc = "home"
  /\ k \notin KeysOf(providers[g])
  /\ Loads(d, g)
  /\ providers' = [providers EXCEPT ![g] =
                     Append(@, [key |-> k, def |-> d, full |-> TRUE])]
  /\ avail' = [avail EXCEPT ![g] = @ \union {k}]
  /\ hooked' = [hooked EXCEPT ![g] = @ \/ s.filters]
  /\ renderers' = IF s.filters THEN RenderersWith(g, k, d) ELSE renderers
  /\ thread' = IF s.filters /\ s.renderer # "invalid" THEN thread
               ELSE [thread EXCEPT ![g] = Idle]
  /\ UNCHANGED <<tagmap, up, connected, inbox, reloads, joins, tainted, failed,
                 heard, seen>>

(* The world is left, or what is next in its files does not load. *)
OwnWorldEnds(g) ==
  /\ g \in Guests
  /\ thread[g].pc = "home"
  /\ thread' = [thread EXCEPT ![g] = Idle]
  /\ UNCHANGED <<tables, tagmap, up, connected, inbox, reloads, joins, tainted,
                 failed, heard, seen>>

(* A guest's game is closed or crashes: its static tables start over. *)
RestartClient(p) ==
  /\ p \in Guests \ connected
  /\ providers' = [providers EXCEPT ![p] = <<>>]
  /\ avail' = [avail EXCEPT ![p] = {}]
  /\ hooked' = [hooked EXCEPT ![p] = FALSE]
  /\ renderers' = [renderers EXCEPT ![p] = NoTags]
  /\ thread' = [thread EXCEPT ![p] = Idle]
  /\ inbox' = [inbox EXCEPT ![p] = <<>>]
  /\ heard' = [heard EXCEPT ![p] = {}]
  /\ UNCHANGED <<tagmap, up, connected, reloads, joins, tainted, failed, seen>>

(* The server stops once the guests are gone.  The JVM of a dedicated      *)
(* server ends; that of a singleplayer world keeps its tables.             *)
StopServer ==
  /\ up
  /\ thread[Server].pc = "idle"
  /\ connected \subseteq {Owner}
  /\ up' = FALSE
  /\ connected' = {}
  /\ IF Owner = NoOwner
     THEN /\ providers' = [providers EXCEPT ![Server] = <<>>]
          /\ avail' = [avail EXCEPT ![Server] = {}]
          /\ hooked' = [hooked EXCEPT ![Server] = FALSE]
          /\ tagmap' = NoTags
          /\ UNCHANGED <<renderers, inbox>>
     ELSE /\ \E n \in 0..Len(inbox[Owner]) :
               inbox' = [inbox EXCEPT ![Owner] = SubSeq(@, 1, n)]
          /\ UNCHANGED <<tables, tagmap>>
  /\ UNCHANGED <<thread, reloads, joins, tainted, failed, heard, seen>>

-----------------------------------------------------------------------------
Init ==
  /\ providers = [j \in Jvms |-> <<>>]
  /\ avail = [j \in Jvms |-> {}]
  /\ hooked = [j \in Jvms |-> FALSE]
  /\ renderers = [j \in Jvms |-> NoTags]
  /\ tagmap = NoTags
  /\ up = FALSE
  /\ thread = [t \in Threads |-> Idle]
  /\ seen = [t \in Threads |-> NotSeen]
  /\ connected = {}
  /\ inbox = [p \in Players |-> <<>>]
  /\ reloads = 0
  /\ joins = 0
  /\ tainted = FALSE
  /\ failed = FALSE
  /\ heard = [p \in Players |-> {}]

ApplyStep ==
  \/ ResetTables
  \/ \E k \in Keys : ApplyAdd(k) \/ ApplyAddFails(k)
  \/ LateStore(Server)
  \/ ApplyPublish
  \/ ApplyAnnounce
  \/ ApplyAnnounceFails
  \/ ApplyRender
  \/ ApplyRenderFails
  \/ BroadcastSync

ClientStep(p) ==
  \/ BeginPacket(p)
  \/ \E k \in Keys : ClientAdd(p, k) \/ ClientAddFails(p, k)
  \/ LateStore(p)
  \/ ClientPublish(p)
  \/ ClientRender(p)
  \/ ClientRenderFails(p)

RaceStep ==
  \/ \E t \in {Server, Owner}, k \in Keys : Stall(t, k)
  \/ RacePublish
  \/ RaceRender

OwnWorldStep(g) ==
  \/ OwnWorldStarts(g)
  \/ \E k \in Keys, d \in OwnDefs : OwnWorldLoads(g, k, d)
  \/ OwnWorldEnds(g)

Next ==
  \/ \E t \in Tags : StartApply(t)
  \/ ApplyStep
  \/ RaceStep
  \/ \E p \in Players : ClientStep(p) \/ Join(p) \/ Leave(p) \/ RestartClient(p)
  \/ \E g \in Guests : OwnWorldStep(g)
  \/ StopServer

Spec == Init /\ [][Next]_vars

-----------------------------------------------------------------------------
(* Properties.                                                             *)

ServerSettled == thread[Server].pc \in {"idle", "applied"}

(* Models the server resolves and does not announce. *)
Unannounced ==
  {k \in Keys : tagmap[k] = Absent /\ ProviderFor(Server, k) # Absent}

(* What the server announces is what the server uses: outside apply(), a   *)
(* model in TAGMAP (the content clients are sent) resolves on the server   *)
(* to the complete provider built from that very content, whatever         *)
(* reloads, failed reloads and packets of the owner came before.  A        *)
(* dedicated server resolves no other model, but for the one at which      *)
(* filterClientData cut the last apply() short.  Excluded: a reload that   *)
(* the owner's client thread wrote into.                                   *)
ServerServesItsTagmap ==
  ServerSettled /\ ~tainted =>
    /\ \A k \in Keys :
         tagmap[k] # Absent =>
           ProviderFor(Server, k) = [key |-> k, def |-> tagmap[k], full |-> TRUE]
    /\ Owner = NoOwner /\ Unannounced # {} =>
         /\ failed
         /\ \E k \in Keys : /\ Unannounced = {k}
                            /\ ~Shape[ProviderFor(Server, k).def].filters

(* No thread of JVM j is between adding a provider and publishing its key. *)
NonePublishing(j) ==
  \A t \in Threads : JvmOf(t) = j => thread[t].pc # "publish"

(* The model list offered by the NPC editor (AVAILABLE_MODELS) and the     *)
(* providers agree in every JVM, also after a reload or packet that an     *)
(* exception cut short: every provider can be picked, and where only one   *)
(* thread writes the tables every name that can be picked has a provider.  *)
PickerMatchesProviders ==
  \A j \in Jvms :
    /\ NonePublishing(j)
    /\ j = Server => ~tainted /\ thread[Server].pc # "reset"
    => /\ KeysOf(providers[j]) \subseteq avail[j]
       /\ (j # Server \/ Owner = NoOwner) => avail[j] \subseteq KeysOf(providers[j])

(* A model whose provider makes a patch and names a known renderer has a   *)
(* renderer in every JVM that draws, a failed load or not:                 *)
(* MixinRenderEngine answers such an NPC with renderersMap.get, unchecked, *)
(* and hasRendererFor with true.  Excluded: content on which               *)
(* filterClientData throws, for a load that it cuts short leaves a         *)
(* provider and no renderer; and a reload that the owner's client thread   *)
(* wrote into.                                                             *)
DrawableHasRenderer ==
  \A j \in Jvms :
    /\ Side(j) = "client"
    /\ \A t \in Threads :
         JvmOf(t) = j => thread[t].pc \notin {"publish", "announce", "render"}
    /\ j = Server => ~tainted
    => \A k \in Keys :
         LET e == ProviderFor(j, k) IN
         /\ e # Absent
         /\ ~Shape[e.def].disabled
         /\ Shape[e.def].filters
         /\ Shape[e.def].renderer = "valid"
         => renderers[j][k] # Absent

(* Every entry of the packet can be handled on a client. *)
ClientSafe(tags) ==
  \A k \in Present(tags) :
    LET s == Shape[tags[k]] IN
    "client" \in s.loads /\ (s.disabled \/ s.renderer # "invalid")

(* The models that JVM j has from files of its own. *)
OwnKeys(j) ==
  {providers[j][i].key : i \in {n \in DOMAIN providers[j] : providers[j][n].full}}

(* A guest whose JVM has handled packets of one content only since its     *)
(* lists were last emptied, and has finished, holds that content behind    *)
(* what a world of its own has left: the picker offers the keys of both,   *)
(* each model of the packet resolves to its content, but for those that    *)
(* the guest's own files bind, and those stay as they are.  (After packets *)
(* of two contents this need not hold: the first provider of a key stays   *)
(* in front.)                                                              *)
GuestAgreesWithItsPacket ==
  \A g \in Guests : \A tags \in heard[g] :
    heard[g] = {tags} /\ ClientSafe(tags) /\ thread[g].pc = "idle" =>
      /\ avail[g] = OwnKeys(g) \union Present(tags)
      /\ \A k \in OwnKeys(g) : Resolve(providers[g], k).full
      /\ \A k \in Keys \ OwnKeys(g) :
           ProviderFor(g, k) =
             IF tags[k] = Absent THEN Absent
             ELSE [key |-> k, def |-> tags[k], full |-> FALSE]

(* The registry of a JVM as a map, and the contract it implements. *)
registry == [j \in Jvms |-> [k \in Keys |-> Resolve(providers[j], k)]]
Map == INSTANCE WriteOnceMap WITH
         Values <- Entry, map <- registry,
         raced <- IF tainted THEN {Server} ELSE {}

(* The list of providers with its first-match lookup is a map in which a   *)
(* key, once bound, keeps its value until the whole map is dropped; but    *)
(* for the server's while a reload counts that the owner's client wrote    *)
(* into.                                                                   *)
ImplementsWriteOnceMap == Map!Spec

(* After a reload that did not fail, and after a login, the server's       *)
(* current TAGMAP reaches each guest: its client starts to handle that     *)
(* very content, unless it leaves or the server loads another first.       *)
SyncReachesGuests ==
  \A g \in Guests : \A tags \in Tags :
    (up /\ ServerSettled /\ ~failed /\ tagmap = tags /\ g \in connected)
      ~> (tags \in heard[g] \/ g \notin connected \/ tagmap # tags)

===============================================================================
