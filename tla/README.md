# A verification development for CNPC-EpicFight-Addon

The addon is a Minecraft Forge mod that gives the NPCs of CustomNPCs (CNPC) the models and combat of Epic Fight.
Its own program is about 2000 lines of Java under `src/src/main/java/com/goodbird/cnpcefaddon/`; the rest of the tree
(`src/google-cloud-sdk`, `src/node_modules`) is vendored and no part of it.  Below, paths are relative to that package.
This directory holds TLA+ models of the parts that keep state, TLC runs on small instances, and TLAPS proofs.

## 1. Inventory

| Component | Code | State it keeps | Operations |
|---|---|---|---|
| Patch registry | `common/NpcPatchReloadListener`, `common/provider/NpcBranchPatchProvider`, `client/render/RenderStorage`, `mixin/impl/MixinRenderEngine` | statics of a JVM: list of providers, `AVAILABLE_MODELS`, `TAGMAP`, `renderersMap` | `apply` (datapack load), `processServerPacket`, `get`, `registerRenderer`, `getEntityRenderer` |
| Datapack sync | `CNPCEpicFightAddon`, `common/network/*` | packets in flight | `onDatapackSync` (login, reload), `SPDatapackSync.handle` |
| NPC display data | `mixin/impl/MixinDataDisplay`, `MixinNPCWrapper`, `MixinGuiCreationEntities` | model, two switches, posture, maximum, posture per parry; on the server and on each client that sees the NPC | script setters, editor buttons, `writeToNBT`, `readFromNBT`, `updateModelCap` |
| Posture meter | `mixin/impl/MixinLivingEntityPatch` | the posture above | a blocked attack |
| Scripted animation damage | `mixin/impl/MixinEntityNpcInterface`, `MixinEntityLivingWrapper.playEFAnimation` | armed animation, contact times, index of the next contact | arm, tick, hit, reset |
| Attack AI switch | `mixin/impl/MixinEntityAIRangedAttack`, `MixinEntityAIAttackTarget`, `MixinAnimatedAttackGoal`, `MixinTargetChasingGoal`, `MixinEntityNpcInterface.addRegularEntries` | the switch above, `isCurrentlyUsingItem`, `attackTick` | hooks in the start, tick, shot and stop of four goals; the set-up of goals |
| Evasive impulses | `MixinEntityLivingWrapper.evasive` | the NPC's motion (the game's) | a call by a script |
| Patches, providers, accessors, drawing, widgets, attributes, build | the other files | none of their own | construction, wiring |

How they interact.  `apply` runs on the server thread when the server starts and at each `/reload`; the end of a reload and each
login raise an event on which `onDatapackSync` sends the `TAGMAP`; clients handle the packet on their main thread and
fill the static tables of *their* JVM, which a world the player hosted before may have filled already.  In a singleplayer or LAN world the owner's client and the server are threads
of one JVM, and so write the same unsynchronized tables.  An NPC's display names a model; `updateModelCap`
asks the registry of its JVM for the model's provider and swaps the entity patch; a patch in use outlives the reload of what it was built from.  The display travels as a tag: to disk,
to clients (`updateClient`), and back from a client's editor.  Scripts write the display and play
animations; the NPC's tick turns played animations into damage, and the damage runs scripts.  The display's attack AI switch
is read by hooks in goals of CNPC and of Epic Fight, whichever of them run when it is turned.

What is hard: two threads on one set of statics; an exception in the middle of a reload or packet; packets that
arrive after the tables have changed; tables that outlive the world they were for; logins in between; a first-match list that is only ever appended to; a
tag format that leaves out defaults; sums of floats that are rounded at each blow; editors that send back a whole copy; NaN from scripts; a loop whose body
may change what the loop reads; an iterator on one thread over a list another thread appends to; two kinds of messages on one connection, one of which decides what the other means; goals that keep running when the switch is turned, and a flag that mirrors what item is in use.  `PROJECT.json` lists each hazard at its line.

What makes the components correct: the registry serves what it announces, offers what it serves, and can draw
what it serves; every guest gets the current content; saving an NPC loses nothing and those who see it
agree about it; its patch is that of its model; its guard breaks in time; with the attack AI off it attacks no more and comes to rest; every contact of a scripted animation counts once;
a guest fights with the patch the server has, and draws it with its renderer; a script's push goes where it was asked, no faster than it was asked.

## 2. Modules

| Module | Models | Properties |
|---|---|---|
| `NpcPatchRegistry` | registry and sync: all JVMs, their threads, the packets | `ServerServesItsTagmap`, `PickerMatchesProviders`, `DrawableHasRenderer`, `GuestAgreesWithItsPacket`, `SyncReachesGuests`, `ImplementsWriteOnceMap` |
| `WriteOnceMap` | the abstract contract of the list of providers | (refined by the above) |
| `ProviderLookup` | `get()` as the steps of its iterator, against an add of another thread | `ImplementsAtomicLookup`, `LookupEnds` |
| `AtomicLookup` | the abstract contract of a lookup | (refined by the above) |
| `NpcWorld` | `NpcPatchRegistry` composed with one NPC: its model, its copies on clients, the patch in use on each side, and the connection | `GuestFightsLikeServer`, `DrawnNpcHasRenderer`, `GuestSeesNpc` |
| `NpcDisplay` | one NPC's display on server and clients, its patches, the posture meter | `SaveIsLossless`, `CaughtUpClientAgrees`, `PatchFollowsModel`, `GuardBreaksInTime`, `GuardBreaksOrStandsStill` |
| `ScriptedDamage` | arming and the hit loop, scripts inside a hit | `EachContactOnce`, `CalledOffStaysOff`, `NoContactLeftOut`, `NoContactEarly`, `TickEnds` |
| `AttackAI` | the attack AI switch and the goals it reaches into | `AimIsRemembered`, `OffMeansNoAttack`, `OffComesToRest` |
| `Evasive` | the call of that name, the NPC's motion, doubles that overflow or are no numbers | `NoFasterThanAsked`, `PushedWhereAsked` |
| `NpcPatchRegistryProofs`, `RegistryTablesProofs` | theorems about `NpcPatchRegistry`: the server and the refinement; the tables of any JVM | |
| `ProviderLookupProofs`, `NpcWorldProofs`, `NpcDisplayProofs`, `ScriptedDamageProofs`, `AttackAIProofs`, `EvasiveProofs` | theorems about the module of that name | |
| `MC...` | instances for TLC | |

Definitions whose comment begins with *Mistake* are never used by a specification; each is a plausible bug, and
substituting it for the definition after it breaks the property named beside it in `PROJECT.json` ("mutants").

### NpcPatchRegistry

`providers`, `avail`, `hooked`, `renderers` are the static tables of each JVM; `tagmap` is the server's; `thread` is the
loop each thread is in (entries left, the current one, the step).  A step of a thread is one access to a table another thread
may touch: `apply` is `StartApply` (line 68), `ResetTables` (69-70), then for each entry `ApplyAdd` (84), `ApplyPublish`
(85), `ApplyAnnounce` (86-93), `ApplyRender` (95), or one of the `...Fails` steps where the code throws: in parsing and deserializing (76-84), in `filterClientData` (86), in `registerRenderer` (95); `processServerPacket` is `BeginPacket`,
`ClientAdd`, `ClientPublish`, `ClientRender`.  `WriteOnceMap` takes `tainted` as an input, `raced`: the map of a host is under no obligation while it holds, and back under it with the next load.  The order of entries is any order (`HashMap`).  A file's content is a
model value whose `Shape` says what the branches see of it: disabled, the sides on which it loads, whether `filterClientData` finds what it copies, and which case of
`registerRenderer` it is.  An entry of the server is `full`, one built from a packet is not (`filterClientData` removed what only the server needs).

`Owner` is the player in whose JVM the server runs, or `NoOwner` on a dedicated server.  `RacePublish` and `RaceRender` let two
simultaneous writes of one `HashSet` or `HashMap` lose one of them.  `ArrayList.add` reads the size and the array, stores the element and stores the size: a thread may `Stall` after the read (`seen` is what it has read) and go on
in a `LateStore`, any number of the other thread's steps later, and `Stored` says what the list is then: what was added meanwhile is cut off, overwritten or brought back, or the add is made to the object that a reload has replaced.  `tainted`, `failed`, `heard` are history; `tainted` is set by a write of the
owner's thread, a stalled one included, while `apply` runs, and cleared when the next `apply` starts.

A guest may play a world of its own before it joins, or between two visits: `OwnWorldStarts` empties its list and picker (68-69), `OwnWorldLoads` runs the loop body for an entry with no other thread to interfere, exceptions of lines 86 and 95 included, and `OwnWorldEnds` leaves.
Its tables stay: what it later adds from a server's packets is behind the entries of its own files (`OwnKeys`).  Packets of that own world only repeat its files' keys, behind them, and are left out; `OwnDefs` bounds the contents of such worlds.

Abstractions: the statics are otherwise sequentially consistent, and a lookup is one step: what it is against an add that is half visible is the subject of `ProviderLookup`; registering the biped armature is idempotent and left out;
a failed reload raises no sync event (the game reports the error and keeps running), a failed first load ends the start of the server, whose tables are kept for the next start even on a dedicated server (more than can happen there); packets of a connection arrive in order.

### ProviderLookup and AtomicLookup

`providers` has the list of the object in `branchPatchProvider` ("branch") and that of an object it has replaced but a `get()` still runs on ("dropped").  An add of the other thread
consists of three stores, to `modCount`, the array and `size` of the `ArrayList`, and nothing orders them for the reader: `AddProvider` begins it and `StoreSeen` makes them visible in any order.  `Get` enters the method, and
`Iterator`, `HasNext`, `CheckModCount`, `NextEntry` are the iterator's reads, one step each.  `answer` is what came out: a provider, the default one (`Absent`), or an exception (`Error`).  `disturbed` is history: the list that is read was added to during the lookup.
`ImplementsAtomicLookup` maps this to a lookup that answers in one step from a write-once table, or fails, and that only when disturbed.  It says which of the two exceptional outcomes (`ConcurrentModificationException`, a null entry) a
host can meet, and that no third one, a wrong provider, exists.  The two adding threads of a host that race each other are in `NpcPatchRegistry`; here one adds and the other reads.

### NpcWorld

EXTENDS `NpcPatchRegistry` and adds one NPC: `model` on the server, `shown` on each client (or `Gone`), and `built`, the provider from which the patch in use was built, on the server and on each client.
`PatchOf` is `updateModelCap` with the registry's own `ProviderFor`, where `NpcDisplay` has an arbitrary `usable`.  A client's packets and the NPC's tags travel on one connection: `inbox` and `mail` keep the messages and
`order` how they alternate; its main thread takes them in that order (`InTurn`), finishing the loop of a packet before it reads the next tag.  `SetModel`, `LoadNpc`, `Track`, `Untrack` happen on the server whenever it is not inside `apply`, so in particular
between a reload and its broadcast.  On a host whose owner's client wrote into the last reload (`tainted`) `GuestFightsLikeServer` says nothing: a late packet of the old content may have entered the
new list first, so that the server itself fights with a provider it does not announce.  Every step of the registry is one of `ServerRegistryStep`, `BeginSync`, `ClientRegistryStep`, `LeaveWorld`, `RestartGuest`, `OwnWorld`, `StopWorld`, with what it does to the NPC.
`spoiled` is history too: it remembers `tainted` for as long as the owner's patch may have been built from such tables, that is, until that patch is built anew, or gone, with `tainted` cleared.

### NpcDisplay

`srv` is the server's `DataDisplay`, `cli[c]` that of a client, `patch[j]` the capability in use in each JVM, `wire` and
`saves` the tags on their way.  `Save`/`Read` are `writeToNBT`/`readFromNBT`, key by key with their defaults; the setters are one
action each, with the rebuild of the patch and the announcement in the order of the code.  The editor's buttons write the client's copy with `server = false`; leaving
the menu sends the copy.  `usable` is what the registry of a JVM has a patch for, and changes at any time (see `NpcPatchRegistry`).  A float is NaN or
a significand of at most `Exact` (the code's is 2^24) times one of the `Spacings`, powers of two, counted in units of the smallest one; 1.0F is `One` units, so there are fractions, and the distance of neighbouring floats grows with their size.  What scripts pass (`Inputs`) need be no float; it is
rounded, and so is each sum, to the nearest float, a tie to the even one (`Nearest`), as Java does.  `told`, `edited`, `applied`, `parries` are history.

External parts are modelled from how the code uses them: `updateClient` sends the display's tag to the clients that track the NPC, tracking sends it once,
an unloaded NPC is saved and read into a new entity, a dying NPC's patch hears of it.  An NPC that is killed and respawns is not modelled beyond that.

### ScriptedDamage

`armed`, `times`, `next` are the fields of the mixin; `play` is Epic Fight's animation player (an animation, its elapsed
time, whether it ended), which also turns to animations of its own at any time; `pc`, `elapsed`, `left` are where the tick is in its loop and what its local
variables hold.  `TryHits` is a hit up to the scripts of its events; in a hit any number of `PlayEFAnimation`, `SetEFAnimationDamageEnabled`,
`ReplacePatch` and `AnimatorTurnsTo` (the target hits back) may happen before `HitReturns`.  `TryMisses` is a try without `doHurtTarget`: the guards on the target, on reach and sight, and on what Epic Fight's own
attack has met are one choice.  Times are fortieths of a second.

### AttackAI

`off` is the switch, `goals` the goals the selector has, `running` those it has started; `using` is the ranged goal's `isCurrentlyUsingItem` and `item` the item really in
use, which that goal ("aim") or anyone else ("other") began; `path` says whether the chasing goal began the path the navigation follows; `wait` is the melee goal's `attackTick`.
`attacks` is history.  `RangedTick` and `RangedTickFires` are a tick of the ranged goal without and with the shot, hooks included (`onTickStart`, then
`onFireRangedAttack` and the redirected attack); `MeleeTick`, `AnimatedTick`, `ChasingTick` those of the others; `AskRanged` is its `canUse` with its side effect;
`AddRegularEntries` sets the goals up anew; a new patch (`Renew`) takes Epic Fight's goals away and may add its own, in `NewPatch` (a new model) and in `SetEFAttackAIDisabled` of an NPC with a model.

Abstractions: the selector takes goals in any order (no priorities or flags), so the properties hold under any.  A running goal may stop at any time;
that the melee goal *must* when the switch is off (its `canContinueToUse`) is a special case.  External parts, from how the code uses them: `setAIAsInfantry(true)` withholds Epic Fight's goals,
a stopped chasing goal stops the navigation, a removed goal that runs is stopped, `startUsingItem` does nothing while an item is in use, changing the weapon ends its use.

### Evasive

`EvasiveCall` is a script's call: `playing` is the animation handed to `playEFAnimation` (which is `ScriptedDamage!PlayEFAnimation`), `Impulses` what `resolveEvasiveImpulse` may return (random sides make it a set), `motion` the NPC's motion it is added to.
`Tick` and `Turn` are the game's: motion wears off, the target and the look change.  Lengths are integers, so that directions are axes and 3-4-5 triangles and nothing is rounded (`OffsetsAssumption`: an offset is a whole length in one of the directions of `Compass`); `Largest` stands for the greatest double, `Infinity` and `NaN` are as in Java
(nothing of infinity is NaN).  `dotless` is a JVM whose language lowers `I` to a dotless i.  `total` is history.  `PushedWhereAsked` has a geometric reference (dot and cross product with the direction faced) instead of the code's vectors.

## 3. Runs

| Run | Instance | What it shows |
|---|---|---|
| `dedicated` | 2 models, 5 contents (good, disabled, unknown renderer, mesh missing on clients, one that `filterClientData` throws on), 1 guest who may have a world of its own (with the good content), 2 loads, 2 logins and own worlds | safety of registry and sync without shared tables; refinement of `WriteOnceMap` |
| `lan` | 2 models, 5 contents (good, disabled, garbled, unknown renderer, `filterClientData` throws), the owner, 3 loads, 2 logins | the same tables written by two threads, with stalled adds and lost writes; refinement of `WriteOnceMap` but for raced maps |
| `sync_liveness` | `NpcWorld`: 1 model, 3 contents (two good, one garbled), owner and guest, 2 loads, 2 logins and own worlds, 2 writes of the NPC | every content announced reaches the guests; a tracked NPC is seen right in the end |
| `display` | 2 models, 1 client, posture inputs -1, 3, 13, NaN in halves (1.0F = 2 units), `Exact` = 4, spacings 1, 2, 4, `Huge` = 16, 4 writes | saving, agreement, patches, posture |
| `meter` | 1 model, no client, the same floats, inputs -1, 1, 3, 10, 13, NaN, 5 writes | the meter under rounding: it breaks, is written, or stands still |
| `editors` | 1 model, 2 clients, posture input 3, 5 writes | agreement with two editors |
| `scripted` | 4 animations: three phases of which a tick passes two, one phase at the very end, two that are not attacks (odd length, shorter than the shortest trigger) | the hit loop; no bound is needed, the model is finite |
| `attack_ai` | a melee delay of 2 | the switch against four goals; the model is finite |
| `world` | 2 models, 3 contents (two good, one that `filterClientData` throws on), a guest on a dedicated server with a world of its own (the last content), 2 loads, 2 logins and own worlds, 3 writes of the NPC | the guest has the server's patch, and a renderer for it |
| `world_lan` | 2 models, 1 content, the owner, 4 loads, 1 login, 2 writes | the renderer, with shared tables, through races and out of them |
| `lookup` | 2 models, 2 providers, lists of 2 | refinement of `AtomicLookup`; a lookup ends |
| `evasive` | 3 vectors (too near, an axis, an angle), strengths negative, faint, 50, 100, infinite and NaN with `Largest` = 180, 2 calls | pushes, their sum and their direction |

Bounds.  Two models show every interaction of entries in the loops (one done, one to do, one failing).  Two loads
show a load over the tables of another, with packets of the first still in flight; in `lan` the first load comes before
the owner and only a reload sends the owner a packet, so two threads meet at the third, and a stalled add of one reload is still there at the next.  In `world_lan` a fourth reload runs undisturbed after the third was written into, so that states after a race are checked; contents that load differently are `lan`'s and `world`'s.  Two logins show a login before and after, a host's owner with a guest, or a login after a world of the guest's own.  `MaxJoins` counts own worlds with the logins.  `MaxWrites` bounds writes, edits and reloads
of an NPC; a disagreement between copies takes two writes and a tag between them, a missed stun takes the settings and as many blows as the maximum counts, which are not bounded.  13 lies between two floats and 3 + 3 + ... is rounded from the second sum on.
In `world` a stale patch takes two contents, a write before and one after; the third write is a load or a tracking; a guest with a world of its own takes two of `MaxJoins`, that world and the login.  A disabled content acts on a patch as an unknown name does (`PatchOf`) and is left to `dedicated` and `lan`.  In `sync_liveness` the two writes are a model and a tracking, in either order.  A lookup meets each outcome with a list of two, one of which is being added: a match before it, at it or nowhere; longer lists are the theorem's.
Two calls of `evasive` overflow (100 and 100) or not (50 and 100).  Three contact times and an animation that
a script arms in the middle show every position of the index.

`CHECK_DEADLOCK FALSE` where the bounds let the system come to rest: an NPC nobody watches, or a world that is closed, when all writes, loads and logins are used up.

Symmetry: model names (`KeySymmetry`, `ModelSymmetry`) and clients (`ClientSymmetry`) are interchangeable; the liveness runs use none.

Fairness.  `sync_liveness`: the server thread finishes the loop it is in, and a client's main thread takes the next message or goes on with the packet it is in (`WF(MainThread(p))`);
nobody has to log in, leave, reload or write, and `GuestSeesNpc` ends when the content, the model or the tracking changes.  `scripted`: the thread inside a tick goes on, that is, hits return and the loop continues (`WF(LoopStep)`).
`attack_ai`: the selector ticks a goal that runs (`WF(RangedTick \/ RangedTickFires)`, `WF(ChasingTick)`); no goal has to start, to stop or to be asked.
`lookup`: a thread inside `get()` goes on (`WF(LookupStep)`); lists have at most `MaxEntries` entries, as a datapack's are finite.
`meter`: an opponent goes on blocking (`WF(AttackBlocked)`).  That is an assumption about the fight and not about the code, which the property is conditional on.

## 4. Theorems

Every invariant and every action property that a run checks is a theorem, and so are both refinements; only liveness is not.  Proved by TLAPS for all constants that meet the assumptions of the modules, which are of three kinds:

* names that stand for nothing are no names of something, and a content is of one of the shapes listed (`ShapeAssumption`, `OwnDefsAssumption`, `AbsentAssumption`, `ThreadsAssumption`, `NoModelAssumption`, `GoneAssumption`, `LookupNamesAssumption`, `DisplayNamesAssumption`, `NoneAssumption`);
* bounds and delays are natural numbers (`BoundsAssumption`, `NpcWritesAssumption`, `WritesAssumption`, `EntriesAssumption`, `CallsAssumption`, `DelayAssumption`).  They only stop the counters; no proof uses how large they are;
* the data: phases of an animation are finite and in order (`AnimsAssumption`); a float is a significand up to a multiple of four times one of the spacings, each of which is an even multiple of those below it, and the greatest float has the widest (`FloatAssumption`); the
  strengths are multiples of five below the greatest double (`NumbersAssumption`) and offsets have the lengths `Evasive` can count with (`OffsetsAssumption`), which is the abstraction described above.  Sets of models, players, clients, contents and strengths are arbitrary, infinite ones included.

The registry (`NpcPatchRegistryProofs`):

* `TypeCorrect`: `Spec => []TypeOK`, from `TypeInvariant`, which adds that a thread inside a loop body is at an entry of its list (`CursorOK`); without it the entry read by a publish or render step need not exist.
* `RegistryIsWriteOnceMap`: every step of the detailed model is a step of `WriteOnceMap` or leaves the map as it is.  The argument is about `Resolve`:
  appending an entry binds a key that had none and changes no other (`ResolveAppend`; that a least match exists is `LeastNat`), and what replaces the list empties it.
  An add that has read the list and not yet written it is the hard case: as long as no thread has written into an `apply`, what it has read is still the list, or the list is another object by now and the add goes nowhere (`SeenInv`).  What a stalled add does after such a write (`LateStore`) is not
  covered up: the abstract map of the host is then `raced`, allowed to become anything, until the next `apply` makes a new object.  No bound on reloads and players is used.
* `AnnouncedIsServed`: `Spec => []ServerServesItsTagmap`.  The inductive invariant `ServerInv` says for the server's JVM: while `apply` runs untouched, the keys
  with a provider are those in `TAGMAP` plus the one being published; each bound key is bound to the complete entry of its tag; on a dedicated server nobody else writes.
  Line 86 can throw between the provider and the announcement, and ends the `apply`: a key with a provider that is not announced (`CutKeys`) is the one in hand, or, when `apply` has failed there, the one it failed at.  The invariant was checked by TLC first.


The hit loop (`ScriptedDamageProofs`), the lookup (`ProviderLookupProofs`) and the switch (`AttackAIProofs`).

* `LoopInvariant`: the hit loop's inductive invariant.  Outside a hit the index is the number of contacts done with; inside a hit it is one behind, *also* when a script in the hit arms anew, which is why exactly the first contact of such an animation is left out.
* `ContactsTriedOnce`, `CallingOffIsFinal`, `NoEarlyTry`, `NoReachedContactSkipped`: the four safety properties of `ScriptedDamage` from it.  The last one rests on phases being in order and on the rounding of half a length (`ReachedIsDue`).
* `LookupInvariant`: in an undisturbed lookup the iterator sees the list as it is, and in any lookup no entry before the cursor matches; `LookupTypes` is its part about types, which has that the cursor never passes the list's size (`hasNext` compares with `#`).
  `LookupIsAtomic`: `Spec => ImplementsAtomicLookup`, one step of the refinement per action.  What an iterator answers from is what the list binds *now*, not when the lookup began: a lookup is linearized at its return.  An entry whose size is visible and whose element is not ends in an exception, never in a wrong answer.  No bound on lists is used.
* `LoopTypes`, `SwitchTypes`: the types of `ScriptedDamage` and of `AttackAI`, for all animations and all delays.
* `SwitchInvariant`: the types, `AimIsRemembered` and `OffMeansNoAttack` are inductive together.  The memory of the bow needs its second half, that the flag is set only while the ranged goal runs: stopping the goal is what lowers the bow, and a goal set up anew starts with the flag clear.  `BowIsRemembered` and `SwitchKeepsTruce` are its parts.

The tables of a JVM (`RegistryTablesProofs`).  Every step of the registry that does not write into an `apply` is, seen from one JVM, one of these (`NextIsJvmStep`): nothing changes, everything is emptied, one of its threads makes one step of its loop, or a guest loads an entry in a world of its own or leaves that world (`OwnAdds`, `OwnEnds`).  The three proofs are about these, and so hold for a host's two threads as for a guest's one.

* `PickerIsRight`, from `PickerInv`.  A provider is offered or a thread is about to (`OfferedInv`); the converse needs the JVM to have one writer, and that the provider of the name about to be published is still in the list (`BoundInv`).
* `DrawableIsDrawn`, from `RendererInv`, which speaks of *every* entry of the list and not only of those `get` finds: an entry that names a renderer has it, or a thread in the loop body sees to it (`Served`), or its content is one that `filterClientData` throws on.  That exception is the code's (line 86 before 95) and is in the property, as is `tainted`.
  It needs `ServerInvariant`: what a host's reload finds under a key it is working on is its own.
* `GuestHoldsItsPacket`, from `GuestInv`: a guest that has handled no packet has nothing but what a world of its own has left, one entry for a key (`FreshInv`, `OwnInv`); and while packets of one content are handled, any number of times, every other entry of the list is the stripped entry of its tag and every key of the content is offered or still to do (`LoopInv`, `ContentInv`).
  So the guest answers as its packet says for every model but those of its own files (`OwnKeys`), which stay in front.

The world (`NpcWorldProofs`).

* `WorldKeepsRegistry`: `WorldSpec => Spec`.  The theorems above therefore hold in the world, and are used there.
* `WorldTypeCorrect`, with `ConnectionInv`: `order` counts exactly the packets in `inbox` and the tags in `mail` (`Counted`, by counting with bijections: `CountAppend`, `CountTail`); a player who is away has no part of the NPC; a guest whose game
  has not begun is away, in a world of its own at most, or has a packet at the head of its connection (`Login`); the last tag on its way is of the current model (`Told`).
* `GuestsFightAlike`: by `Login` no tag is read before the first packet, so a patch of a guest that has heard one content only was built from that content (`BuiltInv`), which at rest is the server's (`GuestHoldsItsPacket`, `AnnouncedIsServed`).  All of this is for a model that the guest's own files have no entry for; such entries only go when the lists are emptied (`OwnKeysStay`), which also empties what was heard.
* `DrawnNpcIsRendered`: what a patch in use was built from is still `Served`, though its entry may be gone (`PatchInv`, from `RendererInv` at the moment it is built, and kept by `PatchKept`).
  The patch of a host's owner that was built from raced tables is out of it, and no longer than that: `spoiled` goes only with that patch, which is gone or built anew from a list that is in order again (`StepForgets`), so that the theorem says something of the states after a race.

The display (`NpcDisplayProofs`).

* `TypeCorrect`; its weight is in the meter: a rounded sum of floats is a float (`RoundedIsFloat`), and what a setter or a tag leaves is not negative.  `SavedIsRestored` is a case for each key (`ReadSaved`).
* `GuardIsBroken`, from `GuardInv`: the posture is below the maximum and at least the sum of the blows counted since it was last written, less what rounding may take from a blow.
  Below the maximum, the floats are no further apart than just below it, so a rounded sum loses half of that distance at most (`SpacingFacts`, `RoundedLoses`), and nothing if the posture per parry is a multiple of it (`MultipleIsFloat`).  `Gain`, twice what a blow adds at least, is therefore `2 * perParry - Slack`.
* `PatchIsForTheModel` and `ClientCatchesUp` share an invariant, `ClientInv`.  The tag of an NPC without a model leaves the reader's model as it is, so agreement depends on no such tag coming after one with a model: `ModelKnown` says so of everything on
  the wire.  With it, the last tag on its way is the server's display but for the blows since (`Posted`), a client with none on its way shows it (`Synced`), and its patch follows (`ClientPatch`).

The impulses (`EvasiveProofs`).

* `CallsDoNotMultiply`: the motion is no longer than the strengths add up to.  It is a triangle inequality without roots (`Triangle`, from Lagrange's identity), on impulses of exactly the length asked for (`NormalizedIsUnit`, `ImpulseLength`).
* `PushGoesWhereAsked`: an action property; an impulse is a multiple of one of four vectors (`FourWays`), and dot and cross product with the direction faced tell them apart.  `EvasiveTypes`: calls keep the motion level.

Only model-checked: liveness (`SyncReachesGuests`, `GuestSeesNpc`, `TickEnds`, `OffComesToRest`, `LookupEnds`, `GuardBreaksOrStandsStill`), which depends on fairness and is out of the prover's reach.

## 5. What the development shows about the code

These are consequences of the code that its authors may want to know; no comment, document or test says otherwise.

* A guest keeps the first provider of a model for as long as its game runs: content of a later reload or server replaces names and renderers, not providers
  (`processServerPacket` appends, `get` takes the first match).
* `filterClientData` (`NpcPatchReloadListener` 86, Epic Fight's) may throw on a file that line 84 has accepted.  It then does so when the provider and the picker already have the model, and `TAGMAP` and the renderers have not: a dedicated server then resolves a model it does not
  announce, a host has a provider whose renderer was not registered, and the rest of the datapack is not loaded.
* What a player's own singleplayer world put into the static tables stays when the player joins a server afterwards, and `processServerPacket` appends: for those models the guest fights with its own files' patches, whatever the server sends.
* On a host, the packet of an old reload that is handled late brings back models that the new one has removed, and a reload the owner's thread writes into (`tainted`) may leave a model announced and not served as
  announced: without that exception each of the four properties of `lan` fails there (an added provider that is lost, a
  name dropped with the old picker, a renderer that is lost, a binding that a stalled add rolls back).  The next `apply` that is not written into puts everything in order again.  In a world with a guest too, the server may then fight with a provider
  that it has not announced, and the guest with the one that was announced.
* A model without a usable provider leaves the old patch in place, and the renderer of an NPC may be null while `hasRendererFor` says true.
* An NPC whose maximum is NaN has its posture added up and never breaks; a reload clears the maximum.
* A script that plays an armed animation from the events of a hit loses its first contact, may have later ones tried by the elapsed time of the animation before,
  and, if it does so at each hit of an animation of several phases, can keep the tick from ending.
* The ranged goal's flag may stay set when something else ended the use of the bow: the NPC does not aim again before it has shot or stopped; and lowering the "bow" ends whatever is in use then, a shield too.
* A chasing goal whose NPC has the attack AI off is started and runs, and in each tick stops the navigation whoever began it.
* In a host's JVM the owner's client may read an NPC's tag while `apply` runs: it finds no provider and the copy keeps its old patch or gets none, until the next tag.  A lookup of that thread can end in an exception (`ProviderLookup`).
* A script that sets a model between a reload and its broadcast reaches the guests ahead of the new content: they keep the patch of the old content until a new tag comes.
* An NPC that shows a model without a renderer, with the patch of its former one in place, gets null from `getEntityRenderer`.
* A guard can hold longer than the settings say: each sum is rounded, and with a maximum of 100 and 0.1F per parry a thousand blows add up to less than 100.  `GuardBreaksInTime` has the bound that does hold.
* A posture at which one blow is less than half the distance to the next float (or half of it, by rounding to even) never breaks, however long the blocking goes on (maxima above 2^24 with a small posture per parry).
* `evasive` with a strength that is NaN or infinite makes the NPC's motion NaN for good; in a JVM whose language is Turkish, `"RIGHT"` is not understood and the NPC follows the intent, by default backwards; with a target right above, the animation plays and no push is given though the NPC looks somewhere.
* An armed animation that was interrupted is still armed when the NPC plays the same animation on its own.

## 6. Not modelled, and the plan

Not modelled, and why:

* constructors of patches and providers (one deep copy of an armature, a scale), accessors (`mixin/I*`, `MixinCapabilityDispatcher2`: what is done through them is in `NpcDisplay` and `NpcWorld`), drawing, widgets, attribute registration, build files: no state that changes;
* parsing and encoding of a tag, beyond loading or not: its data is not what the properties tell apart;
* rotation, distance and sight checks of a hit, the priorities and ticks of the goal selector: data of Minecraft, left to choice;
* iterating `AVAILABLE_MODELS` in the editor while the server thread adds to it: it may cost the menu that is being opened, and no state;
* the packets that a guest's game sends itself inside a world of its own: they repeat that world's files behind the entries they came from, and `get` never reaches the repetition; what the owner of a host played before it opened its world: its first `apply` replaces the provider list, and clears the picker; renderers, which no load clears, only lose names that nothing asks for;
* what Epic Fight does with the patch of a killed NPC that was given a new model (it has not heard of the death): outside this code;
* the vendored trees `google-cloud-sdk` and `node_modules`: no part of the program, which neither builds from them nor calls them.  They are nearly all of the tree's lines, so a share of lines that counts them says nothing about the program: of its own files, those that keep state or decide anything are modelled.

What is left of the plan: the proofs it named are done.  Worth adding:

1. an abstract specification of a display that is edited from several sides (one value, and readers that lag behind), with `NpcDisplay` shown to implement it;
2. the steps that lead to the liveness properties as theorems of their own: what an enabled step of a loop brings nearer to its end (the entries left, the phases left), which leaves to TLC only that fair loops take such steps.
