-------------------------- MODULE RegistryTablesProofs --------------------------
(***************************************************************************)
(* Theorems about the tables NpcPatchRegistry keeps in every JVM: that the *)
(* list of models the editor offers, the providers and the renderers go    *)
(* together, and that a client holds what it was sent.  They hold for all  *)
(* sets of models, contents and players, whoever owns the world, and for   *)
(* any number of reloads, logins, failures and restarts.                   *)
(***************************************************************************)
EXTENDS NpcPatchRegistryProofs

-----------------------------------------------------------------------------
(* What a step of the system is to one JVM.  apply() and                   *)
(* processServerPacket do the same things to the tables of their JVM, each *)
(* in its own thread; here they are the steps of a thread t of JVM j.      *)

Runs(j) == {t \in Threads : JvmOf(t) = j}

(* The tables of j are to be trusted: no collision spoiled the last apply. *)
Untainted(j) == j = Server => ~tainted
NotReset(j) == j = Server => thread[Server].pc # "reset"

(* One thread only writes the tables of j. *)
SoleWriter(j) == j # Server \/ Owner = NoOwner

SameTables(j) ==
  /\ providers'[j] = providers[j]
  /\ avail'[j] = avail[j]
  /\ hooked'[j] = hooked[j]
  /\ renderers'[j] = renderers[j]
SameHeard(j) == j \in Guests => heard'[j] = heard[j]
OthersStay(j, t) == \A u \in Runs(j) : u # t => thread'[u] = thread[u]

Stays(j) ==
  SameTables(j) /\ SameHeard(j) /\ \A u \in Runs(j) : thread'[u] = thread[u]

(* A reload or a restart: no provider is left.  What the picker offers is  *)
(* dropped with the providers, or, in a reload, at the step after; a       *)
(* reload leaves the renderers as they are.                                *)
Empties(j) ==
  /\ providers'[j] = <<>>
  /\ SoleWriter(j) /\ NotReset(j)' => avail'[j] = {} /\ thread'[j].pc # "publish"
  /\ j \in Guests => /\ heard'[j] = {} /\ avail'[j] = {}
                    /\ thread'[j].pc \in {"idle", "home"}
  /\ \/ j \in Guests /\ RestartClient(j)
     \/ Side(j) = "server"
     \/ /\ renderers'[j] = renderers[j]
        /\ \A t \in Runs(j) : thread[t].pc \in Body => thread'[t] = thread[t]

Begins(j, t) ==
  /\ SameTables(j) /\ OthersStay(j, t)
  /\ thread[t].pc \in {"idle", "applied"}
  /\ thread'[t].pc \in {"idle", "add"}
  /\ j \in Guests => BeginPacket(j)

(* An add stalls; that happens where two threads share the tables. *)
Stalls(j, t) ==
  /\ j \notin Guests /\ ~SoleWriter(j)
  /\ thread[t].pc = "add"
  /\ thread'[t].pc = "store"
  /\ SameTables(j) /\ OthersStay(j, t)

Adds(j, t, e) ==
  /\ thread[t].pc \in {"add", "store"}
  /\ e.def = thread[t].todo[e.key]
  /\ j \in Guests => ~e.full
  /\ providers'[j] = Append(providers[j], e)
  /\ avail'[j] = avail[j] /\ hooked'[j] = hooked[j] /\ renderers'[j] = renderers[j]
  /\ thread'[t] = At(t, "publish", e.key)
  /\ OthersStay(j, t) /\ SameHeard(j)

(* A stalled add goes on in an object that is no longer in use. *)
Misses(j, t) ==
  /\ j \notin Guests /\ ~SoleWriter(j)
  /\ thread[t].pc = "store"
  /\ thread'[t].pc = "publish"
  /\ SameTables(j) /\ OthersStay(j, t)

(* From the tables to the renderer of the entry, or to the next entry. *)
MovesOn(j, t) ==
  LET k == thread[t].cur IN
  \/ /\ thread'[t] = At(t, "render", k)
     /\ j \in Guests => ~Shape[thread[t].todo[k]].disabled
  \/ /\ Side(j) = "client" => Shape[thread[t].todo[k]].disabled
     /\ thread'[t].pc \in {"add", "idle", "applied"}
     /\ thread'[t].todo = Rest(t, k)
     /\ j \in Guests /\ thread'[t].pc # "add" => Present(Rest(t, k)) = {}

Publishes(j, t) ==
  LET k == thread[t].cur IN
  /\ thread[t].pc = "publish"
  /\ avail'[j] = avail[j] \union {k}
  /\ providers'[j] = providers[j] /\ renderers'[j] = renderers[j]
  /\ \/ j \notin Guests /\ thread'[t] = At(t, "announce", k)
     \/ hooked'[j] = TRUE /\ MovesOn(j, t)
  /\ OthersStay(j, t) /\ SameHeard(j)

Announces(j, t) ==
  /\ j \notin Guests
  /\ thread[t].pc = "announce"
  /\ providers'[j] = providers[j] /\ avail'[j] = avail[j]
  /\ renderers'[j] = renderers[j]
  /\ MovesOn(j, t)
  /\ OthersStay(j, t)

Renders(j, t) ==
  LET k == thread[t].cur
      d == thread[t].todo[k]
  IN /\ thread[t].pc = "render"
     /\ providers'[j] = providers[j] /\ avail'[j] = avail[j]
     /\ hooked'[j] = hooked[j]
     /\ Shape[d].renderer = "valid" => renderers'[j][k] = d
     /\ \A l \in Keys : renderers[j][l] # Absent => renderers'[j][l] # Absent
     /\ thread'[t].pc \in {"add", "idle", "applied"}
     /\ thread'[t].todo = Rest(t, k)
     /\ j \in Guests /\ thread'[t].pc # "add" => Present(Rest(t, k)) = {}
     /\ OthersStay(j, t) /\ SameHeard(j)

(* An exception ends the loop. *)
Fails(j, t) ==
  /\ \/ /\ thread[t].pc = "add"
        /\ \E k \in Present(thread[t].todo) : ~Loads(thread[t].todo[k], j)
     \/ /\ thread[t].pc = "announce" /\ j \notin Guests
        /\ ~Shape[thread[t].todo[thread[t].cur]].filters
     \/ /\ thread[t].pc = "render"
        /\ Shape[thread[t].todo[thread[t].cur]].renderer = "invalid"
  /\ thread'[t] = Idle
  /\ SameTables(j) /\ OthersStay(j, t) /\ SameHeard(j)

ThreadStep(j, t) ==
  \/ Begins(j, t)
  \/ Stalls(j, t)
  \/ \E e \in Entry : Adds(j, t, e)
  \/ Misses(j, t)
  \/ Publishes(j, t)
  \/ Announces(j, t)
  \/ Renders(j, t)
  \/ Fails(j, t)

(* A guest's own world: it loads an entry whole, or not quite, or ends. *)
OwnAdds(g, e) ==
  /\ g \in Guests
  /\ thread[g].pc = "home"
  /\ e.full
  /\ e.key \notin KeysOf(providers[g])
  /\ providers'[g] = Append(providers[g], e)
  /\ avail'[g] = avail[g] \union {e.key}
  /\ hooked[g] => hooked'[g]
  /\ Shape[e.def].filters /\ Shape[e.def].renderer = "valid" =>
       renderers'[g][e.key] # Absent
  /\ \A l \in Keys : renderers[g][l] # Absent => renderers'[g][l] # Absent
  /\ thread'[g] \in {thread[g], Idle}
  /\ SameHeard(g)

OwnEnds(g) ==
  /\ g \in Guests
  /\ thread[g].pc = "home" /\ thread'[g] = Idle
  /\ SameTables(g) /\ SameHeard(g)

JvmStep(j) ==
  \/ Stays(j)
  \/ Empties(j)
  \/ \E t \in Runs(j) : ThreadStep(j, t)
  \/ OwnEnds(j)
  \/ \E e \in Entry : OwnAdds(j, e)

(* The facts about names that every step needs. *)
LEMMA Names ==
  /\ Server \in Threads /\ Server \in Jvms /\ JvmOf(Server) = Server
  /\ \A p \in Players : /\ p \in Threads /\ p # Server /\ JvmOf(p) \in Jvms
                        /\ p # Owner => JvmOf(p) = p /\ p \in Guests
                        /\ p = Owner => JvmOf(p) = Server /\ Owner # NoOwner
  /\ \A g \in Guests : g \in Players /\ g \in Jvms /\ JvmOf(g) = g /\ g # Server
                       /\ Side(g) = "client" /\ g # Owner
  /\ \A t \in Threads, g \in Guests : JvmOf(t) = g => t = g
  /\ \A j \in Jvms, t \in Threads : SoleWriter(j) /\ JvmOf(t) = j => t = j
  /\ Owner \in Players => ~SoleWriter(Server)
  /\ Guests \subseteq Threads
BY JvmType, ThreadsAssumption
DEF Threads, Jvms, Guests, JvmOf, Side, SoleWriter

(* An add that stalls, or goes on. *)
LEMMA StallIsThread ==
  ASSUME TypeInv, NEW j \in Jvms, NEW t \in {Server, Owner}, NEW k \in Keys,
         Stall(t, k)
  PROVE  JvmStep(j)
<1>0. Owner \in Players /\ t \in Runs(Server) /\ t \in Threads
  BY Names DEF Stall, Runs
<1>1. /\ SameTables(j) /\ SameHeard(j)
      /\ thread' = [thread EXCEPT ![t] = At(t, "store", k)]
      /\ thread[t].pc = "add"
  BY DEF Stall, SameTables, SameHeard, tables
<1>2. OthersStay(j, t) /\ thread'[t].pc = "store"
  BY <1>0, <1>1, NextPc DEF TypeInv, TypeOK, OthersStay, Runs
<1>3. CASE j = Server
  <2>1. Stalls(j, t)
    BY <1>0, <1>1, <1>2, <1>3, Names DEF Stalls
  <2> QED BY <1>0, <1>3, <2>1 DEF JvmStep, ThreadStep
<1>4. CASE j # Server
  <2>1. t \notin Runs(j)
    BY <1>0, <1>4 DEF Runs
  <2> QED BY <1>1, <1>2, <2>1 DEF JvmStep, Stays, OthersStay
<1> QED BY <1>3, <1>4

LEMMA LateStoreIsThread ==
  ASSUME TypeInv, SeenInv, NEW j \in Jvms, Untainted(j)', NEW t \in Threads,
         LateStore(t)
  PROVE  JvmStep(j)
<1> DEFINE k == thread[t].cur
           e == [key |-> k, def |-> thread[t].todo[k], full |-> t = Server]
<1>0. /\ Owner \in Players /\ t \in {Server, Owner} /\ t \in Runs(Server)
      /\ ~SoleWriter(Server) /\ Server \notin Guests /\ TypeOK
  BY Names DEF LateStore, SeenInv, Runs, TypeInv
<1>1. /\ thread' = [thread EXCEPT ![t] = At(t, "publish", k)]
      /\ thread[t].pc = "store"
      /\ UNCHANGED <<avail, hooked, renderers, heard>>
  BY DEF LateStore
<1>2. OthersStay(j, t) /\ thread'[t] = At(t, "publish", k) /\ SameHeard(j)
  BY <1>0, <1>1 DEF TypeOK, OthersStay, Runs, SameHeard
<1>3. CASE j = Server
  <2>1. /\ e \in Entry
        /\ \/ providers' = [providers EXCEPT ![Server] = Append(@, e)]
           \/ providers' = providers
    BY <1>3, LateStoreUntainted DEF Untainted
  <2>2. e.key = k /\ e.def = thread[t].todo[k]
    OBVIOUS
  <2> HIDE DEF e
  <2>3. CASE providers' = providers
    <3>1. Misses(j, t)
      BY <1>0, <1>1, <1>2, <1>3, <2>3, NextPc DEF Misses, SameTables
    <3> QED BY <1>0, <1>3, <3>1 DEF JvmStep, ThreadStep
  <2>4. CASE providers' = [providers EXCEPT ![Server] = Append(@, e)]
    <3>1. providers'[j] = Append(providers[j], e)
      BY <1>0, <1>3, <2>4 DEF TypeOK
    <3>2. Adds(j, t, e)
      BY <1>0, <1>1, <1>2, <1>3, <2>2, <3>1 DEF Adds
    <3> QED BY <1>0, <1>3, <2>1, <3>2 DEF JvmStep, ThreadStep
  <2> QED BY <2>1, <2>3, <2>4
<1>4. CASE j # Server
  <2>1. t \notin Runs(j)
    BY <1>0, <1>4 DEF Runs
  <2>2. providers'[j] = providers[j]
    <3>1. providers' = providers \/ \E list : providers' = [providers EXCEPT ![Server] = list]
      BY Zenon DEF LateStore
    <3> QED BY <1>0, <1>4, <3>1 DEF TypeOK
  <2> QED BY <1>1, <1>2, <2>1, <2>2 DEF JvmStep, Stays, OthersStay, SameTables
<1> QED BY <1>3, <1>4

(* A step of apply(). *)
LEMMA ServerIsThread ==
  ASSUME TypeInv, SeenInv, ServerInv, NEW j \in Jvms, Untainted(j),
         ApplyStep, ~LateStore(Server)
  PROVE  JvmStep(j)
<1>0. TypeOK /\ Server \in Runs(Server) /\ Server \notin Guests
  BY Names DEF TypeInv, Runs
<1>1. ASSUME j # Server
      PROVE  Stays(j)
  <2>1. \A t \in Runs(j) : t # Server
    BY <1>1, Names DEF Runs
  <2>2. /\ SameHeard(j)
        /\ providers'[j] = providers[j] /\ avail'[j] = avail[j]
        /\ hooked'[j] = hooked[j] /\ renderers'[j] = renderers[j]
    BY <1>0, <1>1 DEF ApplyStep, ResetTables, ApplyAdd, ApplyAddFails, AbortApply,
       ApplyPublish, ApplyAnnounce, ApplyAnnounceFails, ApplyRender, RenderersWith, ApplyRenderFails, BroadcastSync,
       TypeOK, tables, SameHeard
  <2>3. \E s : thread' = [thread EXCEPT ![Server] = s]
    BY DEF ApplyStep, ResetTables, ApplyAdd, ApplyAddFails, AbortApply,
       ApplyPublish, ApplyAnnounce, ApplyAnnounceFails, ApplyRender,
       ApplyRenderFails, BroadcastSync
  <2>4. \A t \in Runs(j) : thread'[t] = thread[t]
    BY <1>0, <2>1, <2>3 DEF TypeOK, Runs
  <2> QED BY <2>2, <2>4 DEF Stays, SameTables
<1>2. ASSUME j = Server
      PROVE  JvmStep(Server)
  <2>0. ServerBody /\ SameHeard(Server)
    BY <1>0, <1>2 DEF ServerInv, Untainted, SameHeard
  <2>1. ASSUME NEW s, thread' = [thread EXCEPT ![Server] = s]
        PROVE  OthersStay(Server, Server) /\ thread'[Server] = s
    BY <2>1, Names DEF TypeInv, TypeOK, OthersStay, Runs
  <2>2. CASE ResetTables
    <3>1. thread'[Server].pc \in {"add", "idle", "applied"}
      BY <2>2, Names DEF ResetTables, TypeInv, TypeOK, At, ApplyEnd
    <3>2. avail'[Server] = {} /\ providers'[Server] = <<>>
      BY <2>0, <2>2, Names
      DEF ResetTables, TypeInv, TypeOK, ServerBody, ResetInv
    <3>3. /\ renderers'[Server] = renderers[Server]
          /\ \A t \in Runs(Server) : thread[t].pc \in Body => thread'[t] = thread[t]
      BY <2>1, <2>2 DEF ResetTables, OthersStay, Body
    <3>4. Empties(Server)
      BY <1>0, <3>1, <3>2, <3>3 DEF Empties
    <3> QED BY <3>4 DEF JvmStep
  <2>3. ASSUME NEW k \in Keys, ApplyAdd(k)
        PROVE  JvmStep(Server)
    <3> DEFINE e == [key |-> k, def |-> thread[Server].todo[k], full |-> TRUE]
    <3>1. e \in Entry /\ e.key = k /\ e.def = thread[Server].todo[k]
      BY <1>0, <2>3, Names, EntryType DEF ApplyAdd
    <3>2. providers'[Server] = Append(providers[Server], e)
      BY <1>0, <2>3, Names DEF ApplyAdd, TypeOK
    <3>3. thread' = [thread EXCEPT ![Server] = At(Server, "publish", k)]
      BY <2>3 DEF ApplyAdd
    <3>4. OthersStay(Server, Server) /\ thread'[Server] = At(Server, "publish", k)
      BY <2>1, <3>3
    <3> HIDE DEF e
    <3>5. Adds(Server, Server, e)
      BY <1>0, <2>0, <2>3, <3>1, <3>2, <3>4 DEF Adds, ApplyAdd
    <3> QED BY <1>0, <3>1, <3>5 DEF JvmStep, ThreadStep
  <2>4. ASSUME NEW k \in Keys, ApplyAddFails(k)
        PROVE  JvmStep(Server)
    <3>1. OthersStay(Server, Server) /\ thread'[Server] = Idle
      BY <2>1, <2>4 DEF ApplyAddFails, AbortApply
    <3>2. Fails(Server, Server)
      BY <2>0, <2>4, <3>1 DEF Fails, ApplyAddFails, SameTables, tables, Present
    <3> QED BY <1>0, <3>2 DEF JvmStep, ThreadStep
  <2>5. CASE ApplyPublish
    <3> DEFINE k == thread[Server].cur
    <3>1. thread' = [thread EXCEPT ![Server] = At(Server, "announce", k)]
      BY <2>5 DEF ApplyPublish
    <3>2. OthersStay(Server, Server) /\ thread'[Server] = At(Server, "announce", k)
      BY <2>1, <3>1
    <3>3. avail'[Server] = avail[Server] \union {k}
      BY <1>0, <2>5, Names DEF ApplyPublish, TypeOK
    <3>4. Publishes(Server, Server)
      BY <1>0, <2>0, <2>5, <3>2, <3>3 DEF Publishes, ApplyPublish
    <3> QED BY <1>0, <3>4 DEF JvmStep, ThreadStep
  <2>9. CASE ApplyAnnounceFails
    <3>1. OthersStay(Server, Server) /\ thread'[Server] = Idle
      BY <2>1, <2>9 DEF ApplyAnnounceFails, AbortApply
    <3>2. Fails(Server, Server)
      BY <1>0, <2>0, <2>9, <3>1 DEF Fails, ApplyAnnounceFails, SameTables, tables
    <3> QED BY <1>0, <3>2 DEF JvmStep, ThreadStep
  <2>10. CASE ApplyAnnounce
    <3> DEFINE k == thread[Server].cur
               next == IF Side(Server) = "server" THEN Continue(Server, k, ApplyEnd)
                       ELSE At(Server, "render", k)
    <3>1. OthersStay(Server, Server) /\ thread'[Server] = next
      BY <2>1, <2>10 DEF ApplyAnnounce
    <3>2. k \in Keys
      BY <1>0, <2>10, Names, CursorType DEF ApplyAnnounce, Inside
    <3>3. /\ Side(Server) = "server" => /\ next.pc \in {"add", "idle", "applied"}
                                        /\ next.todo = Rest(Server, k)
          /\ Side(Server) # "server" => next = At(Server, "render", k)
      BY <1>0, <3>2, Names, RestPresent DEF ApplyEnd
    <3> HIDE DEF next
    <3>4. /\ thread[Server].pc = "announce"
          /\ UNCHANGED <<providers, avail, renderers>>
      BY <2>10 DEF ApplyAnnounce
    <3>5. Side(Server) = "client" \/ Side(Server) = "server"
      BY DEF Side
    <3>6. Announces(Server, Server)
      BY <1>0, <2>0, <3>1, <3>3, <3>4, <3>5 DEF Announces, MovesOn
    <3> QED BY <1>0, <3>6 DEF JvmStep, ThreadStep
  <2>6. CASE ApplyRender
    <3> DEFINE k == thread[Server].cur
               d == thread[Server].todo[k]
    <3>1. OthersStay(Server, Server) /\ thread'[Server] = Continue(Server, k, ApplyEnd)
      BY <2>1, <2>6 DEF ApplyRender
    <3>2. k \in Keys /\ d \in Defs /\ d # Absent
      BY <1>0, <2>6, Names, CursorType, AbsentAssumption DEF ApplyRender, Inside
    <3>3. /\ thread'[Server].pc \in {"add", "idle", "applied"}
          /\ thread'[Server].todo = Rest(Server, k)
      BY <1>0, <3>1, <3>2, Names, RestPresent DEF ApplyEnd
    <3>4. /\ Shape[d].renderer = "valid" => renderers'[Server][k] = d
          /\ \A l \in Keys : renderers[Server][l] # Absent => renderers'[Server][l] # Absent
      BY <1>0, <2>6, <3>2, Names DEF ApplyRender, RenderersWith, TypeOK, Tags
    <3>5. Renders(Server, Server)
      BY <1>0, <2>0, <2>6, <3>1, <3>3, <3>4 DEF Renders, ApplyRender
    <3> QED BY <1>0, <3>5 DEF JvmStep, ThreadStep
  <2>7. CASE ApplyRenderFails
    <3>1. OthersStay(Server, Server) /\ thread'[Server] = Idle
      BY <2>1, <2>7 DEF ApplyRenderFails, AbortApply
    <3>2. Fails(Server, Server)
      BY <2>0, <2>7, <3>1 DEF Fails, ApplyRenderFails, SameTables, tables
    <3> QED BY <1>0, <3>2 DEF JvmStep, ThreadStep
  <2>8. CASE BroadcastSync
    <3>1. OthersStay(Server, Server) /\ thread'[Server] = Idle
      BY <2>1, <2>8 DEF BroadcastSync
    <3>2. Begins(Server, Server)
      BY <1>0, <2>8, <3>1 DEF Begins, BroadcastSync, SameTables, tables, Idle
    <3> QED BY <1>0, <3>2 DEF JvmStep, ThreadStep
  <2> QED
    BY <2>2, <2>3, <2>4, <2>5, <2>6, <2>7, <2>8, <2>9, <2>10 DEF ApplyStep
<1> QED BY <1>1, <1>2 DEF JvmStep

(* A step of the loop of a client's main thread. *)
LEMMA ClientIsThread ==
  ASSUME TypeInv, NEW j \in Jvms, NEW p \in Players, ClientStep(p), ~LateStore(p)
  PROVE  JvmStep(j)
<1>0. /\ TypeOK /\ p \in Threads /\ JvmOf(p) \in Jvms /\ p # Server
      /\ \A g \in Guests : JvmOf(p) = g <=> p = g
  BY Names DEF TypeInv
<1>1. ASSUME JvmOf(p) # j
      PROVE  Stays(j)
  <2>1. \A t \in Runs(j) : t # p
    BY <1>1 DEF Runs
  <2>2. j \in Guests => j # p
    BY <1>0, <1>1
  <2>3. SameHeard(j)
    BY <1>0, <2>2, Names DEF ClientStep, BeginPacket, ClientAdd, ClientAddFails,
       ClientPublish, ClientRender, ClientRenderFails, TypeOK, SameHeard
  <2>4. /\ providers'[j] = providers[j] /\ avail'[j] = avail[j]
        /\ hooked'[j] = hooked[j] /\ renderers'[j] = renderers[j]
    BY <1>0, <1>1 DEF ClientStep, BeginPacket, ClientAdd, ClientAddFails,
       ClientPublish, ClientRender, ClientRenderFails, RenderersWith, TypeOK, tables
  <2>5. \E s : thread' = [thread EXCEPT ![p] = s]
    BY DEF ClientStep, BeginPacket, ClientAdd, ClientAddFails,
       ClientPublish, ClientRender, ClientRenderFails
  <2>6. \A t \in Runs(j) : thread'[t] = thread[t]
    BY <1>0, <2>1, <2>5 DEF TypeOK, Runs
  <2> QED BY <2>3, <2>4, <2>6 DEF Stays, SameTables
<1>2. ASSUME j = JvmOf(p)
      PROVE  JvmStep(j)
  <2>0. p \in Runs(j) /\ (j \in Guests => j = p)
    BY <1>0, <1>2 DEF Runs
  <2>1. ASSUME NEW s, thread' = [thread EXCEPT ![p] = s]
        PROVE  OthersStay(j, p) /\ thread'[p] = s
    BY <1>0, <2>1 DEF TypeOK, OthersStay, Runs
  <2>2. CASE BeginPacket(p)
    <3> DEFINE next == IF Present(Head(inbox[p])) = {} THEN Idle
                       ELSE [pc |-> "add", todo |-> Head(inbox[p]), cur |-> Absent]
    <3>1. OthersStay(j, p) /\ thread'[p] = next
      BY <2>1, <2>2 DEF BeginPacket
    <3>2. next.pc \in {"idle", "add"}
      BY DEF Idle
    <3> HIDE DEF next
    <3>3. Begins(j, p)
      BY <2>0, <2>2, <3>1, <3>2 DEF Begins, BeginPacket, SameTables, tables
    <3> QED BY <2>0, <3>3 DEF JvmStep, ThreadStep
  <2>3. ASSUME NEW k \in Keys, ClientAdd(p, k)
        PROVE  JvmStep(j)
    <3> DEFINE e == [key |-> k, def |-> thread[p].todo[k], full |-> FALSE]
    <3>1. e \in Entry /\ e.key = k /\ e.def = thread[p].todo[k] /\ ~e.full
      BY <1>0, <2>3, EntryType DEF ClientAdd
    <3>2. providers'[j] = Append(providers[j], e)
      BY <1>0, <1>2, <2>3 DEF ClientAdd, TypeOK
    <3>3. thread' = [thread EXCEPT ![p] = At(p, "publish", k)]
      BY <2>3 DEF ClientAdd
    <3>4. OthersStay(j, p) /\ thread'[p] = At(p, "publish", k)
      BY <2>1, <3>3
    <3> HIDE DEF e
    <3>5. Adds(j, p, e)
      BY <2>3, <3>1, <3>2, <3>4 DEF Adds, ClientAdd, SameHeard
    <3> QED BY <2>0, <3>1, <3>5 DEF JvmStep, ThreadStep
  <2>4. ASSUME NEW k \in Keys, ClientAddFails(p, k)
        PROVE  JvmStep(j)
    <3>1. OthersStay(j, p) /\ thread'[p] = Idle
      BY <2>1, <2>4 DEF ClientAddFails
    <3>2. Fails(j, p)
      BY <1>2, <2>4, <3>1 DEF Fails, ClientAddFails, SameTables, SameHeard, tables, Present
    <3> QED BY <2>0, <3>2 DEF JvmStep, ThreadStep
  <2>5. CASE ClientPublish(p)
    <3> DEFINE k == thread[p].cur
    <3>1. OthersStay(j, p) /\ thread'[p] = AfterPublish(p)
      BY <2>1, <2>5 DEF ClientPublish
    <3>2. k \in Keys
      BY <1>0, <2>5, CursorType DEF ClientPublish, Inside
    <3>3. \/ /\ AfterPublish(p) = At(p, "render", k)
             /\ ~Shape[thread[p].todo[k]].disabled
          \/ /\ Shape[thread[p].todo[k]].disabled
             /\ AfterPublish(p) = Continue(p, k, "idle")
      BY DEF AfterPublish
    <3>4. /\ Continue(p, k, "idle").pc \in {"add", "idle"}
          /\ Continue(p, k, "idle").todo = Rest(p, k)
          /\ Continue(p, k, "idle").pc # "add" => Present(Rest(p, k)) = {}
      BY DEF Continue
    <3>5. /\ thread[p].pc = "publish"
          /\ avail'[j] = avail[j] \union {k}
          /\ hooked'[j] = TRUE
          /\ providers' = providers /\ renderers' = renderers
      BY <1>0, <1>2, <2>5 DEF ClientPublish, TypeOK
    <3>6. SameHeard(j)
      BY <2>5 DEF ClientPublish, SameHeard
    <3>7. Publishes(j, p)
      BY <3>1, <3>3, <3>4, <3>5, <3>6 DEF Publishes, MovesOn
    <3> QED BY <2>0, <3>7 DEF JvmStep, ThreadStep
  <2>6. CASE ClientRender(p)
    <3> DEFINE k == thread[p].cur
               d == thread[p].todo[k]
    <3>1. OthersStay(j, p) /\ thread'[p] = Continue(p, k, "idle")
      BY <2>1, <2>6 DEF ClientRender
    <3>2. k \in Keys /\ d \in Defs /\ d # Absent
      BY <1>0, <2>6, CursorType, AbsentAssumption DEF ClientRender, Inside
    <3>3. /\ thread'[p].pc \in {"add", "idle"}
          /\ thread'[p].todo = Rest(p, k)
          /\ thread'[p].pc # "add" => Present(Rest(p, k)) = {}
      BY <3>1 DEF Continue
    <3>4. /\ Shape[d].renderer = "valid" => renderers'[j][k] = d
          /\ \A l \in Keys : renderers[j][l] # Absent => renderers'[j][l] # Absent
      BY <1>0, <1>2, <2>6, <3>2 DEF ClientRender, RenderersWith, TypeOK, Tags
    <3>5. Renders(j, p)
      BY <2>6, <3>1, <3>3, <3>4 DEF Renders, ClientRender, SameHeard
    <3> QED BY <2>0, <3>5 DEF JvmStep, ThreadStep
  <2>7. CASE ClientRenderFails(p)
    <3>1. OthersStay(j, p) /\ thread'[p] = Idle
      BY <2>1, <2>7 DEF ClientRenderFails
    <3>2. Fails(j, p)
      BY <2>7, <3>1 DEF Fails, ClientRenderFails, SameTables, SameHeard, tables
    <3> QED BY <2>0, <3>2 DEF JvmStep, ThreadStep
  <2> QED BY <2>2, <2>3, <2>4, <2>5, <2>6, <2>7 DEF ClientStep
<1> QED BY <1>1, <1>2 DEF JvmStep

(* A guest's own world. *)
LEMMA OwnWorldIsJvmStep ==
  ASSUME TypeInv, NEW j \in Jvms, NEW g \in Guests, OwnWorldStep(g)
  PROVE  JvmStep(j)
<1>0. TypeOK /\ g \in Jvms /\ g \in Threads /\ g \in Players
  BY Names DEF TypeInv
<1>1. CASE j # g
  <2>1. \A t \in Runs(j) : t # g
    BY <1>1, Names DEF Runs
  <2>2. /\ SameHeard(j)
        /\ providers'[j] = providers[j] /\ avail'[j] = avail[j]
        /\ hooked'[j] = hooked[j] /\ renderers'[j] = renderers[j]
    BY <1>0, <1>1 DEF OwnWorldStep, OwnWorldStarts, OwnWorldLoads, OwnWorldEnds,
       RenderersWith, TypeOK, tables, SameHeard, Guests
  <2>3. \E s : thread' = thread \/ thread' = [thread EXCEPT ![g] = s]
    BY DEF OwnWorldStep, OwnWorldStarts, OwnWorldLoads, OwnWorldEnds
  <2>4. \A t \in Runs(j) : thread'[t] = thread[t]
    BY <1>0, <2>1, <2>3 DEF TypeOK, Runs
  <2> QED BY <2>2, <2>4 DEF JvmStep, Stays, SameTables
<1>2. CASE j = g /\ OwnWorldStarts(g)
  <2>1. /\ providers'[j] = <<>> /\ avail'[j] = {} /\ heard'[j] = {}
        /\ renderers'[j] = renderers[j]
        /\ thread'[j].pc = "home" /\ thread[j].pc = "idle"
    BY <1>0, <1>2 DEF OwnWorldStarts, TypeOK, Idle
  <2>2. \A t \in Runs(j) : thread[t].pc \in Body => thread'[t] = thread[t]
    BY <1>2, <2>1, Names DEF Runs, Body
  <2>3. Empties(j)
    BY <1>2, <2>1, <2>2 DEF Empties
  <2> QED BY <2>3 DEF JvmStep
<1>3. ASSUME j = g, NEW k \in Keys, NEW d \in OwnDefs, OwnWorldLoads(g, k, d)
      PROVE  JvmStep(j)
  <2> DEFINE e == [key |-> k, def |-> d, full |-> TRUE]
  <2>1. e \in Entry /\ e.key = k /\ e.def = d /\ e.full /\ d # Absent
    BY OwnDefsAssumption, AbsentAssumption DEF Entry
  <2>2. /\ providers'[g] = Append(providers[g], e)
        /\ avail'[g] = avail[g] \union {k}
    BY <1>0, <1>3 DEF OwnWorldLoads, TypeOK
  <2>3. hooked[g] => hooked'[g]
    BY <1>0, <1>3 DEF OwnWorldLoads, TypeOK
  <2>4. /\ Shape[d].filters /\ Shape[d].renderer = "valid" =>
             renderers'[g][k] # Absent
        /\ \A l \in Keys : renderers[g][l] # Absent => renderers'[g][l] # Absent
    BY <1>0, <1>3, <2>1 DEF OwnWorldLoads, RenderersWith, TypeOK, Tags
  <2>5. thread'[g] \in {thread[g], Idle}
    BY <1>0, <1>3 DEF OwnWorldLoads, TypeOK
  <2>6. /\ thread[g].pc = "home" /\ k \notin KeysOf(providers[g])
        /\ SameHeard(g)
    BY <1>3 DEF OwnWorldLoads, SameHeard
  <2> HIDE DEF e
  <2>7. OwnAdds(g, e)
    BY <2>1, <2>2, <2>3, <2>4, <2>5, <2>6 DEF OwnAdds
  <2> QED BY <1>3, <2>1, <2>7 DEF JvmStep
<1>4. CASE j = g /\ OwnWorldEnds(g)
  <2>1. OwnEnds(g)
    BY <1>0, <1>4 DEF OwnEnds, OwnWorldEnds, SameTables, SameHeard, tables, TypeOK
  <2> QED BY <1>4, <2>1 DEF JvmStep
<1> QED BY <1>1, <1>2, <1>3, <1>4 DEF OwnWorldStep

LEMMA StartEmpties ==
  ASSUME TypeInv, NEW t \in Tags, StartApply(t)
  PROVE  Empties(Server)
<1>1. providers'[Server] = <<>> /\ thread'[Server].pc = "reset"
  BY Names DEF StartApply, TypeInv, TypeOK
<1>2. /\ renderers'[Server] = renderers[Server]
      /\ \A u \in Runs(Server) : thread[u].pc \in Body => thread'[u] = thread[u]
  BY DEF StartApply, TypeInv, TypeOK, Runs, Body
<1> QED BY <1>1, <1>2, Names DEF Empties, NotReset

(* Every step of the system, unless it is a collision with apply(), is one *)
(* of those to any JVM.                                                    *)
LEMMA NextIsJvmStep ==
  ASSUME TypeInv, SeenInv, ServerInv, NEW j \in Jvms, Untainted(j)', [Next]_vars
  PROVE  JvmStep(j)
<1>0. TypeOK
  BY DEF TypeInv
<1>1. CASE ApplyStep
  <2>1. ~LateStore(Server) => Untainted(j)
    BY <1>1, Zenon DEF ApplyStep, ResetTables, ApplyAdd, ApplyAddFails, AbortApply,
       ApplyPublish, ApplyAnnounce, ApplyAnnounceFails, ApplyRender,
       ApplyRenderFails, BroadcastSync, Untainted
  <2> QED BY <1>1, <2>1, ServerIsThread, LateStoreIsThread, Names
<1>2. ASSUME NEW p \in Players, ClientStep(p)
      PROVE  JvmStep(j)
  BY <1>2, ClientIsThread, LateStoreIsThread, Names
<1>10. ASSUME NEW t \in {Server, Owner}, NEW k \in Keys, Stall(t, k)
       PROVE  JvmStep(j)
  BY <1>10, StallIsThread
<1>11. ASSUME NEW g \in Guests, OwnWorldStep(g)
       PROVE  JvmStep(j)
  BY <1>11, OwnWorldIsJvmStep
<1>3. ASSUME NEW t \in Tags, StartApply(t)
      PROVE  JvmStep(j)
  <2>1. CASE j = Server
    BY <1>3, <2>1, StartEmpties DEF JvmStep
  <2>2. CASE j # Server
    <3>1. \A u \in Runs(j) : u # Server
      BY <2>2, Names DEF Runs
    <3>2. Stays(j)
      BY <1>0, <1>3, <2>2, <3>1 DEF StartApply, TypeOK, Stays, SameTables, SameHeard, Runs
    <3> QED BY <3>2 DEF JvmStep
  <2> QED BY <2>1, <2>2
<1>4. CASE RacePublish \/ RaceRender
  <2>1. tainted' = TRUE /\ Owner \in Players
    BY <1>4, Zenon DEF RacePublish, RaceRender, BothAt
  <2>2. j # Server
    BY <2>1 DEF Untainted
  <2>3. \A u \in Runs(j) : u # Server /\ u # Owner
    BY <2>1, <2>2, Names DEF Runs
  <2>4. SameTables(j) /\ SameHeard(j)
    BY <1>0, <1>4, <2>2 DEF RacePublish, RaceRender,
       RenderersWith, TypeOK, SameTables, SameHeard
  <2>5. \E a, b : thread' = [thread EXCEPT ![Server] = a, ![Owner] = b]
    BY <1>4, Zenon DEF RacePublish, RaceRender
  <2>6. \A u \in Runs(j) : thread'[u] = thread[u]
    BY <1>0, <2>3, <2>5 DEF TypeOK, Runs
  <2> QED BY <2>4, <2>6 DEF JvmStep, Stays
<1>5. ASSUME NEW p \in Players, Join(p) \/ Leave(p)
      PROVE  JvmStep(j)
  <2>1. /\ tables' = tables /\ thread' = thread /\ heard' = heard
    BY <1>5, Zenon DEF Join, Leave
  <2> QED BY <2>1 DEF JvmStep, Stays, SameTables, SameHeard, tables
<1>6. ASSUME NEW p \in Players, RestartClient(p)
      PROVE  JvmStep(j)
  <2>0. p \in Guests /\ p \in Jvms /\ p \in Threads
    BY <1>6, Names DEF RestartClient
  <2>1. CASE j = p
    <3>1. /\ providers'[j] = <<>> /\ avail'[j] = {} /\ heard'[j] = {}
          /\ thread'[j] = Idle
      BY <1>0, <1>6, <2>0, <2>1 DEF RestartClient, TypeOK, Guests
    <3>2. Empties(j)
      BY <1>6, <2>0, <2>1, <3>1 DEF Empties, Idle
    <3> QED BY <3>2 DEF JvmStep
  <2>2. CASE j # p
    <3>1. \A u \in Runs(j) : u # p
      BY <2>0, <2>2, Names DEF Runs
    <3>2. Stays(j)
      BY <1>0, <1>6, <2>2, <3>1
      DEF RestartClient, TypeOK, Stays, SameTables, SameHeard, Runs
    <3> QED BY <3>2 DEF JvmStep
  <2> QED BY <2>1, <2>2
<1>7. CASE StopServer
  <2>1. thread' = thread /\ heard' = heard /\ thread[Server].pc = "idle"
    BY <1>7, Zenon DEF StopServer
  <2>2. CASE Owner # NoOwner \/ j # Server
    <3>1. SameTables(j)
      <4>1. CASE Owner # NoOwner
        <5>1. tables' = tables
          BY <1>7, <4>1, Zenon DEF StopServer
        <5> QED BY <5>1 DEF SameTables, tables
      <4>2. CASE Owner = NoOwner /\ j # Server
        BY <1>0, <1>7, <4>2 DEF StopServer, SameTables, TypeOK
      <4> QED BY <2>2, <4>1, <4>2
    <3> QED BY <2>1, <3>1 DEF JvmStep, Stays, SameHeard
  <2>3. CASE Owner = NoOwner /\ j = Server
    <3>1. providers'[j] = <<>> /\ avail'[j] = {}
      BY <1>0, <1>7, <2>3 DEF StopServer, TypeOK
    <3>2. Empties(j)
      BY <2>1, <2>3, <3>1, Names DEF Empties, Side
    <3> QED BY <3>2 DEF JvmStep
  <2> QED BY <2>2, <2>3
<1>8. CASE UNCHANGED vars
  BY <1>8 DEF vars, tables, JvmStep, Stays, SameTables, SameHeard
<1>9. \/ ApplyStep \/ RacePublish \/ RaceRender \/ StopServer \/ UNCHANGED vars
      \/ \E t \in Tags : StartApply(t)
      \/ \E p \in Players :
           ClientStep(p) \/ Join(p) \/ Leave(p) \/ RestartClient(p)
      \/ \E t \in {Server, Owner}, k \in Keys : Stall(t, k)
      \/ \E g \in Guests : OwnWorldStep(g)
  BY Zenon DEF Next, RaceStep
<1> QED
  BY <1>1, <1>2, <1>3, <1>4, <1>5, <1>6, <1>7, <1>8, <1>9, <1>10, <1>11

(* No step but a new apply() makes a spoiled reload good. *)
LEMMA TaintedStays ==
  ASSUME TypeInv, [Next]_vars, NEW j \in Jvms, Untainted(j)'
  PROVE  Untainted(j) \/ Empties(j)
<1>1. tainted /\ ~tainted' => \E t \in Tags : StartApply(t)
  BY StaysTainted
<1>2. ASSUME NEW t \in Tags, StartApply(t), j = Server
      PROVE  Empties(j)
  BY <1>2, StartEmpties
<1> QED BY <1>1, <1>2 DEF Untainted

-----------------------------------------------------------------------------
(* The list of models the editor offers.                                   *)

PublishingKey(j, k) ==
  \E t \in Runs(j) : thread[t].pc = "publish" /\ thread[t].cur = k

(* A provider is offered, or the thread that added it is about to.         *)
OfferedInv(j) ==
  Untainted(j) /\ NotReset(j) =>
    \A k \in KeysOf(providers[j]) : k \in avail[j] \/ PublishingKey(j, k)

(* Where no other thread interferes, what is offered has a provider; for   *)
(* that, the provider of a key about to be offered must still be there.    *)
BoundInv(j) ==
  SoleWriter(j) /\ Untainted(j) /\ NotReset(j) =>
    /\ avail[j] \subseteq KeysOf(providers[j])
    /\ thread[j].pc = "publish" => thread[j].cur \in KeysOf(providers[j])

PickerInv(j) == OfferedInv(j) /\ BoundInv(j)

LEMMA JvmStepPicker ==
  ASSUME TypeInv, TypeInv', NEW j \in Jvms, PickerInv(j), JvmStep(j),
         Untainted(j) \/ Empties(j)
  PROVE  PickerInv(j)'
<1>0. /\ TypeOK /\ TypeOK' /\ providers[j] \in Seq(Entry)
      /\ (SoleWriter(j) => j \in Runs(j) /\ Runs(j) = {j})
      /\ SoleWriter(j) <=> SoleWriter(j)'
      /\ \A t \in Runs(j) : t \in Threads
      /\ (j = Server => Server \in Runs(j))
      /\ KeysOf(<<>>) = {}
  <2>1. SoleWriter(j) => j \in Runs(j) /\ Runs(j) = {j}
    <3>1. j \in Threads /\ JvmOf(j) = j
      BY Names DEF Jvms, Threads
    <3> QED BY <3>1, Names DEF Runs
  <2>2. TypeOK /\ TypeOK' /\ providers[j] \in Seq(Entry)
    BY DEF TypeInv, TypeOK
  <2> QED BY <2>1, <2>2, Names, ResolveEmpty DEF Runs, SoleWriter
<1>1. CASE Stays(j) /\ Untainted(j)
  <2>1. /\ NotReset(j)' <=> NotReset(j)
        /\ \A k : PublishingKey(j, k)' <=> PublishingKey(j, k)
        /\ providers'[j] = providers[j] /\ avail'[j] = avail[j]
        /\ (SoleWriter(j) => thread'[j] = thread[j])
    BY <1>0, <1>1 DEF Stays, SameTables, NotReset, PublishingKey, Runs
  <2> QED BY <1>0, <1>1, <2>1 DEF PickerInv, OfferedInv, BoundInv
<1>2. CASE Empties(j)
  BY <1>0, <1>2 DEF Empties, PickerInv, OfferedInv, BoundInv
<1>3. ASSUME NEW t \in Runs(j), ThreadStep(j, t), Untainted(j)
      PROVE  PickerInv(j)'
  <2>0. /\ OthersStay(j, t)
        /\ \A k : PublishingKey(j, k) => PublishingKey(j, k)' \/ thread[t].pc = "publish"
        /\ (SoleWriter(j) => t = j)
        /\ thread[t].pc # "reset"
        /\ thread'[t].pc # "reset"
    <3>1. OthersStay(j, t) /\ thread[t].pc # "reset"
      BY <1>3 DEF ThreadStep, Begins, Stalls, Adds, Misses, Publishes, Announces,
         Renders, Fails
    <3>2. thread'[t].pc # "reset"
      BY <1>3, NextPc DEF ThreadStep, Begins, Stalls, Adds, Misses, Publishes,
         Announces, MovesOn, Renders, Fails
    <3> QED BY <1>0, <3>1, <3>2 DEF OthersStay, PublishingKey, Runs
  <2>1. NotReset(j)' <=> NotReset(j)
    BY <1>0, <2>0 DEF NotReset, OthersStay
  <2>2. CASE \/ Begins(j, t) \/ Stalls(j, t) \/ Misses(j, t) \/ Announces(j, t)
             \/ Renders(j, t) \/ Fails(j, t)
    <3>1. /\ providers'[j] = providers[j] /\ avail'[j] = avail[j]
          /\ thread[t].pc # "publish"
          /\ SoleWriter(j) => thread'[t].pc # "publish"
      BY <2>2, NextPc DEF Begins, Stalls, Misses, Announces, MovesOn, Renders, Fails,
         SameTables
    <3> QED BY <1>0, <1>3, <2>0, <2>1, <3>1 DEF PickerInv, OfferedInv, BoundInv
  <2>3. ASSUME NEW e \in Entry, Adds(j, t, e)
        PROVE  PickerInv(j)'
    <3>1. /\ KeysOf(providers'[j]) = KeysOf(providers[j]) \union {e.key}
          /\ avail'[j] = avail[j] /\ thread[t].pc # "publish"
          /\ thread'[t].pc = "publish" /\ thread'[t].cur = e.key
      BY <1>0, <2>3, ResolveAppend DEF Adds, At
    <3>2. PublishingKey(j, e.key)'
      BY <3>1 DEF PublishingKey, Runs
    <3>3. OfferedInv(j)'
      BY <1>3, <2>0, <2>1, <3>1, <3>2 DEF PickerInv, OfferedInv
    <3>4. BoundInv(j)'
      BY <1>0, <1>3, <2>0, <2>1, <3>1 DEF PickerInv, BoundInv
    <3> QED BY <3>3, <3>4 DEF PickerInv
  <2>4. CASE Publishes(j, t)
    <3> DEFINE k == thread[t].cur
    <3>1. /\ providers'[j] = providers[j]
          /\ avail'[j] = avail[j] \union {k}
          /\ thread[t].pc = "publish" /\ thread'[t].pc # "publish"
      BY <2>4, NextPc DEF Publishes, MovesOn
    <3>2. \A l : PublishingKey(j, l) /\ l # k => PublishingKey(j, l)'
      BY <2>0, <3>1 DEF PublishingKey, OthersStay, Runs
    <3>3. OfferedInv(j)'
      BY <1>0, <1>3, <2>1, <3>1, <3>2 DEF PickerInv, OfferedInv
    <3>4. BoundInv(j)'
      BY <1>0, <1>3, <2>0, <2>1, <3>1 DEF PickerInv, BoundInv
    <3> QED BY <3>3, <3>4 DEF PickerInv
  <2> QED BY <1>3, <2>2, <2>3, <2>4 DEF ThreadStep
<1>4. CASE OwnEnds(j) \/ \E e \in Entry : OwnAdds(j, e)
  <2>1. j \in Guests /\ SoleWriter(j) /\ SoleWriter(j)' /\ NotReset(j)
    BY <1>4, Names DEF OwnEnds, OwnAdds, SoleWriter, NotReset
  <2>2. thread[j].pc # "publish" /\ thread'[j].pc # "publish"
    BY <1>4, NextPc DEF OwnEnds, OwnAdds
  <2>3. \A k : ~PublishingKey(j, k)
    BY <1>0, <2>1, <2>2 DEF PublishingKey
  <2>4. CASE OwnEnds(j)
    <3>1. providers'[j] = providers[j] /\ avail'[j] = avail[j]
      BY <2>4 DEF OwnEnds, SameTables
    <3> QED
      BY <2>1, <2>2, <2>3, <3>1, Names
      DEF PickerInv, OfferedInv, BoundInv, Untainted
  <2>5. ASSUME NEW e \in Entry, OwnAdds(j, e)
        PROVE  PickerInv(j)'
    <3>1. /\ KeysOf(providers'[j]) = KeysOf(providers[j]) \union {e.key}
          /\ avail'[j] = avail[j] \union {e.key}
      BY <1>0, <2>5, ResolveAppend DEF OwnAdds
    <3> QED
      BY <2>1, <2>2, <2>3, <3>1, Names
      DEF PickerInv, OfferedInv, BoundInv, Untainted
  <2> QED BY <1>4, <2>4, <2>5
<1> QED BY <1>1, <1>2, <1>3, <1>4 DEF JvmStep

LEMMA InitPicker == Init => \A j \in Jvms : PickerInv(j)
BY ResolveEmpty, Names DEF Init, PickerInv, OfferedInv, BoundInv, Idle, SoleWriter,
   Threads, Jvms, Guests

LEMMA NextPicker ==
  ASSUME TypeInv, TypeInv', SeenInv, ServerInv, \A j \in Jvms : PickerInv(j), [Next]_vars
  PROVE  \A j \in Jvms : PickerInv(j)'
<1> SUFFICES ASSUME NEW j \in Jvms PROVE PickerInv(j)'
  OBVIOUS
<1>1. CASE Untainted(j)'
  <2>1. Untainted(j) \/ Empties(j)
    BY <1>1, TaintedStays
  <2>2. JvmStep(j)
    BY <1>1, NextIsJvmStep
  <2> QED BY <2>1, <2>2, JvmStepPicker
<1>2. CASE ~Untainted(j)'
  BY <1>2 DEF PickerInv, OfferedInv, BoundInv
<1> QED BY <1>1, <1>2

(* What the editor offers and the providers agree in every JVM, whatever   *)
(* reloads, packets, failures and restarts came before: every provider can *)
(* be picked, and where no second thread writes the tables every name that *)
(* can be picked has a provider.                                           *)
THEOREM PickerIsRight == Spec => []PickerMatchesProviders
<1>1. TypeInv /\ TypeInv' /\ SeenInv /\ ServerInv /\ (\A j \in Jvms : PickerInv(j)) /\ [Next]_vars
        => (\A j \in Jvms : PickerInv(j))'
  BY NextPicker
<1>2. (\A j \in Jvms : PickerInv(j)) => PickerMatchesProviders
  BY DEF PickerInv, OfferedInv, BoundInv, PickerMatchesProviders, PublishingKey,
     NonePublishing, Runs, Untainted, NotReset, SoleWriter
<1> QED
  BY InitPicker, TypeInvariant, SeenInvariant, ServerInvariant, <1>1, <1>2, PTL DEF Spec

-----------------------------------------------------------------------------
(* Renderers.                                                              *)

NamesRenderer(d) ==
  ~Shape[d].disabled /\ Shape[d].filters /\ Shape[d].renderer = "valid"

(* A thread of j has added entry e and is yet to register its renderer. *)
InBody(j, e) ==
  \E t \in Runs(j) :
    /\ thread[t].pc \in Body
    /\ thread[t].cur = e.key
    /\ thread[t].todo[e.key] = e.def

(* Entry e has the renderer it names, or is going to get it. *)
Served(j, e) == renderers[j][e.key] # Absent \/ InBody(j, e)

(* Not only the entries that are looked up: any entry of the list.  An     *)
(* entry further back would come to the front if one were ever removed.    *)
RendererInv(j) ==
  Untainted(j) /\ Side(j) = "client" =>
    \A i \in DOMAIN providers[j] :
      NamesRenderer(providers[j][i].def) => Served(j, providers[j][i])

(* Once it has its renderer, or a thread that sees to it, an entry keeps   *)
(* it while the process lasts, also when the entry itself is gone.         *)
LEMMA ServedStays ==
  ASSUME TypeInv, NEW j \in Jvms, Side(j) = "client",
         NEW e \in Entry, NamesRenderer(e.def), Served(j, e),
         \/ Stays(j) \/ \E t \in Runs(j) : ThreadStep(j, t)
         \/ OwnEnds(j) \/ \E f \in Entry : OwnAdds(j, f)
  PROVE  Served(j, e)'
<1>0. TypeOK /\ e.key \in Keys /\ e.def # Absent /\ \A t \in Runs(j) : t \in Threads
  BY AbsentAssumption DEF TypeInv, Entry, Runs
<1>1. CASE Stays(j)
  BY <1>1 DEF Stays, SameTables, Served, InBody, Runs
<1>2. ASSUME NEW t \in Runs(j), ThreadStep(j, t)
      PROVE  Served(j, e)'
  <2>1. CASE renderers[j][e.key] # Absent
    BY <1>0, <1>2, <2>1 DEF ThreadStep, Begins, Stalls, Adds, Misses, Publishes,
       Announces, Renders, Fails, SameTables, Served
  <2>2. ASSUME NEW u \in Runs(j), u # t, thread[u].pc \in Body,
               thread[u].cur = e.key, thread[u].todo[e.key] = e.def
        PROVE  Served(j, e)'
    <3>1. thread'[u] = thread[u]
      BY <1>2, <2>2 DEF ThreadStep, Begins, Stalls, Adds, Misses, Publishes,
         Announces, Renders, Fails, OthersStay
    <3> QED BY <2>2, <3>1 DEF Served, InBody, Runs
  <2>3. CASE /\ thread[t].pc \in Body /\ thread[t].cur = e.key
             /\ thread[t].todo[e.key] = e.def
    <3>1. CASE Publishes(j, t) \/ Announces(j, t)
      <4>1. \E step \in {"announce", "render"} : thread'[t] = At(t, step, e.key)
        BY <2>3, <3>1 DEF Publishes, Announces, MovesOn, NamesRenderer
      <4>2. \A step : /\ At(t, step, e.key).pc = step
                      /\ At(t, step, e.key).cur = e.key
                      /\ At(t, step, e.key).todo = thread[t].todo
        BY DEF At
      <4>3. /\ thread'[t].pc \in Body /\ thread'[t].cur = e.key
            /\ thread'[t].todo[e.key] = e.def
        BY <2>3, <4>1, <4>2 DEF Body
      <4> QED BY <4>3 DEF Served, InBody, Runs
    <3>2. CASE Renders(j, t)
      BY <1>0, <2>3, <3>2 DEF Renders, Served, NamesRenderer
    <3>3. CASE Fails(j, t)
      BY <2>3, <3>3 DEF Fails, NamesRenderer, Body
    <3>4. thread[t].pc \notin {"idle", "applied", "add", "store"}
      BY <2>3 DEF Body
    <3> QED
      BY <1>2, <3>1, <3>2, <3>3, <3>4 DEF ThreadStep, Begins, Stalls, Adds, Misses
  <2> QED BY <2>1, <2>2, <2>3 DEF Served, InBody
<1>3. CASE OwnEnds(j) \/ \E f \in Entry : OwnAdds(j, f)
  <2>1. j \in Guests /\ Runs(j) = {j} /\ thread[j].pc \notin Body
    BY <1>3, Names DEF OwnEnds, OwnAdds, Runs, Body
  <2>2. renderers[j][e.key] # Absent
    BY <2>1 DEF Served, InBody
  <2> QED BY <1>0, <1>3, <2>2 DEF Served, OwnEnds, OwnAdds, SameTables
<1> QED BY <1>1, <1>2, <1>3

LEMMA JvmStepRenderer ==
  ASSUME TypeInv, TypeInv', NEW j \in Jvms, RendererInv(j), JvmStep(j),
         Untainted(j) \/ Empties(j)
  PROVE  RendererInv(j)'
<1> SUFFICES ASSUME Side(j) = "client", NEW i \in DOMAIN providers'[j],
                    NamesRenderer(providers'[j][i].def)
             PROVE  Served(j, providers[j][i])'
  BY DEF RendererInv
<1>0. /\ providers[j] \in Seq(Entry) /\ providers'[j] \in Seq(Entry)
      /\ \A n \in DOMAIN providers[j] : providers[j][n] \in Entry
  BY ElementOfSeq, LenProperties DEF TypeInv, TypeOK
<1>1. CASE Empties(j)
  BY <1>1 DEF Empties
<1>2. CASE /\ providers'[j][i] = providers[j][i] /\ i \in DOMAIN providers[j]
           /\ Untainted(j) /\ ~Empties(j)
  <2>1. PICK e \in Entry : e = providers[j][i]
    BY <1>0, <1>2
  <2>2. NamesRenderer(e.def) /\ Served(j, e)
    BY <1>2, <2>1 DEF RendererInv
  <2>3. Served(j, e)'
    BY <1>2, <2>2, ServedStays DEF JvmStep
  <2> QED BY <1>2, <2>1, <2>3 DEF Served, InBody
<1>3. ASSUME NEW t \in Runs(j), NEW e \in Entry, Adds(j, t, e)
      PROVE  \/ providers'[j][i] = providers[j][i] /\ i \in DOMAIN providers[j]
             \/ Served(j, providers[j][i])'
  <2>1. /\ i \in 1..(Len(providers[j]) + 1)
        /\ \A n \in 1..Len(providers[j]) : providers'[j][n] = providers[j][n]
        /\ providers'[j][Len(providers[j]) + 1] = e
        /\ DOMAIN providers[j] = 1..Len(providers[j])
    BY <1>0, <1>3, AppendProperties, LenProperties DEF Adds
  <2>2. InBody(j, e)'
    <3>1. /\ thread'[t].pc = "publish" /\ thread'[t].cur = e.key
          /\ thread'[t].todo[e.key] = e.def
      BY <1>3 DEF Adds, At
    <3> QED BY <3>1 DEF InBody, Body, Runs
  <2>3. CASE i = Len(providers[j]) + 1
    BY <2>1, <2>2, <2>3 DEF Served, InBody
  <2> QED BY <1>0, <2>1, <2>3, LenProperties
<1>4. CASE /\ providers'[j] = providers[j] /\ Untainted(j) /\ ~Empties(j)
  BY <1>2, <1>4
<1>5. ASSUME NEW e \in Entry, OwnAdds(j, e)
      PROVE  \/ providers'[j][i] = providers[j][i] /\ i \in DOMAIN providers[j]
             \/ Served(j, providers[j][i])'
  <2>1. /\ i \in 1..(Len(providers[j]) + 1)
        /\ \A n \in 1..Len(providers[j]) : providers'[j][n] = providers[j][n]
        /\ providers'[j][Len(providers[j]) + 1] = e
        /\ DOMAIN providers[j] = 1..Len(providers[j])
    BY <1>0, <1>5, AppendProperties, LenProperties DEF OwnAdds
  <2>2. CASE i = Len(providers[j]) + 1
    BY <1>5, <2>1, <2>2 DEF OwnAdds, Served, NamesRenderer
  <2> QED BY <1>0, <2>1, <2>2, LenProperties
<1> QED
  BY <1>1, <1>2, <1>3, <1>4, <1>5
  DEF JvmStep, Stays, ThreadStep, Begins, Stalls, Misses, Publishes, Announces,
      Renders, Fails, OwnEnds, SameTables

LEMMA NextRenderer ==
  ASSUME TypeInv, TypeInv', SeenInv, ServerInv, \A j \in Jvms : RendererInv(j), [Next]_vars
  PROVE  \A j \in Jvms : RendererInv(j)'
<1> SUFFICES ASSUME NEW j \in Jvms, Untainted(j)' PROVE RendererInv(j)'
  BY DEF RendererInv
<1> QED BY TaintedStays, NextIsJvmStep, JvmStepRenderer

(* Where the threads have left the bodies of their loops, what resolves    *)
(* has its renderer.                                                       *)
LEMMA RendererInvImplies ==
  TypeInv /\ (\A j \in Jvms : RendererInv(j)) => DrawableHasRenderer
<1> SUFFICES ASSUME TypeInv, NEW j \in Jvms, RendererInv(j), Side(j) = "client",
                    \A t \in Threads : JvmOf(t) = j => thread[t].pc \notin Body,
                    Untainted(j), NEW k \in Keys, ProviderFor(j, k) # Absent,
                    NamesRenderer(ProviderFor(j, k).def)
             PROVE  renderers[j][k] # Absent
  BY DEF DrawableHasRenderer, Untainted, NamesRenderer, Body
<1>1. ProviderFor(j, k) = Resolve(providers[j], k) /\ k \in KeysOf(providers[j])
  BY ResolveUnbound DEF ProviderFor, TypeInv, TypeOK
<1>2. providers[j] \in Seq(Entry)
  BY DEF TypeInv, TypeOK
<1>3. PICK i \in DOMAIN providers[j] :
        ProviderFor(j, k) = providers[j][i] /\ providers[j][i].key = k
  BY <1>1, <1>2, ResolveBound
<1> QED BY <1>3 DEF RendererInv, Served, InBody, Runs

LEMMA RendererInvariant == Spec => [](\A j \in Jvms : RendererInv(j))
<1>1. Init => \A j \in Jvms : RendererInv(j)
  BY DEF Init, RendererInv
<1>2. TypeInv /\ TypeInv' /\ SeenInv /\ ServerInv /\ (\A j \in Jvms : RendererInv(j)) /\ [Next]_vars
        => (\A j \in Jvms : RendererInv(j))'
  BY NextRenderer
<1> QED BY TypeInvariant, SeenInvariant, ServerInvariant, <1>1, <1>2, PTL DEF Spec

(* A model whose provider makes a patch and names a known renderer has a   *)
(* renderer in every JVM that draws, after any reloads, packets, own       *)
(* worlds and restarts, cut short or not: what MixinRenderEngine asks      *)
(* renderersMap for is there.  Two things are excepted: content on which   *)
(* filterClientData throws, between addProvider and registerRenderer, and  *)
(* a reload that the owner's client thread wrote into.                     *)
THEOREM DrawableIsDrawn == Spec => []DrawableHasRenderer
BY TypeInvariant, RendererInvariant, RendererInvImplies, PTL

-----------------------------------------------------------------------------
(* What a guest holds, against what it was sent.                           *)

(* A JVM that has handled no packet since its lists were last emptied      *)
(* holds what its own world has left, and nothing else.                    *)
FreshInv(g) ==
  /\ heard[g] = {} => /\ \A i \in DOMAIN providers[g] : providers[g][i].full
                      /\ avail[g] \subseteq OwnKeys(g)
                      /\ thread[g].pc \in {"idle", "home"}
  /\ thread[g].pc = "home" => heard[g] = {}

(* The entries of its own files come first, and are all offered.           *)
OwnInv(g) ==
  /\ OwnKeys(g) \subseteq avail[g]
  /\ \A k \in OwnKeys(g) : Resolve(providers[g], k).full

(* putCustomEntityPatch goes with the AVAILABLE_MODELS.add of a packet; an *)
(* entry at its renderer is offered already, and not disabled.             *)
LoopInv(g) ==
  /\ hooked[g] \/ avail[g] \subseteq OwnKeys(g)
  /\ thread[g].pc = "render" =>
       /\ thread[g].cur \in avail[g]
       /\ ~Shape[thread[g].todo[thread[g].cur]].disabled

(* While the packets of one content are handled, any number of them: the   *)
(* providers that packets have added are of that content, and each of its  *)
(* keys is offered or still to do.                                         *)
EntriesOf(g, tags) ==
  \A i \in DOMAIN providers[g] :
    ~providers[g][i].full => providers[g][i].def = tags[providers[g][i].key]
OfferOf(g, tags) ==
  \A k \in Present(tags) :
    \/ k \in avail[g]
    \/ thread[g].pc # "idle" /\ k \in Present(thread[g].todo)
LoopOf(g, tags) ==
  thread[g].pc # "idle" =>
    \A k \in Present(thread[g].todo) : thread[g].todo[k] = tags[k]
Holds(g, tags) ==
  /\ EntriesOf(g, tags)
  /\ avail[g] \subseteq OwnKeys(g) \union Present(tags)
  /\ LoopOf(g, tags)
  /\ OfferOf(g, tags)

ContentInv(g) ==
  \A tags \in Tags : heard[g] = {tags} /\ ClientSafe(tags) => Holds(g, tags)

GuestInv(g) == FreshInv(g) /\ OwnInv(g) /\ LoopInv(g) /\ ContentInv(g)

(* What an entry at the end of a guest's list does to its own keys. *)
LEMMA OwnKeysAppend ==
  ASSUME TypeInv, NEW g \in Guests, NEW e \in Entry,
         providers'[g] = Append(providers[g], e)
  PROVE  OwnKeys(g)' = OwnKeys(g) \union (IF e.full THEN {e.key} ELSE {})
<1>1. providers[g] \in Seq(Entry)
  BY Names DEF TypeInv, TypeOK
<1>2. /\ DOMAIN providers[g] = 1..Len(providers[g]) /\ Len(providers[g]) \in Nat
      /\ DOMAIN providers'[g] = 1..(Len(providers[g]) + 1)
      /\ \A n \in 1..Len(providers[g]) : providers'[g][n] = providers[g][n]
      /\ providers'[g][Len(providers[g]) + 1] = e
  BY <1>1, AppendProperties, LenProperties
<1> QED BY <1>2 DEF OwnKeys

LEMMA OwnKeysBound ==
  \A g : OwnKeys(g) \subseteq KeysOf(providers[g])
BY DEF OwnKeys, KeysOf

(* A packet is taken from the queue when its predecessor is done.          *)
LEMMA BeginGuestInv ==
  ASSUME TypeInv, NEW g \in Guests, GuestInv(g), BeginPacket(g), SameTables(g)
  PROVE  GuestInv(g)'
<1>0. /\ TypeOK /\ g \in Players /\ g \in Threads
  BY Names DEF TypeInv
<1> DEFINE new == Head(inbox[g])
           next == IF Present(new) = {} THEN Idle
                   ELSE [pc |-> "add", todo |-> new, cur |-> Absent]
<1>1. /\ new \in Tags /\ thread[g].pc = "idle"
      /\ thread'[g] = next /\ heard'[g] = heard[g] \union {new}
  BY <1>0, HeadTailProperties DEF BeginPacket, TypeOK
<1>2. /\ next.pc \in {"idle", "add"}
      /\ next.pc # "idle" => next.todo = new
      /\ next.pc = "idle" => Present(new) = {}
  BY DEF Idle
<1> HIDE DEF new, next
<1>3. FreshInv(g)' /\ OwnInv(g)' /\ LoopInv(g)'
  BY <1>1, <1>2 DEF GuestInv, FreshInv, OwnInv, LoopInv, SameTables, OwnKeys
<1>4. ASSUME NEW tags \in Tags, heard'[g] = {tags}, ClientSafe(tags)
      PROVE  Holds(g, tags)'
  <2>1. new = tags /\ (heard[g] = {} \/ heard[g] = {tags})
    BY <1>0, <1>1, <1>4 DEF TypeOK
  <2>2. CASE heard[g] = {}
    BY <1>1, <1>2, <2>1, <2>2 DEF GuestInv, FreshInv, SameTables, Holds,
       EntriesOf, LoopOf, OfferOf, OwnKeys
  <2>3. CASE heard[g] = {tags}
    BY <1>1, <1>2, <1>4, <2>1, <2>3 DEF GuestInv, ContentInv, SameTables, Holds,
       EntriesOf, LoopOf, OfferOf, OwnKeys
  <2> QED BY <2>1, <2>2, <2>3
<1> QED BY <1>3, <1>4 DEF GuestInv, ContentInv

(* A step inside a packet. *)
LEMMA LoopGuestInv ==
  ASSUME TypeInv, NEW g \in Guests, GuestInv(g), heard'[g] = heard[g],
         \/ \E e \in Entry : Adds(g, g, e)
         \/ Publishes(g, g) \/ Renders(g, g) \/ Fails(g, g)
  PROVE  GuestInv(g)'
<1>0. /\ TypeOK /\ g \in Players /\ g \in Threads /\ g \in Jvms
      /\ Side(g) = "client"
      /\ providers[g] \in Seq(Entry)
      /\ thread[g].todo \in Tags
  BY Names DEF TypeInv, TypeOK
<1> DEFINE k == thread[g].cur
<1>1. thread[g].pc \in Body => k \in Keys /\ thread[g].todo[k] \in Defs
  BY <1>0, CursorType DEF Body, Inside
<1>2. thread[g].pc \in Body => Present(Rest(g, k)) = Present(thread[g].todo) \ {k}
  BY <1>0, <1>1, RestPresent
<1>3. /\ At(g, "render", k).pc = "render" /\ At(g, "render", k).cur = k
      /\ At(g, "render", k).todo = thread[g].todo
      /\ Idle.pc = "idle"
      /\ \A e \in Entry : /\ At(g, "publish", e.key).pc = "publish"
                          /\ At(g, "publish", e.key).todo = thread[g].todo
  BY DEF At, Idle
<1>4. heard[g] # {} /\ heard'[g] # {}
  BY DEF GuestInv, FreshInv, Adds, Publishes, Renders, Fails
<1>8. OwnKeys(g)' = OwnKeys(g)
  <2>1. ASSUME NEW e \in Entry, Adds(g, g, e)
        PROVE  OwnKeys(g)' = OwnKeys(g)
    BY <2>1, OwnKeysAppend DEF Adds
  <2>2. CASE Publishes(g, g) \/ Renders(g, g) \/ Fails(g, g)
    BY <2>2 DEF Publishes, Renders, Fails, SameTables, OwnKeys
  <2> QED BY <2>1, <2>2
<1>9. OwnInv(g)'
  <2>1. ASSUME NEW e \in Entry, Adds(g, g, e)
        PROVE  /\ avail'[g] = avail[g]
               /\ \A l \in OwnKeys(g) : Resolve(providers'[g], l) = Resolve(providers[g], l)
    BY <1>0, <2>1, ResolveAppend, OwnKeysBound DEF Adds
  <2>2. CASE Publishes(g, g) \/ Renders(g, g) \/ Fails(g, g)
    BY <1>8, <2>2 DEF Publishes, Renders, Fails, SameTables, GuestInv, OwnInv
  <2> QED BY <1>8, <2>1, <2>2 DEF GuestInv, OwnInv
<1>5. FreshInv(g)'
  <2>1. thread'[g].pc # "home"
    BY <1>0, <1>3, NextPc DEF Adds, Publishes, MovesOn, Renders, Fails
  <2> QED BY <1>4, <2>1 DEF FreshInv
<1>6. LoopInv(g)'
  <2>1. CASE (\E e \in Entry : Adds(g, g, e)) \/ Renders(g, g) \/ Fails(g, g)
    <3>1. avail'[g] = avail[g] /\ hooked'[g] = hooked[g] /\ thread'[g].pc # "render"
      BY <1>3, <2>1 DEF Adds, Renders, Fails, SameTables
    <3> QED BY <1>8, <3>1 DEF GuestInv, LoopInv
  <2>2. CASE Publishes(g, g)
    BY <1>3, <2>2 DEF Publishes, MovesOn, LoopInv
  <2> QED BY <2>1, <2>2
<1>7. ASSUME NEW tags \in Tags, heard'[g] = {tags}, ClientSafe(tags)
      PROVE  Holds(g, tags)'
  <2>0. Holds(g, tags)
    BY <1>7 DEF GuestInv, ContentInv
  <2>1. ASSUME NEW e \in Entry, Adds(g, g, e)
        PROVE  Holds(g, tags)'
    <3>1. e.def = tags[e.key]
      BY <1>0, <2>0, <2>1, AbsentAssumption
      DEF Adds, Holds, LoopOf, Present, Entry
    <3>2. EntriesOf(g, tags)'
      BY <1>0, <2>0, <2>1, <3>1, AppendProperties, LenProperties
      DEF Adds, Holds, EntriesOf
    <3>3. /\ avail'[g] = avail[g] /\ thread[g].pc # "idle" /\ thread'[g].pc # "idle"
          /\ thread'[g].todo = thread[g].todo
      BY <1>3, <2>1 DEF Adds
    <3> QED BY <1>8, <2>0, <3>2, <3>3 DEF Holds, LoopOf, OfferOf
  <2>2. CASE Publishes(g, g)
    <3>1. k \in Present(tags)
      BY <1>1, <2>0, <2>2, AbsentAssumption DEF Publishes, Holds, LoopOf, Present, Body
    <3>2. /\ Present(thread'[g].todo) \subseteq Present(thread[g].todo)
          /\ \A l \in Present(thread'[g].todo) : thread'[g].todo[l] = thread[g].todo[l]
          /\ thread'[g].pc = "idle" => Present(thread[g].todo) \subseteq {k}
          /\ \A l \in Present(thread[g].todo) : l = k \/ l \in Present(thread'[g].todo)
      BY <1>0, <1>1, <1>2, <1>3, <2>2
      DEF Publishes, MovesOn, Body, Rest, Present, Tags
    <3>3. /\ providers'[g] = providers[g] /\ avail'[g] = avail[g] \union {k}
          /\ thread[g].pc # "idle"
      BY <2>2 DEF Publishes
    <3>4. EntriesOf(g, tags)' /\ LoopOf(g, tags)'
      BY <2>0, <3>2, <3>3 DEF Holds, EntriesOf, LoopOf
    <3>5. ASSUME NEW l \in Present(tags)
          PROVE  \/ l \in avail'[g]
                 \/ thread'[g].pc # "idle" /\ l \in Present(thread'[g].todo)
      <4>1. l \in avail[g] \/ l \in Present(thread[g].todo)
        BY <2>0 DEF Holds, OfferOf
      <4> QED BY <3>2, <3>3, <4>1
    <3>6. OfferOf(g, tags)'
      BY <3>5 DEF OfferOf
    <3>7. avail'[g] \subseteq OwnKeys(g)' \union Present(tags)
      BY <1>8, <2>0, <3>1, <3>3 DEF Holds
    <3> QED BY <3>4, <3>6, <3>7 DEF Holds
  <2>3. CASE Renders(g, g)
    <3>1. k \in avail[g]
      BY <2>3 DEF GuestInv, LoopInv, Renders
    <3>2. /\ thread'[g].todo = Rest(g, k)
          /\ thread'[g].pc # "add" => Present(Rest(g, k)) = {}
          /\ \A l \in Present(Rest(g, k)) : Rest(g, k)[l] = thread[g].todo[l]
      BY <1>0, <1>1, <2>3 DEF Renders, Rest, Present, Tags, Body
    <3>3. /\ providers'[g] = providers[g] /\ avail'[g] = avail[g]
          /\ thread[g].pc \in Body /\ thread[g].pc # "idle"
      BY <2>3 DEF Renders, Body
    <3>4. EntriesOf(g, tags)' /\ LoopOf(g, tags)'
      BY <1>2, <2>0, <3>2, <3>3 DEF Holds, EntriesOf, LoopOf
    <3>5. ASSUME NEW l \in Present(tags)
          PROVE  \/ l \in avail'[g]
                 \/ thread'[g].pc # "idle" /\ l \in Present(thread'[g].todo)
      <4>1. l \in avail[g] \/ l \in Present(thread[g].todo)
        BY <2>0 DEF Holds, OfferOf
      <4> QED BY <1>2, <3>1, <3>2, <3>3, <4>1
    <3>6. OfferOf(g, tags)'
      BY <3>5 DEF OfferOf
    <3>7. avail'[g] \subseteq OwnKeys(g)' \union Present(tags)
      BY <1>8, <2>0, <3>3 DEF Holds
    <3> QED BY <3>4, <3>6, <3>7 DEF Holds
  <2>4. CASE Fails(g, g)
    <3>1. ASSUME NEW l \in Present(thread[g].todo), thread[g].pc # "idle"
          PROVE  /\ Loads(thread[g].todo[l], g)
                 /\ \/ Shape[thread[g].todo[l]].disabled
                    \/ Shape[thread[g].todo[l]].renderer # "invalid"
      <4>1. thread[g].todo[l] = tags[l] /\ l \in Present(tags)
        BY <2>0, <3>1 DEF Holds, LoopOf, Present
      <4> QED BY <1>0, <1>7, <4>1 DEF ClientSafe, Loads
    <3>2. thread[g].pc = "render" => k \in Present(thread[g].todo)
      BY <1>1, AbsentAssumption DEF Body, Present
    <3> QED BY <2>4, <3>1, <3>2 DEF Fails, GuestInv, LoopInv
  <2> QED BY <2>1, <2>2, <2>3, <2>4
<1> QED BY <1>5, <1>6, <1>7, <1>9 DEF GuestInv, ContentInv

(* A guest's own world: its lists are empty when it starts, no packet      *)
(* comes in between, and a name is loaded once.                            *)
LEMMA OwnGuestInv ==
  ASSUME TypeInv, NEW g \in Guests, GuestInv(g),
         OwnEnds(g) \/ \E e \in Entry : OwnAdds(g, e)
  PROVE  GuestInv(g)'
<1>0. /\ providers[g] \in Seq(Entry) /\ g \in Players
      /\ heard[g] = {} /\ heard'[g] = heard[g]
      /\ thread'[g].pc \in {"idle", "home"}
  BY Names, NextPc DEF TypeInv, TypeOK, GuestInv, FreshInv, OwnEnds, OwnAdds, SameHeard
<1>1. CASE OwnEnds(g)
  BY <1>0, <1>1 DEF OwnEnds, SameTables, GuestInv, FreshInv, OwnInv, LoopInv,
     ContentInv, OwnKeys
<1>2. ASSUME NEW e \in Entry, OwnAdds(g, e)
      PROVE  GuestInv(g)'
  <2>1. /\ OwnKeys(g)' = OwnKeys(g) \union {e.key} /\ e.full
        /\ avail'[g] = avail[g] \union {e.key}
        /\ e.key \notin KeysOf(providers[g])
        /\ providers'[g] = Append(providers[g], e)
    BY <1>2, OwnKeysAppend DEF OwnAdds
  <2>2. /\ Resolve(providers'[g], e.key) = e
        /\ \A k \in KeysOf(providers[g]) :
             Resolve(providers'[g], k) = Resolve(providers[g], k)
    BY <1>0, <2>1, ResolveAppend
  <2>3. OwnInv(g)'
    BY <2>1, <2>2, OwnKeysBound DEF GuestInv, OwnInv
  <2>4. FreshInv(g)'
    <3>1. \A i \in DOMAIN providers'[g] : providers'[g][i].full
      BY <1>0, <2>1, AppendProperties, LenProperties DEF GuestInv, FreshInv
    <3> QED BY <1>0, <2>1, <3>1 DEF GuestInv, FreshInv
  <2>5. LoopInv(g)'
    BY <1>0, <2>1 DEF GuestInv, FreshInv, LoopInv
  <2> QED BY <1>0, <2>3, <2>4, <2>5 DEF GuestInv, ContentInv
<1> QED BY <1>1, <1>2

LEMMA EmptyDomain == DOMAIN <<>> = {}
OBVIOUS

LEMMA NextGuestInv ==
  ASSUME TypeInv, TypeInv', SeenInv, ServerInv, NEW g \in Guests, GuestInv(g), [Next]_vars
  PROVE  GuestInv(g)'
<1>0. g \in Jvms /\ g # Server /\ Runs(g) = {g}
  BY Names DEF Runs, Threads, Guests
<1>1. JvmStep(g)
  BY <1>0, NextIsJvmStep DEF Untainted
<1>2. CASE Stays(g)
  BY <1>0, <1>2 DEF Stays, SameTables, SameHeard, GuestInv, FreshInv, OwnInv,
     LoopInv, ContentInv, Holds, EntriesOf, LoopOf, OfferOf, OwnKeys
<1>3. CASE Empties(g)
  BY <1>3, EmptyDomain DEF Empties, GuestInv, FreshInv, OwnInv, LoopInv, ContentInv,
     OwnKeys
<1>4. CASE Begins(g, g)
  BY <1>4, BeginGuestInv DEF Begins
<1>5. CASE \/ \E e \in Entry : Adds(g, g, e)
           \/ Publishes(g, g) \/ Renders(g, g) \/ Fails(g, g)
  <2>1. heard'[g] = heard[g]
    BY <1>5 DEF Adds, Publishes, Renders, Fails, SameHeard
  <2> QED BY <1>5, <2>1, LoopGuestInv
<1>6. ~Stalls(g, g) /\ ~Misses(g, g) /\ ~Announces(g, g)
  BY DEF Stalls, Misses, Announces
<1>7. CASE OwnEnds(g) \/ \E e \in Entry : OwnAdds(g, e)
  BY <1>7, OwnGuestInv
<1> QED
  BY <1>0, <1>1, <1>2, <1>3, <1>4, <1>5, <1>6, <1>7 DEF JvmStep, ThreadStep

LEMMA GuestInvImplies ==
  TypeInv /\ (\A g \in Guests : GuestInv(g) /\ PickerInv(g)) => GuestAgreesWithItsPacket
<1> SUFFICES ASSUME TypeInv, NEW g \in Guests, GuestInv(g), PickerInv(g),
                    NEW tags \in heard[g], heard[g] = {tags}, ClientSafe(tags),
                    thread[g].pc = "idle"
             PROVE  /\ avail[g] = OwnKeys(g) \union Present(tags)
                    /\ \A k \in OwnKeys(g) : Resolve(providers[g], k).full
                    /\ \A k \in Keys \ OwnKeys(g) :
                         ProviderFor(g, k) =
                           IF tags[k] = Absent THEN Absent
                           ELSE [key |-> k, def |-> tags[k], full |-> FALSE]
  BY DEF GuestAgreesWithItsPacket
<1>0. /\ g \in Players /\ g \in Jvms /\ g # Server /\ Runs(g) = {g}
      /\ tags \in Tags /\ providers[g] \in Seq(Entry)
  BY Names DEF TypeInv, TypeOK, Runs, Threads, Guests
<1>1. Holds(g, tags)
  BY <1>0 DEF GuestInv, ContentInv
<1>2. avail[g] = OwnKeys(g) \union Present(tags)
  BY <1>1 DEF Holds, OfferOf, GuestInv, OwnInv
<1>3. KeysOf(providers[g]) = avail[g]
  BY <1>0 DEF PickerInv, OfferedInv, BoundInv, SoleWriter, Untainted, NotReset,
     PublishingKey
<1>4. ASSUME NEW k \in Keys \ OwnKeys(g), tags[k] # Absent
      PROVE  ProviderFor(g, k) = [key |-> k, def |-> tags[k], full |-> FALSE]
  <2>1. k \in KeysOf(providers[g]) /\ hooked[g]
    BY <1>2, <1>3, <1>4 DEF Present, GuestInv, LoopInv
  <2>2. PICK i \in DOMAIN providers[g] : Resolve(providers[g], k) = providers[g][i]
    BY <1>0, <2>1, ResolveBound
  <2>4. ~Resolve(providers[g], k).full
    BY <1>0, <1>4, <2>1, <2>2, ResolveBound DEF OwnKeys
  <2>3. /\ Resolve(providers[g], k) \in Entry
        /\ Resolve(providers[g], k).key = k
        /\ Resolve(providers[g], k).def = tags[k]
        /\ Resolve(providers[g], k).full = FALSE
    <3>1. Resolve(providers[g], k) \in Entry /\ Resolve(providers[g], k).key = k
      BY <1>0, <2>1, ResolveBound
    <3> QED BY <1>1, <2>2, <2>4, <3>1 DEF Holds, EntriesOf, Entry
  <2> QED BY <2>1, <2>3 DEF ProviderFor, Entry
<1>5. ASSUME NEW k \in Keys \ OwnKeys(g), tags[k] = Absent
      PROVE  ProviderFor(g, k) = Absent
  BY <1>0, <1>2, <1>3, <1>5, ResolveUnbound DEF ProviderFor, Present
<1> QED BY <1>2, <1>4, <1>5 DEF GuestInv, OwnInv

LEMMA TablesInvariant == Spec => []((\A j \in Jvms : PickerInv(j)) /\ (\A g \in Guests : GuestInv(g)))
<1>1. Init => \A g \in Guests : GuestInv(g)
  <2>1. ASSUME Init, NEW g \in Guests
        PROVE  /\ providers[g] = <<>> /\ avail[g] = {} /\ heard[g] = {}
               /\ thread[g].pc = "idle"
    BY <2>1, Names DEF Init, Idle
  <2> QED
    BY <2>1, EmptyDomain DEF GuestInv, FreshInv, OwnInv, LoopInv, ContentInv, OwnKeys
<1>2. TypeInv /\ TypeInv' /\ SeenInv /\ ServerInv /\ (\A j \in Jvms : PickerInv(j)) /\ [Next]_vars
        => (\A j \in Jvms : PickerInv(j))'
  BY NextPicker
<1>3. TypeInv /\ TypeInv' /\ SeenInv /\ ServerInv /\ (\A g \in Guests : GuestInv(g)) /\ [Next]_vars
        => (\A g \in Guests : GuestInv(g))'
  BY NextGuestInv
<1> QED
  BY InitPicker, TypeInvariant, SeenInvariant, ServerInvariant, <1>1, <1>2, <1>3, PTL DEF Spec

(* A guest that has handled packets of one content only since its lists    *)
(* were last emptied holds exactly that content, when it is done, behind   *)
(* what its own files have bound in a world of its own, however often that *)
(* content was sent, and whatever logins, reloads and restarts lay         *)
(* between.                                                                *)
THEOREM GuestHoldsItsPacket == Spec => []GuestAgreesWithItsPacket
<1>1. (\A j \in Jvms : PickerInv(j)) /\ (\A g \in Guests : GuestInv(g)) /\ TypeInv
        => GuestAgreesWithItsPacket
  BY GuestInvImplies, Names
<1> QED BY TypeInvariant, TablesInvariant, <1>1, PTL

=============================================================================
