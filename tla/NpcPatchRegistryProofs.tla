------------------------- MODULE NpcPatchRegistryProofs -------------------------
(***************************************************************************)
(* Theorems about NpcPatchRegistry, for all sets of models, contents and   *)
(* players, whoever owns the world, and any number of reloads and logins.  *)
(***************************************************************************)
EXTENDS NpcPatchRegistry, TLAPS, SequenceTheorems, WellFoundedInduction

-----------------------------------------------------------------------------
(* Type correctness.                                                       *)

(* A thread that is inside the body of a loop is at an entry of its todo.  *)
Inside == {"store", "publish", "announce", "render"}

CursorOK ==
  \A t \in Threads : thread[t].pc \in Inside =>
    /\ thread[t].cur \in Keys
    /\ thread[t].todo[thread[t].cur] # Absent

TypeInv == TypeOK /\ CursorOK

(* Every thread runs in a JVM. *)
LEMMA JvmType == \A t \in Threads : JvmOf(t) \in Jvms
BY ThreadsAssumption DEF JvmOf, Jvms, Guests, Threads

LEMMA EmptyTypes ==
  /\ NoTags \in Tags
  /\ NotSeen \in [object : Nat, list : Seq(Entry)]
  /\ Idle \in [pc : Pcs, todo : Tags, cur : Keys \union {Absent}]
  /\ <<>> \in Seq(Entry) /\ <<>> \in Seq(Tags)
BY EmptySeq DEF NoTags, Tags, Idle, Pcs, NotSeen

(* What a thread is left with when an entry is done. *)
LEMMA ContinueType ==
  ASSUME TypeOK, NEW t \in Threads, NEW k, NEW end \in {"idle", "applied"}
  PROVE  /\ Rest(t, k) \in Tags
         /\ Continue(t, k, end) \in [pc : Pcs, todo : Tags,
                                     cur : Keys \union {Absent}]
         /\ Continue(t, k, end).pc \notin Inside
         /\ Continue(t, k, end).pc \in {"add", end}
         /\ Continue(t, k, end).todo = Rest(t, k)
<1>1. thread[t].todo \in Tags
  BY DEF TypeOK
<1>2. Rest(t, k) \in Tags
  BY <1>1 DEF Rest, Tags
<1> QED BY <1>2 DEF Continue, Pcs, Inside

LEMMA RenderersType ==
  ASSUME TypeOK, NEW j \in Jvms, NEW k \in Keys, NEW d \in Defs
  PROVE  RenderersWith(j, k, d) \in [Jvms -> Tags]
BY DEF TypeOK, RenderersWith, Tags

(* A prefix of a queue of packets is one. *)
LEMMA PrefixType ==
  ASSUME NEW q \in Seq(Tags), NEW n \in 0..Len(q)
  PROVE  SubSeq(q, 1, n) \in Seq(Tags)
<1>1. \A i \in 1..n : q[i] \in Tags
  BY ElementOfSeq
<1> QED BY <1>1, SubSeqProperties

LEMMA AtType ==
  ASSUME TypeOK, NEW t \in Threads, NEW step \in Pcs,
         NEW k \in Keys \union {Absent}
  PROVE  /\ At(t, step, k) \in [pc : Pcs, todo : Tags, cur : Keys \union {Absent}]
         /\ At(t, step, k).pc = step
         /\ At(t, step, k).todo = thread[t].todo
         /\ At(t, step, k).cur = k
BY DEF TypeOK, At

LEMMA AfterPublishType ==
  ASSUME TypeInv, NEW p \in Players, thread[p].pc = "publish"
  PROVE  /\ AfterPublish(p) \in [pc : Pcs, todo : Tags, cur : Keys \union {Absent}]
         /\ AfterPublish(p).pc \in Inside =>
              AfterPublish(p) = At(p, "render", thread[p].cur)
<1>1. p \in Threads /\ thread[p].cur \in Keys
  BY DEF TypeInv, CursorOK, Threads, Inside
<1> QED
  BY <1>1, AtType, ContinueType DEF AfterPublish, TypeInv, Pcs, Inside

(* Where the pieces of the loops lead. *)
LEMMA NextPc ==
  /\ Idle.pc = "idle"
  /\ \A t, step, k : At(t, step, k).pc = step
  /\ \A t, k, end : Continue(t, k, end).pc \in {"add", end}
  /\ \A t : AfterPublish(t).pc \in {"idle", "add", "render"}
BY DEF Idle, At, Continue, AfterPublish

LEMMA InitTypeInv == Init => TypeInv
<1> SUFFICES ASSUME Init PROVE TypeOK /\ CursorOK
  BY DEF TypeInv
<1>1. Idle.pc \notin Inside
  BY DEF Idle, Inside
<1>2. TypeOK
  BY EmptyTypes DEF Init, TypeOK
<1>3. CursorOK
  BY <1>1 DEF Init, CursorOK
<1> QED BY <1>2, <1>3

(* The entry a thread is at while it is inside the body of a loop. *)
LEMMA CursorType ==
  ASSUME TypeInv, NEW t \in Threads, thread[t].pc \in Inside
  PROVE  thread[t].cur \in Keys /\ thread[t].todo[thread[t].cur] \in Defs
BY DEF TypeInv, TypeOK, CursorOK, Tags

LEMMA EntryType ==
  ASSUME TypeOK, NEW t \in Threads, NEW k \in Keys, thread[t].todo[k] # Absent,
         NEW b \in BOOLEAN
  PROVE  [key |-> k, def |-> thread[t].todo[k], full |-> b] \in Entry
BY DEF TypeOK, Tags, Entry

(* A late store of an entry makes a list of entries again. *)
LEMMA StoredType ==
  ASSUME NEW list \in Seq(Entry), NEW read \in Seq(Entry), NEW e \in Entry
  PROVE  Stored(list, read, e) \subseteq Seq(Entry)
<1>1. Len(list) \in Nat /\ Len(read) \in Nat
  BY LenProperties
<1>2. CASE Len(list) <= Len(read)
  <2>1. SubSeq(read, Len(list) + 1, Len(read)) \in Seq(Entry)
    <3>1. \A i \in Len(list) + 1 .. Len(read) : read[i] \in Entry
      BY <1>1, ElementOfSeq
    <3> QED BY <1>1, <3>1, SubSeqProperties
  <2>2. Stored(list, read, e) =
          {list \o SubSeq(read, Len(list) + 1, Len(read)) \o <<e>>}
    BY <1>2 DEF Stored
  <2>3. <<e>> \in Seq(Entry)
    OBVIOUS
  <2> QED BY <2>1, <2>2, <2>3, ConcatProperties
<1>3. CASE ~(Len(list) <= Len(read))
  <2>1. \A i \in 1..Len(read) + 1 : list[i] \in Entry
    BY <1>1, <1>3, ElementOfSeq
  <2>2. SubSeq(list, 1, Len(read)) \in Seq(Entry) /\ list[Len(read) + 1] \in Entry
    BY <1>1, <2>1, SubSeqProperties
  <2>3. Stored(list, read, e) =
          {Append(SubSeq(list, 1, Len(read)), x) : x \in {e, list[Len(read) + 1]}}
    BY <1>3 DEF Stored
  <2>4. \A x \in {e, list[Len(read) + 1]} :
          Append(SubSeq(list, 1, Len(read)), x) \in Seq(Entry)
    BY <2>2, AppendProperties
  <2> QED BY <2>3, <2>4
<1> QED BY <1>2, <1>3

LEMMA NextTypeInv == TypeInv /\ [Next]_vars => TypeInv'
<1> SUFFICES ASSUME TypeInv, [Next]_vars
             PROVE  TypeOK' /\ CursorOK'
  BY DEF TypeInv
<1>0. /\ Server \in Threads /\ Server \in Jvms /\ Players \subseteq Threads
      /\ \A p \in Players : JvmOf(p) \in Jvms
      /\ TypeOK /\ CursorOK
      /\ ApplyEnd \in {"idle", "applied"}
  BY JvmType DEF Threads, Jvms, TypeInv, ApplyEnd
<1> USE DEF TypeOK, CursorOK, Inside, tables
<1>1. ASSUME NEW t \in Tags, StartApply(t)
      PROVE  TypeOK' /\ CursorOK'
  <2>1. /\ [pc |-> "reset", todo |-> t, cur |-> Absent]
             \in [pc : Pcs, todo : Tags, cur : Keys \union {Absent}]
    BY DEF Pcs
  <2>2. /\ providers' \in [Jvms -> Seq(Entry)]
        /\ thread' \in [Threads -> [pc : Pcs, todo : Tags, cur : Keys \union {Absent}]]
        /\ thread'[Server].pc = "reset"
        /\ \A u \in Threads : u # Server => thread'[u] = thread[u]
    BY <1>0, <1>1, <2>1, EmptyTypes DEF StartApply
  <2>3. CursorOK'
    BY <1>0, <2>2
  <2>4. tainted' \in BOOLEAN /\ failed' \in BOOLEAN
    BY <1>1, Zenon DEF StartApply
  <2> QED BY <1>0, <1>1, <2>2, <2>3, <2>4 DEF StartApply
<1>2. CASE ResetTables
  <2> DEFINE next == At(Server, IF Present(thread[Server].todo) = {}
                                THEN ApplyEnd ELSE "add", Absent)
  <2>1. /\ next \in [pc : Pcs, todo : Tags, cur : Keys \union {Absent}]
        /\ next.pc \notin Inside
    BY <1>0, AtType DEF Pcs
  <2>2. thread' = [thread EXCEPT ![Server] = next]
    BY <1>2 DEF ResetTables
  <2> HIDE DEF next
  <2> QED BY <1>0, <1>2, <2>1, <2>2, EmptyTypes DEF ResetTables
<1>3. ASSUME NEW k \in Keys, ApplyAdd(k)
      PROVE  TypeOK' /\ CursorOK'
  <2>1. [key |-> k, def |-> thread[Server].todo[k], full |-> TRUE] \in Entry
    BY <1>0, <1>3, EntryType DEF ApplyAdd
  <2> QED BY <1>0, <1>3, <2>1, AtType DEF ApplyAdd, Pcs
<1>4. ASSUME NEW k \in Keys, ApplyAddFails(k)
      PROVE  TypeOK' /\ CursorOK'
  BY <1>0, <1>4, EmptyTypes DEF ApplyAddFails, AbortApply, Idle
<1>5. CASE ApplyPublish
  <2>1. thread[Server].cur \in Keys
    BY <1>0, <1>5, CursorType DEF ApplyPublish
  <2> QED BY <1>0, <1>5, <2>1, AtType DEF ApplyPublish, Pcs
<1>23. CASE ApplyAnnounceFails
  BY <1>0, <1>23, EmptyTypes DEF ApplyAnnounceFails, AbortApply, Idle
<1>24. CASE ApplyAnnounce
  <2>1. thread[Server].cur \in Keys /\ thread[Server].todo[thread[Server].cur] \in Defs
    BY <1>0, <1>24, CursorType DEF ApplyAnnounce
  <2> DEFINE k == thread[Server].cur
             next == IF Side(Server) = "server" THEN Continue(Server, k, ApplyEnd)
                     ELSE At(Server, "render", k)
  <2>2. /\ next \in [pc : Pcs, todo : Tags, cur : Keys \union {Absent}]
        /\ next.pc \in Inside => next = At(Server, "render", k)
    BY <1>0, <2>1, AtType, ContinueType DEF Pcs
  <2>3. thread' = [thread EXCEPT ![Server] = next]
    BY <1>24 DEF ApplyAnnounce
  <2> HIDE DEF next
  <2>4. TypeOK'
    BY <1>0, <1>24, <2>1, <2>2, <2>3 DEF ApplyAnnounce, Tags
  <2>5. CursorOK'
    BY <1>0, <2>1, <2>2, <2>3, <1>24, AtType DEF ApplyAnnounce, Pcs
  <2> QED BY <2>4, <2>5
<1>6. CASE ApplyRender
  <2>1. thread[Server].cur \in Keys /\ thread[Server].todo[thread[Server].cur] \in Defs
    BY <1>0, <1>6, CursorType DEF ApplyRender
  <2>2. renderers' \in [Jvms -> Tags]
    BY <1>0, <1>6, <2>1, RenderersType DEF ApplyRender
  <2> QED BY <1>0, <1>6, <2>1, <2>2, ContinueType DEF ApplyRender
<1>7. CASE ApplyRenderFails
  BY <1>0, <1>7, EmptyTypes DEF ApplyRenderFails, AbortApply, Idle
<1>8. CASE BroadcastSync
  <2>1. inbox' \in [Players -> Seq(Tags)]
    BY <1>0, <1>8, AppendProperties DEF BroadcastSync, Send
  <2> QED BY <1>0, <1>8, <2>1, EmptyTypes DEF BroadcastSync, Idle
<1>9. ASSUME NEW p \in Players, Join(p)
      PROVE  TypeOK' /\ CursorOK'
  <2>1. inbox' \in [Players -> Seq(Tags)]
    BY <1>0, <1>9, AppendProperties DEF Join, Send
  <2> QED BY <1>0, <1>9, <2>1 DEF Join
<1>10. ASSUME NEW p \in Players, BeginPacket(p)
       PROVE  TypeOK' /\ CursorOK'
  <2>1. Head(inbox[p]) \in Tags /\ Tail(inbox[p]) \in Seq(Tags)
    BY <1>0, <1>10, HeadTailProperties DEF BeginPacket
  <2> DEFINE next == IF Present(Head(inbox[p])) = {} THEN Idle
                     ELSE [pc |-> "add", todo |-> Head(inbox[p]), cur |-> Absent]
  <2>2. /\ next \in [pc : Pcs, todo : Tags, cur : Keys \union {Absent}]
        /\ next.pc \in {"idle", "add"}
    BY <2>1, EmptyTypes DEF Pcs, Idle
  <2>3. thread' = [thread EXCEPT ![p] = next]
    BY <1>10 DEF BeginPacket
  <2> HIDE DEF next
  <2> QED BY <1>0, <1>10, <2>1, <2>2, <2>3 DEF BeginPacket
<1>11. ASSUME NEW p \in Players, NEW k \in Keys, ClientAdd(p, k)
       PROVE  TypeOK' /\ CursorOK'
  <2>1. [key |-> k, def |-> thread[p].todo[k], full |-> FALSE] \in Entry
    BY <1>0, <1>11, EntryType DEF ClientAdd
  <2> QED BY <1>0, <1>11, <2>1, AtType DEF ClientAdd, Taint, Pcs
<1>12. ASSUME NEW p \in Players, NEW k \in Keys, ClientAddFails(p, k)
       PROVE  TypeOK' /\ CursorOK'
  BY <1>0, <1>12, EmptyTypes DEF ClientAddFails, Idle
<1>13. ASSUME NEW p \in Players, ClientPublish(p)
       PROVE  TypeOK' /\ CursorOK'
  <2>1. thread[p].cur \in Keys /\ thread[p].todo[thread[p].cur] \in Defs
    BY <1>0, <1>13, CursorType DEF ClientPublish
  <2> QED
    BY <1>0, <1>13, <2>1, AtType, AfterPublishType DEF ClientPublish, Taint, Pcs
<1>14. ASSUME NEW p \in Players, ClientRender(p)
       PROVE  TypeOK' /\ CursorOK'
  <2>1. thread[p].cur \in Keys /\ thread[p].todo[thread[p].cur] \in Defs
    BY <1>0, <1>14, CursorType DEF ClientRender
  <2>2. renderers' \in [Jvms -> Tags]
    BY <1>0, <1>14, <2>1, RenderersType DEF ClientRender
  <2> QED BY <1>0, <1>14, <2>1, <2>2, ContinueType DEF ClientRender, Taint
<1>15. ASSUME NEW p \in Players, ClientRenderFails(p)
       PROVE  TypeOK' /\ CursorOK'
  BY <1>0, <1>15, EmptyTypes DEF ClientRenderFails, Idle
<1>16. ASSUME NEW t \in {Server, Owner}, NEW k \in Keys, Stall(t, k)
       PROVE  TypeOK' /\ CursorOK'
  <2>1. t \in Threads
    BY <1>0, <1>16 DEF Stall
  <2>2. seen' \in [Threads -> [object : Nat, list : Seq(Entry)]]
    BY <1>0, <1>16, <2>1 DEF Stall
  <2> QED BY <1>0, <1>16, <2>1, <2>2, AtType DEF Stall, Taint, Pcs
<1>25. ASSUME NEW t \in Threads, LateStore(t)
       PROVE  TypeOK' /\ CursorOK'
  <2>1. thread[t].cur \in Keys /\ thread[t].todo[thread[t].cur] \in Defs
    BY <1>0, <1>25, CursorType DEF LateStore
  <2>2. providers' \in [Jvms -> Seq(Entry)]
    <3> DEFINE e == [key |-> thread[t].cur, def |-> thread[t].todo[thread[t].cur],
                     full |-> t = Server]
    <3>1. e \in Entry
      BY <2>1 DEF Entry
    <3>2. Stored(providers[Server], seen[t].list, e) \subseteq Seq(Entry)
      <4>1. providers[Server] \in Seq(Entry) /\ seen[t].list \in Seq(Entry)
        BY <1>0
      <4> QED BY <3>1, <4>1, StoredType
    <3>3. \/ providers' = providers
          \/ \E list \in Stored(providers[Server], seen[t].list, e) :
               providers' = [providers EXCEPT ![Server] = list]
      BY <1>25, Zenon DEF LateStore
    <3> HIDE DEF e
    <3> QED BY <1>0, <3>2, <3>3
  <2>3. seen' \in [Threads -> [object : Nat, list : Seq(Entry)]]
    BY <1>0, <1>25, EmptyTypes DEF LateStore
  <2>4. At(t, "publish", thread[t].cur) \in
          [pc : Pcs, todo : Tags, cur : Keys \union {Absent}]
    BY <1>0, <2>1, AtType DEF Pcs
  <2>5. thread' = [thread EXCEPT ![t] = At(t, "publish", thread[t].cur)]
    BY <1>25 DEF LateStore
  <2>6. CursorOK'
    BY <1>0, <2>1, <2>5, AbsentAssumption DEF At
  <2>7. tainted' \in BOOLEAN
    BY <1>0, <1>25, Zenon DEF LateStore, Taint
  <2> QED BY <1>0, <1>25, <2>2, <2>3, <2>4, <2>5, <2>6, <2>7 DEF LateStore
<1>17. CASE RacePublish
  <2>1. Owner \in Threads /\ Owner \in Players /\ Owner # Server
    BY <1>0, <1>17, ThreadsAssumption DEF RacePublish, BothAt
  <2>2. /\ thread[Server].cur \in Keys
        /\ thread[Server].todo[thread[Server].cur] \in Defs
        /\ thread[Owner].cur \in Keys
        /\ thread[Owner].todo[thread[Owner].cur] \in Defs
    BY <1>0, <1>17, <2>1, CursorType DEF RacePublish, BothAt
  <2>3. /\ AfterPublish(Owner) \in [pc : Pcs, todo : Tags, cur : Keys \union {Absent}]
        /\ AfterPublish(Owner).pc \in Inside =>
             AfterPublish(Owner) = At(Owner, "render", thread[Owner].cur)
    BY <1>17, <2>1, AfterPublishType DEF RacePublish, BothAt
  <2>5. /\ At(Server, "announce", thread[Server].cur) \in
             [pc : Pcs, todo : Tags, cur : Keys \union {Absent}]
        /\ At(Owner, "render", thread[Owner].cur).cur = thread[Owner].cur
        /\ At(Owner, "render", thread[Owner].cur).todo = thread[Owner].todo
        /\ At(Server, "announce", thread[Server].cur).cur = thread[Server].cur
        /\ At(Server, "announce", thread[Server].cur).todo = thread[Server].todo
    BY <1>0, <2>1, <2>2, AtType DEF Pcs
  <2>6. thread' = [thread EXCEPT ![Server] = At(Server, "announce", thread[Server].cur),
                                 ![Owner] = AfterPublish(Owner)]
    BY <1>17 DEF RacePublish
  <2>7. thread' \in [Threads -> [pc : Pcs, todo : Tags, cur : Keys \union {Absent}]]
    BY <1>0, <2>1, <2>3, <2>5, <2>6
  <2>8. avail' \in [Jvms -> SUBSET Keys]
    BY <1>0, <1>17, <2>2 DEF RacePublish
  <2>9. CursorOK'
    BY <1>0, <2>1, <2>2, <2>3, <2>5, <2>6, AbsentAssumption
  <2> QED BY <1>0, <1>17, <2>7, <2>8, <2>9 DEF RacePublish
<1>18. CASE RaceRender
  <2>1. Owner \in Threads /\ Owner # Server
    BY <1>0, <1>18, ThreadsAssumption DEF RaceRender, BothAt
  <2>2. /\ thread[Server].cur \in Keys
        /\ thread[Server].todo[thread[Server].cur] \in Defs
        /\ thread[Owner].cur \in Keys
        /\ thread[Owner].todo[thread[Owner].cur] \in Defs
    BY <1>0, <1>18, <2>1, CursorType DEF RaceRender, BothAt
  <2>3. renderers' \in [Jvms -> Tags]
    BY <1>0, <1>18, <2>2, RenderersType DEF RaceRender
  <2> QED BY <1>0, <1>18, <2>1, <2>2, <2>3, ContinueType DEF RaceRender
<1>19. ASSUME NEW p \in Players, Leave(p)
       PROVE  TypeOK' /\ CursorOK'
  BY <1>0, <1>19, PrefixType DEF Leave
<1>20. ASSUME NEW p \in Players, RestartClient(p)
       PROVE  TypeOK' /\ CursorOK'
  BY <1>0, <1>20, EmptyTypes DEF RestartClient, Idle
<1>21. CASE StopServer
  <2>1. inbox' \in [Players -> Seq(Tags)]
    <3>1. CASE Owner = NoOwner
      <4>1. inbox' = inbox
        BY <1>21, <3>1, Zenon DEF StopServer
      <4> QED BY <1>0, <4>1
    <3>2. CASE Owner \in Players
      <4>1. Owner # NoOwner
        BY <3>2, ThreadsAssumption
      <4>2. PICK n \in 0..Len(inbox[Owner]) :
                 inbox' = [inbox EXCEPT ![Owner] = SubSeq(@, 1, n)]
        BY <1>21, <4>1, Zenon DEF StopServer
      <4>3. SubSeq(inbox[Owner], 1, n) \in Seq(Tags)
        BY <1>0, <3>2, PrefixType
      <4> QED BY <1>0, <4>2, <4>3
    <3> QED BY <3>1, <3>2, ThreadsAssumption
  <2>2. /\ providers' = providers \/ providers' = [providers EXCEPT ![Server] = <<>>]
        /\ avail' = avail \/ avail' = [avail EXCEPT ![Server] = {}]
        /\ hooked' = hooked \/ hooked' = [hooked EXCEPT ![Server] = FALSE]
        /\ tagmap' = tagmap \/ tagmap' = NoTags
        /\ connected' = {} /\ up' = FALSE
        /\ UNCHANGED <<renderers, thread, seen, reloads, joins, tainted, failed, heard>>
    BY <1>21, Zenon DEF StopServer
  <2>3. /\ providers' \in [Jvms -> Seq(Entry)]
        /\ avail' \in [Jvms -> SUBSET Keys]
        /\ hooked' \in [Jvms -> BOOLEAN]
        /\ tagmap' \in Tags
    <3>1. providers' \in [Jvms -> Seq(Entry)]
      BY <1>0, <2>2, EmptyTypes
    <3>2. avail' \in [Jvms -> SUBSET Keys]
      BY <1>0, <2>2
    <3>3. hooked' \in [Jvms -> BOOLEAN]
      BY <1>0, <2>2
    <3>4. tagmap' \in Tags
      BY <1>0, <2>2, EmptyTypes
    <3> QED BY <3>1, <3>2, <3>3, <3>4
  <2>4. up' \in BOOLEAN /\ connected' \in SUBSET Players
    BY <2>2
  <2> QED BY <1>0, <2>1, <2>2, <2>3, <2>4
<1>22. CASE UNCHANGED vars
  BY <1>0, <1>22 DEF vars
<1>26. ASSUME NEW g \in Guests, OwnWorldStarts(g)
       PROVE  TypeOK' /\ CursorOK'
  <2>1. /\ [Idle EXCEPT !.pc = "home"] \in
              [pc : Pcs, todo : Tags, cur : Keys \union {Absent}]
        /\ [Idle EXCEPT !.pc = "home"].pc = "home"
    BY EmptyTypes DEF Idle, Pcs
  <2>2. g \in Jvms /\ g \in Players /\ g \in Threads
    BY DEF Jvms, Guests, Threads
  <2>3. thread' = [thread EXCEPT ![g] = [Idle EXCEPT !.pc = "home"]]
    BY <1>26 DEF OwnWorldStarts
  <2>4. /\ thread' \in [Threads -> [pc : Pcs, todo : Tags, cur : Keys \union {Absent}]]
        /\ CursorOK'
    BY <1>0, <2>1, <2>3
  <2>5. /\ providers' \in [Jvms -> Seq(Entry)]
        /\ avail' \in [Jvms -> SUBSET Keys]
        /\ heard' \in [Players -> SUBSET Tags]
        /\ joins' \in Nat
    BY <1>0, <1>26, <2>2, EmptyTypes DEF OwnWorldStarts
  <2> QED BY <1>0, <1>26, <2>4, <2>5 DEF OwnWorldStarts
<1>27. ASSUME NEW g \in Guests, NEW k \in Keys, NEW d \in OwnDefs,
              OwnWorldLoads(g, k, d)
       PROVE  TypeOK' /\ CursorOK'
  <2>1. d \in Defs /\ g \in Jvms /\ g \in Threads
    BY OwnDefsAssumption DEF Jvms, Threads, Guests
  <2>2. providers' \in [Jvms -> Seq(Entry)]
    BY <1>0, <1>27, <2>1, AppendProperties DEF OwnWorldLoads, Entry
  <2>3. renderers' \in [Jvms -> Tags]
    BY <1>0, <1>27, <2>1, RenderersType DEF OwnWorldLoads
  <2>4. thread' = thread \/ thread' = [thread EXCEPT ![g] = Idle]
    BY <1>27, Zenon DEF OwnWorldLoads
  <2>5. /\ thread' \in [Threads -> [pc : Pcs, todo : Tags, cur : Keys \union {Absent}]]
        /\ CursorOK'
    <3>1. CASE thread' = thread
      BY <1>0, <3>1
    <3>2. CASE thread' = [thread EXCEPT ![g] = Idle]
      BY <1>0, <2>1, <3>2, EmptyTypes, NextPc
    <3> QED BY <2>4, <3>1, <3>2
  <2>6. hooked[g] \/ Shape[d].filters \in BOOLEAN
    BY <1>0, <2>1, ShapeAssumption DEF DefShape
  <2>7. hooked' \in [Jvms -> BOOLEAN]
    BY <1>0, <1>27, <2>6 DEF OwnWorldLoads
  <2>8. avail' \in [Jvms -> SUBSET Keys]
    BY <1>0, <1>27 DEF OwnWorldLoads
  <2> QED BY <1>0, <1>27, <2>2, <2>3, <2>5, <2>7, <2>8 DEF OwnWorldLoads
<1>28. ASSUME NEW g \in Guests, OwnWorldEnds(g)
       PROVE  TypeOK' /\ CursorOK'
  BY <1>0, <1>28, EmptyTypes DEF OwnWorldEnds, Idle
<1> QED
  BY <1>0, <1>23, <1>24, <1>25, <1>26, <1>27, <1>28, <1>1, <1>2, <1>3, <1>4, <1>5, <1>6, <1>7, <1>8, <1>9, <1>10, <1>11, <1>12,
     <1>13, <1>14, <1>15, <1>16, <1>17, <1>18, <1>19, <1>20, <1>21, <1>22
  DEF Next, ApplyStep, ClientStep, RaceStep, OwnWorldStep

(* Every table, packet and thread keeps its shape.  In particular the      *)
(* entry a thread is working on is one of the files or packet entries it   *)
(* was given: publish and render steps never read past them.               *)
THEOREM TypeInvariant == Spec => []TypeInv
<1>1. Init => TypeInv
  BY InitTypeInv
<1>2. TypeInv /\ [Next]_vars => TypeInv'
  BY NextTypeInv
<1> QED BY <1>1, <1>2, PTL DEF Spec

(* Every variable keeps to its type. *)
THEOREM TypeCorrect == Spec => []TypeOK
<1>1. TypeInv => TypeOK
  BY DEF TypeInv
<1> QED BY <1>1, TypeInvariant, PTL

-----------------------------------------------------------------------------
(* Adds that have read the list and not written it yet.                    *)

(* Only the threads of a JVM that two of them share stall.  While nothing  *)
(* is tainted, what a stalled add has read is still the server's list, or  *)
(* the list is another object by now; and apply() does not run over the    *)
(* owner's stalled add.                                                    *)
SeenInv ==
  \A t \in Threads : thread[t].pc = "store" =>
    /\ t \in {Server, Owner} /\ Owner \in Players
    /\ seen[t].object <= reloads
    /\ t = Server => seen[t].object = reloads
    /\ ~tainted /\ seen[t].object = reloads =>
         /\ seen[t].list = providers[Server]
         /\ t = Owner => ~Applying

LEMMA InitSeenInv == Init => SeenInv
BY DEF Init, SeenInv, Idle

(* Steps that stall nobody and leave the server's list alone. *)
LEMMA SeenFrame ==
  ASSUME SeenInv, UNCHANGED <<seen, reloads>>, tainted => tainted',
         Applying' => Applying,
         \A t \in Threads : thread'[t].pc = "store" => thread[t].pc = "store",
         (Owner \in Players => providers'[Server] = providers[Server])
  PROVE  SeenInv'
BY DEF SeenInv

(* The tainting of the server's tables is forgotten only by a new apply(). *)
LEMMA StaysTainted ==
  ASSUME [Next]_vars, \A t \in Tags : ~ StartApply(t), tainted
  PROVE  tainted'
BY Zenon DEF Next, ApplyStep, ClientStep, RaceStep, OwnWorldStep, ResetTables,
   ApplyAdd, ApplyAddFails, ApplyPublish, ApplyAnnounce, ApplyAnnounceFails,
   ApplyRender, ApplyRenderFails, AbortApply, BroadcastSync, Join, BeginPacket,
   ClientAdd, ClientAddFails, ClientPublish, ClientRender, ClientRenderFails,
   Taint, Stall, LateStore, RacePublish, RaceRender, Leave, RestartClient,
   StopServer, OwnWorldStarts, OwnWorldLoads, OwnWorldEnds, vars

(* Only the server thread's own steps start or end apply(). *)
LEMMA NextSeenInv == TypeInv /\ SeenInv /\ [Next]_vars => SeenInv'
<1> SUFFICES ASSUME TypeInv, SeenInv, [Next]_vars
             PROVE  SeenInv'
  OBVIOUS
<1>0. /\ Server \in Threads /\ Server \in Jvms /\ Players \subseteq Threads
      /\ Server \notin Players /\ Guests \subseteq Players
      /\ \A p \in Players : JvmOf(p) # Server => p \in Guests
      /\ \A g \in Guests : JvmOf(g) = g
      /\ TypeOK
  BY ThreadsAssumption DEF Threads, Jvms, TypeInv, Guests, JvmOf
<1>1. ASSUME NEW t \in Tags, StartApply(t)
      PROVE  SeenInv'
  <2>1. /\ reloads' = reloads + 1 /\ seen' = seen /\ reloads \in Nat
        /\ thread'[Server].pc = "reset"
        /\ \A u \in Threads : u # Server => thread'[u] = thread[u]
        /\ \A u \in Threads : seen[u].object \in Nat
    BY <1>0, <1>1 DEF StartApply, TypeOK
  <2> QED BY <1>0, <2>1 DEF SeenInv
<1>2. ASSUME NEW t \in {Server, Owner}, NEW k \in Keys, Stall(t, k)
      PROVE  SeenInv'
  <2>1. /\ Owner \in Players /\ t \in Threads /\ thread[t].pc = "add"
        /\ seen'[t] = [object |-> reloads, list |-> providers[Server]]
        /\ \A u \in Threads : u # t => seen'[u] = seen[u] /\ thread'[u] = thread[u]
        /\ UNCHANGED <<providers, reloads>>
        /\ tainted' = (tainted \/ (t = Owner /\ Applying))
        /\ reloads \in Nat
    BY <1>0, <1>2 DEF Stall, Taint, TypeOK, tables
  <2>2. t = Owner => Applying' = Applying
    BY <1>0, <2>1 DEF Applying
  <2>3. t = Server => Applying
    BY <2>1 DEF Applying
  <2>4. thread[Server].pc = "store" => Applying
    BY DEF Applying
  <2>5. CASE t = Server
    <3>1. /\ Owner # Server /\ thread[Server].pc = "add" /\ Applying
          /\ tainted => tainted'
      BY <1>0, <2>1, <2>3, <2>5
    <3> QED BY <1>0, <2>1, <2>5, <3>1 DEF SeenInv
  <2>6. CASE t = Owner
    <3>1. Owner # Server
      BY <1>0, <2>1
    <3>2. ASSUME NEW u \in Threads, thread'[u].pc = "store"
          PROVE  u = Owner \/ (u = Server /\ tainted')
      BY <2>1, <2>4, <2>6, <3>2 DEF SeenInv
    <3>3. thread[Server].pc = "store" => seen[Server].object = reloads
      BY <1>0 DEF SeenInv
    <3>4. ~tainted' => ~Applying'
      BY <2>1, <2>2, <2>6
    <3>5. thread'[Server] = thread[Server] /\ seen'[Server] = seen[Server]
      BY <1>0, <2>1, <2>6, <3>1
    <3>6. /\ seen'[Owner].object = reloads' /\ reloads' <= reloads'
          /\ seen'[Owner].list = providers'[Server]
      BY <2>1, <2>6
    <3> QED BY <1>0, <2>1, <3>1, <3>2, <3>3, <3>4, <3>5, <3>6 DEF SeenInv
  <2> QED BY <2>5, <2>6
<1>3. ASSUME NEW t \in Threads, LateStore(t)
      PROVE  SeenInv'
  <2>1. /\ thread[t].pc = "store" /\ thread'[t].pc = "publish"
        /\ \A u \in Threads : u # t => seen'[u] = seen[u] /\ thread'[u] = thread[u]
        /\ reloads' = reloads
        /\ tainted' = (tainted \/ (t = Owner /\ Applying))
    BY <1>0, <1>3 DEF LateStore, Taint, TypeOK, At
  <2>2. thread[Server].pc = "store" => Applying
    BY DEF Applying
  <2> QED BY <1>0, <2>1, <2>2 DEF SeenInv
<1>4. ASSUME NEW k \in Keys, ApplyAdd(k)
      PROVE  SeenInv'
  <2>1. /\ Applying /\ UNCHANGED <<seen, reloads, tainted>>
        /\ thread'[Server].pc = "publish"
        /\ \A u \in Threads : u # Server => thread'[u] = thread[u]
    BY <1>0, <1>4 DEF ApplyAdd, TypeOK, At, Applying
  <2> QED BY <1>0, <2>1 DEF SeenInv
<1>5. ASSUME NEW p \in Players, NEW k \in Keys, ClientAdd(p, k)
      PROVE  SeenInv'
  <2>1. /\ UNCHANGED <<seen, reloads>>
        /\ thread'[p].pc = "publish"
        /\ \A u \in Threads : u # p => thread'[u] = thread[u]
        /\ tainted' = (tainted \/ (p = Owner /\ Applying))
    BY <1>0, <1>5 DEF ClientAdd, TypeOK, At, Taint
  <2>2. Applying' = Applying
    BY <1>0, <2>1 DEF Applying
  <2>3. p # Owner => providers'[Server] = providers[Server]
    BY <1>0, <1>5 DEF ClientAdd, TypeOK, Guests
  <2>4. thread[Server].pc = "store" => Applying
    BY DEF Applying
  <2> QED BY <1>0, <2>1, <2>2, <2>3, <2>4 DEF SeenInv
<1>6. CASE \/ ResetTables \/ ApplyPublish \/ ApplyAnnounce \/ ApplyAnnounceFails
           \/ ApplyRender \/ ApplyRenderFails \/ BroadcastSync
           \/ \E k \in Keys : ApplyAddFails(k)
  <2>1. PICK next : thread' = [thread EXCEPT ![Server] = next] /\ next.pc # "store"
    BY <1>6 DEF ResetTables, ApplyPublish, ApplyAnnounce, ApplyAnnounceFails,
       ApplyRender, ApplyRenderFails, BroadcastSync, ApplyAddFails, AbortApply,
       At, Continue, Idle, ApplyEnd
  <2>2. Applying' => Applying
    BY <1>6 DEF ResetTables, ApplyPublish, ApplyAnnounce, ApplyAnnounceFails,
       ApplyRender, ApplyRenderFails, BroadcastSync, ApplyAddFails, AbortApply,
       Applying, Idle, TypeInv, TypeOK, Threads
  <2>3. UNCHANGED <<seen, reloads, providers, tainted>>
    BY <1>6, Zenon DEF ResetTables, ApplyPublish, ApplyAnnounce, ApplyAnnounceFails,
       ApplyRender, ApplyRenderFails, BroadcastSync, ApplyAddFails, AbortApply,
       tables
  <2>4. \A t \in Threads : thread'[t].pc = "store" => thread[t].pc = "store"
    BY <1>0, <2>1 DEF TypeOK
  <2> QED BY <2>2, <2>3, <2>4, SeenFrame
<1>7. ASSUME NEW p \in Players,
             \/ BeginPacket(p) \/ ClientPublish(p) \/ ClientRender(p)
             \/ ClientRenderFails(p) \/ \E k \in Keys : ClientAddFails(p, k)
      PROVE  SeenInv'
  <2>1. PICK next : thread' = [thread EXCEPT ![p] = next] /\ next.pc # "store"
    <3>1. CASE BeginPacket(p)
      <4>1. (IF Present(Head(inbox[p])) = {} THEN Idle
             ELSE [pc |-> "add", todo |-> Head(inbox[p]), cur |-> Absent]).pc # "store"
        BY NextPc
      <4> QED BY <3>1, <4>1, Zenon DEF BeginPacket
    <3>2. CASE \/ ClientPublish(p) \/ ClientRender(p) \/ ClientRenderFails(p)
               \/ \E k \in Keys : ClientAddFails(p, k)
      BY <3>2, NextPc DEF ClientPublish, ClientRender, ClientRenderFails,
         ClientAddFails
    <3> QED BY <1>7, <3>1, <3>2
  <2>2. UNCHANGED <<seen, reloads, providers>>
    BY <1>7, Zenon DEF BeginPacket, ClientPublish, ClientRender, ClientRenderFails,
       ClientAddFails, tables
  <2>4. tainted => tainted'
    BY <1>7, Zenon DEF BeginPacket, ClientPublish, ClientRender, ClientRenderFails,
       ClientAddFails, Taint
  <2>3. /\ \A t \in Threads : thread'[t].pc = "store" => thread[t].pc = "store"
        /\ thread'[Server] = thread[Server]
    BY <1>0, <2>1 DEF TypeOK
  <2> QED BY <2>2, <2>3, <2>4, SeenFrame DEF Applying
<1>8. ASSUME NEW p \in Players, Join(p) \/ Leave(p)
      PROVE  SeenInv'
  <2>1. UNCHANGED <<providers, seen, reloads, thread, tainted>>
    BY <1>8, Zenon DEF Join, Leave, tables
  <2> QED BY <2>1, SeenFrame DEF Applying
<1>9. CASE RacePublish \/ RaceRender
  <2>1. /\ UNCHANGED <<seen, reloads, providers>> /\ tainted' = TRUE
        /\ Owner \in Threads /\ Owner # Server /\ Applying
    BY <1>0, <1>9 DEF RacePublish, RaceRender, BothAt, Applying
  <2>2. PICK next, last : /\ thread' = [thread EXCEPT ![Server] = next,
                                                     ![Owner] = last]
                         /\ next.pc # "store" /\ last.pc # "store"
    <3>1. \/ thread' = [thread EXCEPT
                          ![Server] = At(Server, "announce", thread[Server].cur),
                          ![Owner] = AfterPublish(Owner)]
          \/ thread' = [thread EXCEPT
                          ![Server] = Continue(Server, thread[Server].cur, ApplyEnd),
                          ![Owner] = Continue(Owner, thread[Owner].cur, "idle")]
      BY <1>9, Zenon DEF RacePublish, RaceRender
    <3>2. ApplyEnd # "store"
      BY DEF ApplyEnd
    <3> QED BY <3>1, <3>2, NextPc
  <2>3. \A t \in Threads : thread'[t].pc = "store" => thread[t].pc = "store"
    BY <1>0, <2>1, <2>2 DEF TypeOK
  <2> QED BY <2>1, <2>3, SeenFrame
<1>10. ASSUME NEW g \in Guests, OwnWorldStep(g) \/ RestartClient(g)
       PROVE  SeenInv'
  <2>1. /\ g # Server /\ g \in Threads
        /\ UNCHANGED <<seen, reloads, tainted>>
        /\ \E list : \/ providers' = providers
                     \/ providers' = [providers EXCEPT ![g] = list]
        /\ \E next : /\ next.pc # "store"
                     /\ \/ thread' = thread
                        \/ thread' = [thread EXCEPT ![g] = next]
    BY <1>0, <1>10 DEF OwnWorldStep, OwnWorldStarts, OwnWorldLoads, OwnWorldEnds,
       RestartClient, Idle, tables
  <2>2. /\ providers'[Server] = providers[Server]
        /\ thread'[Server] = thread[Server]
        /\ \A t \in Threads : thread'[t].pc = "store" => thread[t].pc = "store"
    BY <1>0, <2>1 DEF TypeOK
  <2> QED BY <2>1, <2>2, SeenFrame DEF Applying
<1>11. CASE StopServer
  <2>1. UNCHANGED <<seen, reloads, tainted, thread>>
    BY <1>11 DEF StopServer
  <2>2. Owner \in Players => providers' = providers
    <3>1. Owner \in Players => Owner # NoOwner
      BY ThreadsAssumption
    <3> QED BY <1>11, <3>1, Zenon DEF StopServer, tables
  <2> QED BY <2>1, <2>2, SeenFrame DEF Applying
<1>12. CASE UNCHANGED vars
  BY <1>12, SeenFrame, Zenon DEF vars, tables, Applying
<1>13. \A p \in Players : RestartClient(p) => p \in Guests
  BY DEF RestartClient
<1> QED
  BY <1>0, <1>1, <1>2, <1>3, <1>4, <1>5, <1>6, <1>7, <1>8, <1>9, <1>10, <1>11,
     <1>12, <1>13
  DEF Next, ApplyStep, ClientStep, RaceStep

LEMMA SeenInvariant == Spec => []SeenInv
<1>1. Init => SeenInv
  BY InitSeenInv
<1>2. TypeInv /\ SeenInv /\ [Next]_vars => SeenInv'
  BY NextSeenInv
<1> QED BY TypeInvariant, <1>1, <1>2, PTL DEF Spec

(* An add that nobody came between is an add like any other. *)
LEMMA StoredUndisturbed ==
  ASSUME NEW list \in Seq(Entry), NEW e \in Entry
  PROVE  Stored(list, list, e) = {Append(list, e)}
<1>1. Len(list) \in Nat
  BY LenProperties
<1>2. SubSeq(list, Len(list) + 1, Len(list)) = <<>>
  BY <1>1, SubSeqEmpty
<1>3. list \o <<>> = list
  BY ConcatEmptySeq
<1>4. Append(list, e) = list \o <<e>>
  BY AppendIsConcat
<1> QED BY <1>1, <1>2, <1>3, <1>4 DEF Stored

(* What a stalled add does to the server's list while nothing is tainted.  *)
LEMMA LateStoreUntainted ==
  ASSUME TypeInv, SeenInv, NEW t \in Threads, LateStore(t), ~tainted'
  PROVE  LET e == [key |-> thread[t].cur, def |-> thread[t].todo[thread[t].cur],
                   full |-> t = Server]
         IN /\ e \in Entry
            /\ \/ providers' = [providers EXCEPT ![Server] = Append(@, e)]
               \/ t # Server /\ providers' = providers
<1> DEFINE e == [key |-> thread[t].cur, def |-> thread[t].todo[thread[t].cur],
                 full |-> t = Server]
<1>1. e \in Entry
  BY CursorType DEF LateStore, Inside, Entry
<1>2. thread[t].pc = "store" /\ ~tainted /\ providers[Server] \in Seq(Entry)
  BY Zenon DEF LateStore, Taint, TypeInv, TypeOK, Jvms
<1>3. CASE seen[t].object = reloads
  <2>1. seen[t].list = providers[Server]
    BY <1>2, <1>3 DEF SeenInv
  <2>2. \E list \in Stored(providers[Server], seen[t].list, e) :
          providers' = [providers EXCEPT ![Server] = list]
    BY <1>3, Zenon DEF LateStore
  <2> HIDE DEF e
  <2>3. Stored(providers[Server], seen[t].list, e) = {Append(providers[Server], e)}
    BY <1>1, <1>2, <2>1, StoredUndisturbed
  <2>4. providers' = [providers EXCEPT ![Server] = Append(@, e)]
    BY <2>2, <2>3
  <2> QED BY <1>1, <2>4 DEF e
<1>4. CASE seen[t].object # reloads
  <2>1. t # Server
    BY <1>2, <1>4 DEF SeenInv
  <2>2. providers' = providers
    BY <1>4, Zenon DEF LateStore
  <2> QED BY <1>1, <2>1, <2>2
<1> QED BY <1>3, <1>4

-----------------------------------------------------------------------------
(* The first-match lookup.                                                 *)

(* A non-empty set of natural numbers has a least element. *)
LEMMA LeastNat ==
  ASSUME NEW T, T \subseteq Nat, T # {}
  PROVE  \E x \in T : \A y \in T : x <= y
<1> DEFINE R == OpToRel(<, Nat)
<1>1. IsWellFoundedOn(R, Nat)
  BY ONLY NatLessThanWellFounded, Zenon
<1>2. \A x, y \in Nat : y < x => <<y, x>> \in R
  BY Zenon DEF OpToRel
<1> HIDE DEF R
<1>3. PICK x \in T : \A y \in T : ~ (<<y, x>> \in R)
  BY <1>1, WFMin
<1>4. \A y \in T : ~ (y < x)
  BY <1>2, <1>3
<1> QED BY <1>3, <1>4

LEMMA KeysOfMatches ==
  ASSUME NEW list \in Seq(Entry), NEW k
  PROVE  k \in KeysOf(list) <=> Matches(list, k) # {}
BY DEF KeysOf, Matches

(* A key that was added resolves to one of the entries added under it. *)
LEMMA ResolveBound ==
  ASSUME NEW list \in Seq(Entry), NEW k, k \in KeysOf(list)
  PROVE  /\ Resolve(list, k) \in Entry
         /\ Resolve(list, k) # Absent
         /\ Resolve(list, k).key = k
         /\ \E i \in DOMAIN list : Resolve(list, k) = list[i]
<1>1. Matches(list, k) # {} /\ Matches(list, k) \subseteq Nat
  BY KeysOfMatches, LenProperties DEF Matches
<1>2. FirstMatches(list, k) # {}
  BY <1>1, LeastNat DEF FirstMatches
<1>3. PICK i \in FirstMatches(list, k) : Resolve(list, k) = list[i]
  BY <1>1, <1>2 DEF Resolve
<1>4. i \in DOMAIN list /\ list[i].key = k
  BY <1>3 DEF FirstMatches, Matches
<1>5. list[i] \in Entry
  BY <1>4, ElementOfSeq, LenProperties
<1> QED BY <1>3, <1>4, <1>5, AbsentAssumption

(* A key that was not added resolves to nothing. *)
LEMMA ResolveUnbound ==
  ASSUME NEW list \in Seq(Entry), NEW k, k \notin KeysOf(list)
  PROVE  Resolve(list, k) = Absent
BY KeysOfMatches DEF Resolve

LEMMA ResolveEmpty == KeysOf(<<>>) = {} /\ \A k : Resolve(<<>>, k) = Absent
<1>1. DOMAIN <<>> = {}
  OBVIOUS
<1> QED BY <1>1 DEF Resolve, Matches, KeysOf

(* Adding an entry binds its key if that was not bound, and changes what   *)
(* no other key, and no bound key, resolves to.                            *)
LEMMA ResolveAppend ==
  ASSUME NEW list \in Seq(Entry), NEW e \in Entry
  PROVE  /\ Append(list, e) \in Seq(Entry)
         /\ KeysOf(Append(list, e)) = KeysOf(list) \union {e.key}
         /\ \A k : k # e.key \/ k \in KeysOf(list) =>
              Resolve(Append(list, e), k) = Resolve(list, k)
         /\ e.key \notin KeysOf(list) => Resolve(Append(list, e), e.key) = e
<1> DEFINE new == Append(list, e)
<1>1. /\ new \in Seq(Entry)
      /\ Len(list) \in Nat
      /\ DOMAIN list = 1..Len(list)
      /\ DOMAIN new = 1..(Len(list) + 1)
      /\ \A i \in 1..Len(list) : new[i] = list[i]
      /\ new[Len(list) + 1] = e
  BY AppendProperties, LenProperties
<1> HIDE DEF new
<1>2. KeysOf(new) = KeysOf(list) \union {e.key}
  BY <1>1 DEF KeysOf
<1>3. \A k : Matches(new, k) = Matches(list, k)
                 \union (IF k = e.key THEN {Len(list) + 1} ELSE {})
  BY <1>1 DEF Matches
<1>4. ASSUME NEW k, k \in KeysOf(list)
      PROVE  Resolve(new, k) = Resolve(list, k)
  <2>1. Matches(list, k) # {} /\ Matches(list, k) \subseteq 1..Len(list)
    BY <1>1, <1>4, KeysOfMatches DEF Matches
  <2>2. FirstMatches(new, k) = FirstMatches(list, k)
    BY <1>1, <1>3, <2>1 DEF FirstMatches
  <2>3. Matches(new, k) # {}
    BY <1>3, <2>1
  <2>4. FirstMatches(list, k) # {}
    BY <1>1, <2>1, LeastNat DEF FirstMatches
  <2>5. PICK i : i = CHOOSE j \in FirstMatches(list, k) : TRUE
    OBVIOUS
  <2>6. i \in 1..Len(list)
    BY <2>1, <2>4, <2>5 DEF FirstMatches
  <2>7. Resolve(new, k) = new[i] /\ Resolve(list, k) = list[i]
    BY <2>1, <2>2, <2>3, <2>5 DEF Resolve
  <2> QED BY <1>1, <2>6, <2>7
<1>5. ASSUME NEW k, k # e.key, k \notin KeysOf(list)
      PROVE  Resolve(new, k) = Resolve(list, k)
  BY <1>1, <1>2, <1>5, ResolveUnbound
<1>6. ASSUME e.key \notin KeysOf(list)
      PROVE  Resolve(new, e.key) = e
  <2>1. Matches(new, e.key) = {Len(list) + 1}
    BY <1>3, <1>6, KeysOfMatches
  <2>2. FirstMatches(new, e.key) = {Len(list) + 1}
    BY <1>1, <2>1 DEF FirstMatches
  <2>3. (CHOOSE i \in FirstMatches(new, e.key) : TRUE) = Len(list) + 1
    BY <2>2
  <2> QED BY <1>1, <2>1, <2>3 DEF Resolve
<1> QED BY <1>1, <1>2, <1>4, <1>5, <1>6 DEF new

-----------------------------------------------------------------------------
(* The registry implements the write-once map.                             *)

(* What any step may do to the lists of providers: drop one JVM's list, or *)
(* put one entry at its end; and anything to the server's, which two       *)
(* threads share, when it taints it or finds it tainted.                   *)
LEMMA ProvidersStep ==
  ASSUME TypeInv, SeenInv, [Next]_vars
  PROVE  \/ providers' = providers
         \/ \E j \in Jvms : providers' = [providers EXCEPT ![j] = <<>>]
         \/ \E j \in Jvms, e \in Entry :
              providers' = [providers EXCEPT ![j] = Append(@, e)]
         \/ tainted' /\ \E list : providers' = [providers EXCEPT ![Server] = list]
<1>0. /\ Server \in Threads /\ Server \in Jvms /\ Players \subseteq Threads
      /\ \A p \in Players : JvmOf(p) \in Jvms
      /\ Guests \subseteq Jvms
      /\ TypeOK
  BY JvmType DEF Threads, Jvms, TypeInv
<1>1. ASSUME NEW t \in Tags, StartApply(t)
      PROVE  providers' = [providers EXCEPT ![Server] = <<>>]
  BY <1>1 DEF StartApply
<1>2. ASSUME NEW k \in Keys, ApplyAdd(k)
      PROVE  \E e \in Entry : providers' = [providers EXCEPT ![Server] = Append(@, e)]
  BY <1>0, <1>2, EntryType DEF ApplyAdd
<1>3. ASSUME NEW p \in Players, NEW k \in Keys, ClientAdd(p, k)
      PROVE  \E e \in Entry :
               providers' = [providers EXCEPT ![JvmOf(p)] = Append(@, e)]
  BY <1>0, <1>3, EntryType DEF ClientAdd
<1>4. ASSUME NEW t \in Threads, LateStore(t)
      PROVE  \/ providers' = providers
             \/ \E e \in Entry : providers' = [providers EXCEPT ![Server] = Append(@, e)]
             \/ tainted' /\ \E list : providers' = [providers EXCEPT ![Server] = list]
  <2>1. CASE tainted'
    BY <1>4, <2>1, Zenon DEF LateStore
  <2>2. CASE ~tainted'
    BY <1>4, <2>2, LateStoreUntainted
  <2> QED BY <2>1, <2>2
<1>5. ASSUME NEW p \in Players, RestartClient(p)
      PROVE  p \in Jvms /\ providers' = [providers EXCEPT ![p] = <<>>]
  BY <1>5 DEF RestartClient, Jvms
<1>6. ASSUME StopServer
      PROVE  \/ providers' = providers
             \/ providers' = [providers EXCEPT ![Server] = <<>>]
  BY <1>6, Zenon DEF StopServer, tables
<1>7. CASE \/ ResetTables \/ ApplyPublish \/ ApplyAnnounce \/ ApplyAnnounceFails
           \/ ApplyRender \/ ApplyRenderFails
           \/ BroadcastSync \/ RacePublish \/ RaceRender \/ UNCHANGED vars
           \/ \E k \in Keys : ApplyAddFails(k)
           \/ \E t \in {Server, Owner}, k \in Keys : Stall(t, k)
  BY <1>7, Zenon DEF ResetTables, ApplyPublish, ApplyAnnounce, ApplyAnnounceFails,
     ApplyRender, ApplyRenderFails, BroadcastSync, RacePublish, RaceRender,
     ApplyAddFails, Stall, vars, tables
<1>8. ASSUME NEW p \in Players,
             \/ BeginPacket(p) \/ ClientPublish(p) \/ ClientRender(p)
             \/ ClientRenderFails(p) \/ Join(p) \/ Leave(p)
             \/ \E k \in Keys : ClientAddFails(p, k)
      PROVE  providers' = providers
  BY <1>8, Zenon DEF BeginPacket, ClientPublish, ClientRender, ClientRenderFails,
     Join, Leave, ClientAddFails, tables
<1>9. ASSUME NEW g \in Guests, OwnWorldStep(g)
      PROVE  \/ providers' = providers
             \/ providers' = [providers EXCEPT ![g] = <<>>]
             \/ \E e \in Entry : providers' = [providers EXCEPT ![g] = Append(@, e)]
  BY <1>9, OwnDefsAssumption DEF OwnWorldStep, OwnWorldStarts, OwnWorldLoads,
     OwnWorldEnds, tables, Entry
<1>10. \/ \E t \in Tags : StartApply(t)
       \/ \E k \in Keys : ApplyAdd(k)
       \/ \E p \in Players, k \in Keys : ClientAdd(p, k)
       \/ \E t \in Threads : LateStore(t)
       \/ \E p \in Players : RestartClient(p)
       \/ StopServer
       \/ \/ ResetTables \/ ApplyPublish \/ ApplyAnnounce \/ ApplyAnnounceFails
          \/ ApplyRender \/ ApplyRenderFails
          \/ BroadcastSync \/ RacePublish \/ RaceRender \/ UNCHANGED vars
          \/ \E k \in Keys : ApplyAddFails(k)
          \/ \E t \in {Server, Owner}, k \in Keys : Stall(t, k)
       \/ \E p \in Players :
            \/ BeginPacket(p) \/ ClientPublish(p) \/ ClientRender(p)
            \/ ClientRenderFails(p) \/ Join(p) \/ Leave(p)
            \/ \E k \in Keys : ClientAddFails(p, k)
       \/ \E g \in Guests : OwnWorldStep(g)
  BY <1>0, Zenon DEF Next, ApplyStep, ClientStep, RaceStep
<1> QED BY <1>0, <1>1, <1>2, <1>3, <1>4, <1>5, <1>6, <1>7, <1>8, <1>9, <1>10

LEMMA RegistryInit == Init => Map!Init
BY ResolveEmpty DEF Init, registry, Map!Init, Map!Empty

LEMMA RegistryStep ==
  ASSUME TypeInv, TypeInv', SeenInv, [Next]_vars
  PROVE  [Map!Next]_registry
<1>0. providers \in [Jvms -> Seq(Entry)] /\ providers' \in [Jvms -> Seq(Entry)]
  BY DEF TypeInv, TypeOK
<1>1. CASE providers' = providers
  BY <1>1 DEF registry
<1>2. ASSUME NEW j \in Jvms, providers' = [providers EXCEPT ![j] = <<>>]
      PROVE  Map!Drop(j)
  BY <1>0, <1>2, ResolveEmpty DEF registry, Map!Drop, Map!Empty
<1>3. ASSUME NEW j \in Jvms, NEW e \in Entry,
             providers' = [providers EXCEPT ![j] = Append(@, e)]
      PROVE  registry' = registry \/ Map!Bind(j, e.key, e)
  <2>1. e.key \in Keys
    BY DEF Entry
  <2>2. CASE e.key \in KeysOf(providers[j])
    <3>1. \A i \in Jvms, k \in Keys :
            Resolve(providers'[i], k) = Resolve(providers[i], k)
      BY <1>0, <1>3, <2>2, ResolveAppend
    <3> QED BY <3>1 DEF registry
  <2>3. CASE e.key \notin KeysOf(providers[j])
    <3>1. Resolve(providers[j], e.key) = Absent
      BY <1>0, <2>3, ResolveUnbound
    <3>2. \A i \in Jvms, k \in Keys :
            Resolve(providers'[i], k) =
              IF i = j /\ k = e.key THEN e ELSE Resolve(providers[i], k)
      BY <1>0, <1>3, <2>3, ResolveAppend
    <3> QED BY <2>1, <3>1, <3>2 DEF registry, Map!Bind
  <2> QED BY <2>2, <2>3
<1>4. ASSUME tainted', NEW list, providers' = [providers EXCEPT ![Server] = list]
      PROVE  Map!Race(Server)
  <2>1. \A j \in Jvms, k \in Keys :
          Resolve(providers'[j], k) \in Entry \union {Absent}
    BY <1>0, ResolveBound, ResolveUnbound
  <2>2. registry' \in [Jvms -> [Keys -> Entry \union {Absent}]]
    BY <2>1 DEF registry
  <2>3. \A j \in Jvms \ {Server} : registry'[j] = registry[j]
    BY <1>0, <1>4 DEF registry
  <2> QED BY <1>4, <2>2, <2>3 DEF Map!Race
<1> QED
  <2>1. \A e \in Entry : e.key \in Keys
    BY DEF Entry
  <2>2. Server \in Jvms
    BY DEF Jvms
  <2> QED BY <1>1, <1>2, <1>3, <1>4, <2>1, <2>2, ProvidersStep DEF Map!Next

(* In every JVM and whatever reloads, packets, failures and restarts       *)
(* happen, NpcBranchPatchProvider.get answers for a model with the         *)
(* provider it was first bound to until the provider object or the process *)
(* is replaced; excepted is the server's own object from the moment that   *)
(* the owner's client writes a table during apply() until the next apply() *)
(* makes a new one, which no add to the old object reaches.                *)
THEOREM RegistryIsWriteOnceMap == Spec => ImplementsWriteOnceMap
<1>1. TypeInv /\ TypeInv' /\ SeenInv /\ [Next]_vars => [Map!Next]_registry
  BY RegistryStep
<1> QED BY RegistryInit, TypeInvariant, SeenInvariant, <1>1, PTL DEF Spec, ImplementsWriteOnceMap, Map!Spec

-----------------------------------------------------------------------------
(* The server serves what it announces.                                    *)

FullEntry(k, d) == [key |-> k, def |-> d, full |-> TRUE]
Body == {"publish", "announce", "render"}

(* Models that the server has a provider for and does not announce. *)
CutKeys == {k \in KeysOf(providers[Server]) : k \notin Present(tagmap)}

(* Why ServerServesItsTagmap holds, step by step: nothing of the old       *)
(* provider object survives StartApply; the entries still to do are not    *)
(* bound yet, so that the entry added for a key is the first match of that *)
(* key; and a key enters TAGMAP only after its provider, the next thing    *)
(* that a dedicated server does, or else fails to.                         *)
ResetInv ==
  thread[Server].pc = "reset" => providers[Server] = <<>>

AnnouncedInv ==
  thread[Server].pc # "reset" =>
    \A k \in Present(tagmap) :
      /\ hooked[Server]
      /\ k \in KeysOf(providers[Server])
      /\ Resolve(providers[Server], k) = FullEntry(k, tagmap[k])

TodoInv ==
  thread[Server].pc \in {"add", "store"} \union Body =>
    \A k \in Present(thread[Server].todo) \cap KeysOf(providers[Server]) :
      thread[Server].pc \in Body /\ k = thread[Server].cur

PublishInv ==
  LET k == thread[Server].cur IN
  thread[Server].pc \in {"publish", "announce"} =>
    /\ k \in KeysOf(providers[Server])
    /\ Resolve(providers[Server], k) = FullEntry(k, thread[Server].todo[k])

NothingElseInv ==
  Owner = NoOwner /\ thread[Server].pc # "reset" =>
    \A k \in CutKeys :
      /\ \A l \in CutKeys : k = l
      /\ \/ thread[Server].pc \in {"publish", "announce"} /\ k = thread[Server].cur
         \/ /\ thread[Server].pc = "idle" /\ failed
            /\ ~Shape[Resolve(providers[Server], k).def].filters

ServerBody == ResetInv /\ AnnouncedInv /\ TodoInv /\ PublishInv /\ NothingElseInv
ServerInv == ~tainted => ServerBody

(* Steps that leave what ServerInv is about alone. *)
LEMMA ServerFrame ==
  ASSUME ServerBody, providers'[Server] = providers[Server],
         hooked'[Server] = hooked[Server], tagmap' = tagmap,
         thread'[Server] = thread[Server], failed => failed'
  PROVE  ServerBody'
BY DEF ServerBody, ResetInv, AnnouncedInv, TodoInv, PublishInv, NothingElseInv,
   CutKeys

LEMMA InitServerInv == Init => ServerInv
BY EmptyTypes, ResolveEmpty, ThreadsAssumption DEF Init, ServerInv, ServerBody,
   ResetInv, AnnouncedInv, TodoInv, PublishInv, NothingElseInv, Threads, Jvms,
   Idle, NoTags, Present, Body, CutKeys

LEMMA StartServerInv ==
  ASSUME TypeInv, NEW t \in Tags, StartApply(t)
  PROVE  ServerInv'
<1>1. providers'[Server] = <<>> /\ thread'[Server].pc = "reset"
  BY DEF TypeInv, TypeOK, StartApply, Threads, Jvms
<1> QED
  BY <1>1 DEF ServerInv, ServerBody, ResetInv, AnnouncedInv, TodoInv,
     PublishInv, NothingElseInv, Body

LEMMA ResetServerInv ==
  ASSUME TypeInv, ServerBody, ResetTables
  PROVE  ServerBody'
<1> DEFINE next == At(Server, IF Present(thread[Server].todo) = {}
                              THEN ApplyEnd ELSE "add", Absent)
<1>1. thread' = [thread EXCEPT ![Server] = next] /\ Server \in Threads
  BY DEF ResetTables, Threads
<1>2. next.pc \in {"idle", "applied", "add"} /\ next.todo = thread[Server].todo
  BY DEF At, ApplyEnd
<1>3. thread'[Server] = next
  BY <1>1 DEF TypeInv, TypeOK
<1> HIDE DEF next
<1>4. providers' = providers /\ providers[Server] = <<>> /\ tagmap' = NoTags
  BY DEF ResetTables, ServerBody, ResetInv
<1>5. KeysOf(providers'[Server]) = {} /\ Present(tagmap') = {}
  BY <1>4, ResolveEmpty DEF Present, NoTags
<1> QED
  BY <1>2, <1>3, <1>5 DEF ServerBody, ResetInv, AnnouncedInv, TodoInv,
     PublishInv, NothingElseInv, Body, CutKeys

(* The server's add of entry k, stalled or not. *)
LEMMA AddServerInv ==
  ASSUME TypeInv, ServerBody, NEW k \in Keys,
         thread[Server].pc \in {"add", "store"}, thread[Server].todo[k] # Absent,
         providers' = [providers EXCEPT ![Server] =
                         Append(@, FullEntry(k, thread[Server].todo[k]))],
         thread' = [thread EXCEPT ![Server] = At(Server, "publish", k)],
         UNCHANGED <<tagmap, hooked>>
  PROVE  ServerBody'
<1> DEFINE e == FullEntry(k, thread[Server].todo[k])
           list == providers[Server]
<1>0. Server \in Threads /\ Server \in Jvms /\ TypeOK /\ list \in Seq(Entry)
  BY DEF Threads, Jvms, TypeInv, TypeOK
<1>1. e \in Entry /\ e.key = k
  BY <1>0, EntryType DEF FullEntry
<1>2. /\ providers'[Server] = Append(list, e)
      /\ thread'[Server] = At(Server, "publish", k)
      /\ tagmap' = tagmap /\ hooked' = hooked
  BY <1>0 DEF TypeOK
<1>3. /\ At(Server, "publish", k).pc = "publish"
      /\ At(Server, "publish", k).todo = thread[Server].todo
      /\ At(Server, "publish", k).cur = k
  BY DEF At
<1>4. thread[Server].pc \in {"add", "store"} /\ k \in Present(thread[Server].todo)
  BY DEF Present
<1>5. k \notin KeysOf(list)
  BY <1>4 DEF ServerBody, TodoInv, Body
<1> HIDE DEF e, list
<1>6. /\ KeysOf(providers'[Server]) = KeysOf(list) \union {k}
      /\ Resolve(providers'[Server], k) = e
      /\ \A l \in KeysOf(list) : Resolve(providers'[Server], l) = Resolve(list, l)
  BY <1>0, <1>1, <1>2, <1>5, ResolveAppend
<1>7. AnnouncedInv'
  BY <1>2, <1>3, <1>4, <1>6 DEF ServerBody, AnnouncedInv, list
<1>8. TodoInv' /\ ResetInv'
  BY <1>2, <1>3, <1>4, <1>6 DEF ServerBody, TodoInv, ResetInv, Body, list
<1>9. PublishInv'
  BY <1>2, <1>3, <1>6 DEF PublishInv, e
<1>10. NothingElseInv'
  BY <1>2, <1>3, <1>4, <1>6 DEF ServerBody, NothingElseInv, list, CutKeys
<1> QED BY <1>7, <1>8, <1>9, <1>10 DEF ServerBody

(* What is left to do after entry k does not contain k. *)
LEMMA RestPresent ==
  ASSUME TypeOK, NEW t \in Threads, NEW k \in Keys
  PROVE  /\ Present(Rest(t, k)) = Present(thread[t].todo) \ {k}
         /\ \A end : Continue(t, k, end).pc \in {"add", end}
         /\ \A end : Continue(t, k, end).todo = Rest(t, k)
<1>1. thread[t].todo \in [Keys -> Defs \union {Absent}]
  BY DEF TypeOK, Tags
<1> QED BY <1>1 DEF Rest, Present, Continue

LEMMA PublishServerInv ==
  ASSUME TypeInv, ServerBody, ApplyPublish
  PROVE  ServerBody'
<1>1. /\ thread[Server].pc = "publish"
      /\ thread'[Server] = [pc |-> "announce", todo |-> thread[Server].todo,
                            cur |-> thread[Server].cur]
      /\ UNCHANGED <<providers, tagmap, hooked>>
  BY DEF ApplyPublish, At, TypeInv, TypeOK, Threads
<1> QED
  BY <1>1 DEF ServerBody, ResetInv, AnnouncedInv, TodoInv, PublishInv,
     NothingElseInv, Body, CutKeys

LEMMA AnnounceServerInv ==
  ASSUME TypeInv, ServerBody, ApplyAnnounce
  PROVE  ServerBody'
<1> DEFINE k == thread[Server].cur
           d == thread[Server].todo[k]
           next == IF Side(Server) = "server" THEN Continue(Server, k, ApplyEnd)
                   ELSE At(Server, "render", k)
<1>0. /\ Server \in Threads /\ Server \in Jvms /\ TypeOK
      /\ thread[Server].pc = "announce"
  BY DEF Threads, Jvms, TypeInv, ApplyAnnounce
<1>1. k \in Keys /\ d \in Defs
  BY <1>0, CursorType DEF Inside
<1>2. thread'[Server] = next
  BY <1>0 DEF ApplyAnnounce, TypeOK
<1>3. /\ next.pc \in {"idle", "applied", "add", "render"}
      /\ Present(next.todo) \subseteq Present(thread[Server].todo)
      /\ next.pc = "add" => k \notin Present(next.todo)
      /\ next.pc = "render" => next.cur = k
  BY <1>0, <1>1, RestPresent DEF At, ApplyEnd, Continue
<1>4. /\ providers' = providers
      /\ hooked'[Server] = TRUE
      /\ tagmap' = [tagmap EXCEPT ![k] = d]
  BY <1>0 DEF ApplyAnnounce, TypeOK
<1>5. /\ tagmap'[k] = d
      /\ \A l \in Keys : l # k => tagmap'[l] = tagmap[l]
      /\ Present(tagmap') = Present(tagmap) \union {k}
  BY <1>0, <1>1, <1>4, AbsentAssumption DEF TypeOK, Tags, Present
<1> HIDE DEF next, k, d
<1>6. AnnouncedInv'
  <2>1. k \in KeysOf(providers[Server])
        /\ Resolve(providers[Server], k) = FullEntry(k, d)
    BY <1>0 DEF ServerBody, PublishInv, k, d
  <2> QED BY <1>0, <1>4, <1>5, <2>1 DEF ServerBody, AnnouncedInv
<1>7. TodoInv' /\ ResetInv' /\ PublishInv'
  BY <1>0, <1>2, <1>3, <1>4
  DEF ServerBody, TodoInv, ResetInv, PublishInv, Body, k
<1>8. NothingElseInv'
  BY <1>0, <1>2, <1>3, <1>4, <1>5 DEF ServerBody, NothingElseInv, CutKeys, k
<1> QED BY <1>6, <1>7, <1>8 DEF ServerBody

LEMMA RenderServerInv ==
  ASSUME TypeInv, ServerBody, ApplyRender
  PROVE  ServerBody'
<1> DEFINE k == thread[Server].cur
           next == Continue(Server, k, ApplyEnd)
<1>0. Server \in Threads /\ TypeOK /\ thread[Server].pc = "render" /\ k \in Keys
  BY CursorType DEF Threads, TypeInv, ApplyRender, Inside
<1>1. thread'[Server] = next
  BY <1>0 DEF ApplyRender, TypeOK
<1>2. /\ next.pc \in {"idle", "applied", "add"}
      /\ Present(next.todo) = Present(thread[Server].todo) \ {k}
  BY <1>0, RestPresent DEF ApplyEnd
<1>3. providers' = providers /\ hooked' = hooked /\ tagmap' = tagmap
  BY DEF ApplyRender
<1> HIDE DEF next
<1> QED
  BY <1>0, <1>1, <1>2, <1>3 DEF ServerBody, ResetInv, AnnouncedInv, TodoInv,
     PublishInv, NothingElseInv, Body, CutKeys

LEMMA AbortServerInv ==
  ASSUME TypeInv, ServerBody, thread[Server].pc \in {"add", "render", "applied"},
         thread' = [thread EXCEPT ![Server] = Idle],
         providers' = providers, hooked' = hooked, tagmap' = tagmap
  PROVE  ServerBody'
<1>1. thread'[Server].pc = "idle"
  BY DEF TypeInv, TypeOK, Threads, Idle
<1> QED
  BY <1>1 DEF ServerBody, ResetInv, AnnouncedInv, TodoInv, PublishInv,
     NothingElseInv, Body, CutKeys

(* filterClientData cuts apply() short behind the add of one entry. *)
LEMMA CutServerInv ==
  ASSUME TypeInv, ServerBody, ApplyAnnounceFails
  PROVE  ServerBody'
<1>1. /\ thread[Server].pc = "announce" /\ thread'[Server].pc = "idle"
      /\ UNCHANGED <<providers, tagmap, hooked>> /\ failed' = TRUE
      /\ ~Shape[thread[Server].todo[thread[Server].cur]].filters
  BY DEF ApplyAnnounceFails, AbortApply, TypeInv, TypeOK, Threads, Idle, tables
<1>2. Resolve(providers[Server], thread[Server].cur).def =
        thread[Server].todo[thread[Server].cur]
  BY <1>1 DEF ServerBody, PublishInv, FullEntry
<1>3. NothingElseInv'
  BY <1>1, <1>2 DEF ServerBody, NothingElseInv, CutKeys
<1> QED
  BY <1>1, <1>3 DEF ServerBody, ResetInv, AnnouncedInv, TodoInv, PublishInv, Body

(* The owner's client adds an entry while apply() is not running. *)
LEMMA OwnerAddServerInv ==
  ASSUME TypeInv, ServerBody, Owner \in Players, NEW e \in Entry, ~Applying,
         providers' = [providers EXCEPT ![Server] = Append(@, e)],
         thread'[Server] = thread[Server], UNCHANGED <<tagmap, hooked>>
  PROVE  ServerBody'
<1> DEFINE list == providers[Server]
<1>0. /\ Server \in Jvms /\ TypeOK /\ list \in Seq(Entry) /\ Owner # NoOwner
  BY ThreadsAssumption DEF Jvms, TypeInv, TypeOK
<1>1. providers'[Server] = Append(list, e)
  BY <1>0 DEF TypeOK
<1>2. thread[Server].pc \notin {"reset", "add", "store"} \union Body
  BY DEF Applying, Body
<1> HIDE DEF list
<1>3. /\ KeysOf(list) \subseteq KeysOf(providers'[Server])
      /\ \A l \in KeysOf(list) : Resolve(providers'[Server], l) = Resolve(list, l)
  BY <1>0, <1>1, ResolveAppend
<1> QED
  BY <1>0, <1>2, <1>3 DEF ServerBody, ResetInv, AnnouncedInv, TodoInv, PublishInv,
     NothingElseInv, Body, list

LEMMA StopServerInv ==
  ASSUME TypeInv, ServerBody, StopServer
  PROVE  ServerBody'
<1>0. Server \in Jvms /\ TypeOK /\ thread[Server].pc = "idle"
  BY DEF Jvms, TypeInv, StopServer
<1>1. CASE Owner = NoOwner
  <2>1. providers'[Server] = <<>> /\ tagmap' = NoTags /\ thread' = thread
    BY <1>0, <1>1 DEF StopServer, TypeOK
  <2>2. KeysOf(providers'[Server]) = {} /\ Present(tagmap') = {}
    BY <2>1, ResolveEmpty DEF Present, NoTags
  <2> QED
    BY <1>0, <2>1, <2>2 DEF ServerBody, ResetInv, AnnouncedInv, TodoInv,
       PublishInv, NothingElseInv, Body, CutKeys
<1>2. CASE Owner # NoOwner
  BY <1>2, ServerFrame, Zenon DEF StopServer, tables
<1> QED BY <1>1, <1>2

LEMMA NextServerInv == TypeInv /\ SeenInv /\ ServerInv /\ [Next]_vars => ServerInv'
<1> SUFFICES ASSUME TypeInv, SeenInv, ServerInv, [Next]_vars, ~tainted',
                    \A t \in Tags : ~ StartApply(t)
             PROVE  ServerBody'
  BY StartServerInv DEF ServerInv
<1>0. /\ \A p \in Players : p # Server /\ p \in Threads
      /\ \A p \in Players : p # Owner => JvmOf(p) = p
      /\ Server \in Threads /\ Guests \subseteq Players
      /\ TypeOK
  BY ThreadsAssumption DEF Threads, JvmOf, TypeInv, Guests
<1>1. ServerBody
  BY StaysTainted DEF ServerInv
<1>2. CASE ResetTables
  BY <1>1, <1>2, ResetServerInv
<1>3. ASSUME NEW k \in Keys, ApplyAdd(k)
      PROVE  ServerBody'
  BY <1>1, <1>3, AddServerInv DEF ApplyAdd, FullEntry
<1>4. CASE ApplyRenderFails \/ (\E k \in Keys : ApplyAddFails(k)) \/ BroadcastSync
  BY <1>1, <1>4, AbortServerInv DEF ApplyRenderFails, ApplyAddFails, AbortApply,
     BroadcastSync, tables
<1>5. CASE ApplyPublish \/ ApplyAnnounce \/ ApplyAnnounceFails
  BY <1>1, <1>5, PublishServerInv, AnnounceServerInv, CutServerInv
<1>6. CASE ApplyRender
  BY <1>1, <1>6, RenderServerInv
<1>7. CASE RacePublish \/ RaceRender
  BY <1>7, Zenon DEF RacePublish, RaceRender
<1>15. ASSUME NEW t \in {Server, Owner}, NEW k \in Keys, Stall(t, k)
       PROVE  ServerBody'
  <2>1. /\ UNCHANGED <<providers, hooked, tagmap, failed>>
        /\ Owner \in Players /\ thread[t].pc = "add"
        /\ thread' = [thread EXCEPT ![t] = At(t, "store", k)]
    BY <1>15 DEF Stall, tables
  <2>2. CASE t = Server
    <3>1. /\ thread'[Server].pc = "store"
          /\ thread'[Server].todo = thread[Server].todo
      BY <2>1, <2>2 DEF TypeInv, TypeOK, Threads, At
    <3>2. Owner # NoOwner
      BY <2>1, ThreadsAssumption
    <3> QED
      BY <1>1, <2>1, <2>2, <3>1, <3>2 DEF ServerBody, ResetInv, AnnouncedInv,
         TodoInv, PublishInv, NothingElseInv, Body
  <2>3. CASE t # Server
    <3>1. thread'[Server] = thread[Server]
      BY <2>1, <2>3 DEF TypeInv, TypeOK, Threads
    <3> QED BY <1>1, <2>1, <3>1, ServerFrame
  <2> QED BY <2>2, <2>3
<1>16. ASSUME NEW t \in Threads, LateStore(t)
       PROVE  ServerBody'
  <2>1. /\ UNCHANGED <<hooked, tagmap, failed>>
        /\ thread[t].pc = "store"
        /\ thread' = [thread EXCEPT ![t] = At(t, "publish", thread[t].cur)]
        /\ t \in {Server, Owner} /\ Owner \in Players
        /\ t = Owner => ~Applying
        /\ thread[t].cur \in Keys /\ thread[t].todo[thread[t].cur] # Absent
    BY <1>16, CursorType, AbsentAssumption
    DEF LateStore, Taint, SeenInv, Inside
  <2>2. CASE t = Server
    <3>1. providers' = [providers EXCEPT ![Server] =
             Append(@, FullEntry(thread[Server].cur,
                                 thread[Server].todo[thread[Server].cur]))]
      BY <1>16, <2>2, LateStoreUntainted DEF FullEntry
    <3> QED BY <1>1, <2>1, <2>2, <3>1, AddServerInv
  <2>3. CASE t # Server
    <3>1. thread'[Server] = thread[Server]
      BY <2>1, <2>3 DEF TypeInv, TypeOK, Threads
    <3>2. \/ providers' = providers
          \/ \E e \in Entry : providers' = [providers EXCEPT ![Server] = Append(@, e)]
      BY <1>16, LateStoreUntainted
    <3> QED BY <1>1, <2>1, <2>3, <3>1, <3>2, ServerFrame, OwnerAddServerInv
  <2> QED BY <2>2, <2>3
<1>8. ASSUME NEW p \in Players, NEW k \in Keys, ClientAdd(p, k)
      PROVE  ServerBody'
  <2>1. CASE p = Owner
    <3> DEFINE e == [key |-> k, def |-> thread[Owner].todo[k], full |-> FALSE]
    <3>1. e \in Entry
      BY <1>0, <1>8, <2>1, EntryType DEF ClientAdd
    <3>2. /\ providers' = [providers EXCEPT ![Server] = Append(@, e)]
          /\ thread'[Server] = thread[Server] /\ ~Applying
          /\ UNCHANGED <<tagmap, hooked>>
      <4>1. ~Applying
        BY <1>8, <2>1, Zenon DEF ClientAdd, Taint
      <4> QED BY <1>0, <1>8, <2>1, <4>1 DEF ClientAdd, JvmOf, TypeOK
    <3> HIDE DEF e
    <3> QED BY <1>1, <2>1, <3>1, <3>2, OwnerAddServerInv
  <2>2. CASE p # Owner
    <3>1. /\ providers'[Server] = providers[Server]
          /\ thread'[Server] = thread[Server]
          /\ UNCHANGED <<hooked, tagmap, failed>>
      BY <1>0, <1>8, <2>2 DEF ClientAdd, TypeOK
    <3> QED BY <1>1, <3>1, ServerFrame
  <2> QED BY <2>1, <2>2
<1>9. ASSUME NEW p \in Players, ClientPublish(p)
      PROVE  ServerBody'
  <2>1. CASE p = Owner
    <3>1. thread[Server].pc \notin {"reset", "add", "store"} \union Body
      BY <1>9, <2>1 DEF ClientPublish, Taint, Applying, Body
    <3>2. /\ providers' = providers /\ tagmap' = tagmap
          /\ thread'[Server] = thread[Server]
          /\ hooked[Server] => hooked'[Server]
          /\ Owner # NoOwner
      BY <1>0, <1>9, <2>1, ThreadsAssumption DEF ClientPublish, TypeOK
    <3> QED
      BY <1>1, <3>1, <3>2 DEF ServerBody, ResetInv, AnnouncedInv, TodoInv,
         PublishInv, NothingElseInv, Body
  <2>2. CASE p # Owner
    <3>1. JvmOf(p) = p /\ p # Server
      BY <1>0, <2>2
    <3>2. /\ providers' = providers /\ tagmap' = tagmap
          /\ hooked' = [hooked EXCEPT ![p] = TRUE]
          /\ thread' = [thread EXCEPT ![p] = AfterPublish(p)]
          /\ failed' = failed
      BY <1>9, <3>1 DEF ClientPublish
    <3>3. hooked'[Server] = hooked[Server] /\ thread'[Server] = thread[Server]
      BY <1>0, <3>1, <3>2 DEF TypeOK, Threads, Jvms
    <3> QED BY <1>1, <3>2, <3>3, ServerFrame
  <2> QED BY <2>1, <2>2
<1>10. ASSUME NEW p \in Players,
              \/ BeginPacket(p) \/ ClientRender(p) \/ ClientRenderFails(p)
              \/ \E k \in Keys : ClientAddFails(p, k)
       PROVE  ServerBody'
  <2>1. /\ UNCHANGED <<providers, hooked, tagmap, failed>>
        /\ \E next : thread' = [thread EXCEPT ![p] = next]
    BY <1>10 DEF BeginPacket, ClientRender, ClientRenderFails, ClientAddFails,
       tables
  <2>2. thread'[Server] = thread[Server]
    BY <1>0, <2>1 DEF TypeOK, Threads
  <2> QED BY <1>1, <2>1, <2>2, ServerFrame
<1>11. ASSUME NEW p \in Players, Join(p) \/ Leave(p)
       PROVE  ServerBody'
  <2>1. UNCHANGED <<providers, hooked, tagmap, thread, failed>>
    BY <1>11, Zenon DEF Join, Leave, tables
  <2> QED BY <1>1, <2>1, ServerFrame
<1>12. ASSUME NEW p \in Players, RestartClient(p)
       PROVE  ServerBody'
  <2>1. /\ UNCHANGED <<tagmap, failed>>
        /\ providers' = [providers EXCEPT ![p] = <<>>]
        /\ hooked' = [hooked EXCEPT ![p] = FALSE]
        /\ thread' = [thread EXCEPT ![p] = Idle]
    BY <1>12 DEF RestartClient
  <2>2. /\ providers'[Server] = providers[Server]
        /\ hooked'[Server] = hooked[Server]
        /\ thread'[Server] = thread[Server]
    BY <1>0, <2>1 DEF TypeOK, Threads, Jvms
  <2> QED BY <1>1, <2>1, <2>2, ServerFrame
<1>17. ASSUME NEW g \in Guests, OwnWorldStep(g)
       PROVE  ServerBody'
  <2>1. /\ g # Server /\ UNCHANGED <<tagmap, failed>>
        /\ \E list : \/ providers' = providers
                     \/ providers' = [providers EXCEPT ![g] = list]
        /\ \E is : \/ hooked' = hooked
                   \/ hooked' = [hooked EXCEPT ![g] = is]
        /\ \E next : \/ thread' = thread
                     \/ thread' = [thread EXCEPT ![g] = next]
    BY <1>0, <1>17 DEF OwnWorldStep, OwnWorldStarts, OwnWorldLoads, OwnWorldEnds,
       tables, Guests
  <2>2. /\ providers'[Server] = providers[Server]
        /\ hooked'[Server] = hooked[Server]
        /\ thread'[Server] = thread[Server]
    BY <1>0, <2>1 DEF TypeOK, Threads, Jvms
  <2> QED BY <1>1, <2>1, <2>2, ServerFrame
<1>13. CASE StopServer
  BY <1>1, <1>13, StopServerInv
<1>14. CASE UNCHANGED vars
  <2>1. UNCHANGED <<providers, hooked, tagmap, thread, failed>>
    BY <1>14, Zenon DEF vars, tables
  <2> QED BY <1>1, <2>1, ServerFrame
<1> QED
  BY <1>0, <1>2, <1>3, <1>4, <1>5, <1>6, <1>7, <1>8, <1>9, <1>10, <1>11, <1>12,
     <1>13, <1>14, <1>15, <1>16, <1>17
  DEF Next, ApplyStep, ClientStep, RaceStep

LEMMA ServerInvImplies == TypeInv /\ ServerInv => ServerServesItsTagmap
<1> SUFFICES ASSUME TypeInv, ServerBody, ServerSettled
             PROVE  /\ \A k \in Keys :
                         tagmap[k] # Absent =>
                           ProviderFor(Server, k) = FullEntry(k, tagmap[k])
                    /\ Owner = NoOwner /\ Unannounced # {} =>
                         /\ failed
                         /\ \E k \in Keys :
                              /\ Unannounced = {k}
                              /\ ~Shape[ProviderFor(Server, k).def].filters
  BY DEF ServerInv, ServerServesItsTagmap, FullEntry
<1>1. thread[Server].pc \notin {"reset", "publish", "announce"}
  BY DEF ServerSettled
<1>2. ASSUME NEW k \in Keys, tagmap[k] # Absent
      PROVE  ProviderFor(Server, k) = FullEntry(k, tagmap[k])
  BY <1>1, <1>2 DEF ServerBody, AnnouncedInv, ProviderFor, Present
<1>3. Unannounced \subseteq CutKeys
  <2>1. providers[Server] \in Seq(Entry)
    BY DEF TypeInv, TypeOK, Jvms
  <2>2. ASSUME NEW k \in Keys, ProviderFor(Server, k) # Absent
        PROVE  k \in KeysOf(providers[Server])
    BY <2>1, <2>2, ResolveUnbound DEF ProviderFor
  <2> QED BY <2>2 DEF Unannounced, CutKeys, Present
<1>4. ASSUME Owner = NoOwner, NEW k \in Unannounced
      PROVE  /\ failed /\ Unannounced = {k}
             /\ ~Shape[ProviderFor(Server, k).def].filters
  <2>1. /\ \A l \in CutKeys : k = l
        /\ failed
        /\ ~Shape[Resolve(providers[Server], k).def].filters
    BY <1>1, <1>3, <1>4 DEF ServerBody, NothingElseInv
  <2>2. ProviderFor(Server, k) = Resolve(providers[Server], k)
    BY DEF ProviderFor, Unannounced
  <2> QED BY <1>3, <2>1, <2>2
<1> QED BY <1>2, <1>4 DEF Unannounced

LEMMA ServerInvariant == Spec => []ServerInv
<1>1. Init => ServerInv
  BY InitServerInv
<1>2. TypeInv /\ SeenInv /\ ServerInv /\ [Next]_vars => ServerInv'
  BY NextServerInv
<1> QED BY TypeInvariant, SeenInvariant, <1>1, <1>2, PTL DEF Spec

(* What the server announces is what the server uses: whatever reloads,    *)
(* failed reloads, packets of the owner, restarts and logins came before,  *)
(* a model in TAGMAP resolves on the settled server to the complete        *)
(* provider built from that very content; and a dedicated server resolves  *)
(* no other model, but for the one at which filterClientData has cut the   *)
(* last apply() short.  Only a reload that the owner's client thread wrote *)
(* into is excepted.                                                       *)
THEOREM AnnouncedIsServed == Spec => []ServerServesItsTagmap
<1>1. TypeInv /\ ServerInv => ServerServesItsTagmap
  BY ServerInvImplies
<1> QED BY TypeInvariant, ServerInvariant, <1>1, PTL

=============================================================================
