---------------------------- MODULE ProviderLookup ----------------------------
(***************************************************************************)
(* NpcBranchPatchProvider.get on one thread of a host's JVM while the      *)
(* other thread (the server's in apply(), or the owner's client in         *)
(* processServerPacket) adds providers to the same ArrayList or puts a new *)
(* provider object in its place.  NpcPatchRegistry has a lookup in one     *)
(* step; here it is the iterator's steps, one per read of what the other   *)
(* thread writes.                                                          *)
(*                                                                         *)
(* Nothing orders the accesses of the two threads, so the stores of one    *)
(* add(), to modCount, to the array and to size, become visible in any     *)
(* order.  The list itself is a final field: it is there in every object   *)
(* that is seen.  Two adds at the same time are NpcPatchRegistry's races.  *)
(***************************************************************************)
EXTENDS Naturals, Sequences

CONSTANTS
  Keys,       \* models
  Values,     \* providers
  Absent,     \* the default provider
  Error,      \* an exception leaves get()
  MaxEntries  \* bound: the length of a list of providers

ASSUME LookupNamesAssumption ==
  /\ Absent \notin Values
  /\ Error \notin Values
  /\ Error # Absent
ASSUME EntriesAssumption == MaxEntries \in Nat

Entry == [key : Keys, value : Values]
Stores == {"modCount", "element", "size"}
Objects == {"branch", "dropped"}
Pcs == {"idle", "iterator", "hasNext", "checkModCount", "next"}

VARIABLES
  providers,  \* [Objects -> Seq(Entry)]: the list of branchPatchProvider, and
              \* that of an object it has replaced but get() still runs on;
              \* with the entry that is being added
  stores,     \* stores of the add() under way that are not visible yet
  pc,         \* where get() is
  this, model,       \* its object and the model of its NPC
  expected, cursor,  \* expectedModCount and cursor of its iterator
  answer,     \* what the last get() came to
  disturbed   \* history: during the lookup its list was added to

vars == <<providers, stores, pc, this, model, expected, cursor, answer,
          disturbed>>

-----------------------------------------------------------------------------
(* What the reading thread sees of the ArrayList of object o.              *)

(* A store of the add() that appends the last entry of o is not visible. *)
Late(o, store) == o = "branch" /\ store \in stores

Seen(o, store) ==
  IF Late(o, store) THEN Len(providers[o]) - 1 ELSE Len(providers[o])

Size(o) == Seen(o, "size")
ModCount(o) == Seen(o, "modCount")

(* The array has nothing at this place yet: null. *)
Hole(o, i) == i = Len(providers[o]) /\ Late(o, "element")

TypeOK ==
  /\ providers \in [Objects -> Seq(Entry)]
  /\ stores \in SUBSET Stores
  /\ pc \in Pcs
  /\ this \in Objects
  /\ model \in Keys
  /\ expected \in Nat
  /\ cursor \in Nat /\ cursor <= Size(this)
  /\ answer \in Values \union {Absent, Error}
  /\ disturbed \in BOOLEAN

-----------------------------------------------------------------------------
(* The thread that writes.                                                 *)

(* apply(): branchPatchProvider = new NpcBranchPatchProvider().  A get()   *)
(* under way goes on with the object it was called on.                     *)
NewProvider ==
  /\ stores = {}
  /\ IF pc # "idle" /\ this = "branch"
     THEN /\ providers' = [branch |-> <<>>, dropped |-> providers["branch"]]
          /\ this' = "dropped"
     ELSE /\ providers' = [providers EXCEPT !["branch"] = <<>>]
          /\ this' = this
  /\ UNCHANGED <<stores, pc, model, expected, cursor, answer, disturbed>>

(* addProvider begins: ArrayList.add of entry e. *)
AddProvider(e) ==
  /\ stores = {}
  /\ Len(providers["branch"]) < MaxEntries
  /\ providers' = [providers EXCEPT !["branch"] = Append(@, e)]
  /\ stores' = Stores
  /\ disturbed' = (disturbed \/ (pc # "idle" /\ this = "branch"))
  /\ UNCHANGED <<pc, this, model, expected, cursor, answer>>

(* One of its stores becomes visible. *)
StoreSeen(store) ==
  /\ store \in stores
  /\ stores' = stores \ {store}
  /\ UNCHANGED <<providers, pc, this, model, expected, cursor, answer,
                 disturbed>>

-----------------------------------------------------------------------------
(* The thread that looks model k up.                                       *)

(* It reads branchPatchProvider and calls get(). *)
Get(k) ==
  /\ pc = "idle"
  /\ pc' = "iterator"
  /\ model' = k
  /\ disturbed' = (stores # {})
  /\ UNCHANGED <<providers, stores, this, expected, cursor, answer>>

(* providers.iterator() *)
Iterator ==
  /\ pc = "iterator"
  /\ pc' = "hasNext"
  /\ expected' = ModCount(this)
  /\ UNCHANGED <<providers, stores, this, model, cursor, answer, disturbed>>

(* Mistake: the next lookup goes on with the iterator of this one. *)
ReturnKeepsIterator(result) ==
  /\ pc' = "idle"
  /\ answer' = result
  /\ this' = "branch"
  /\ providers' = [providers EXCEPT !["dropped"] = <<>>]
  /\ UNCHANGED <<stores, model, expected, cursor, disturbed>>

(* get() returns or throws; its iterator and a replaced object are gone. *)
Return(result) ==
  /\ pc' = "idle"
  /\ answer' = result
  /\ this' = "branch"
  /\ providers' = [providers EXCEPT !["dropped"] = <<>>]
  /\ expected' = 0
  /\ cursor' = 0
  /\ UNCHANGED <<stores, model, disturbed>>

GoesOn(step, next) ==
  /\ pc' = step
  /\ cursor' = next
  /\ UNCHANGED <<providers, stores, this, model, expected, answer, disturbed>>

(* Mistake: the last entry of the list is not looked at. *)
HasNextButLast ==
  /\ pc = "hasNext"
  /\ IF cursor + 1 < Size(this) THEN GoesOn("checkModCount", cursor)
     ELSE Return(Absent)

(* hasNext(): cursor is compared with size; at the end the default         *)
(* provider answers.                                                       *)
HasNext ==
  /\ pc = "hasNext"
  /\ IF cursor # Size(this) THEN GoesOn("checkModCount", cursor)
     ELSE Return(Absent)

(* next(): ConcurrentModificationException, if modCount has moved. *)
CheckModCount ==
  /\ pc = "checkModCount"
  /\ IF ModCount(this) # expected THEN Return(Error)
     ELSE GoesOn("next", cursor)

(* Mistake: an entry that does not match is looked at again. *)
NextEntryStays ==
  LET i == cursor + 1 IN
  /\ pc = "next"
  /\ IF Hole(this, i) THEN Return(Error)
     ELSE IF providers[this][i].key = model THEN Return(providers[this][i].value)
     ELSE GoesOn("hasNext", cursor)

(* The entry is fetched, a hole gives a NullPointerException, and its key  *)
(* is compared.                                                            *)
NextEntry ==
  LET i == cursor + 1 IN
  /\ pc = "next"
  /\ IF Hole(this, i) THEN Return(Error)
     ELSE IF providers[this][i].key = model THEN Return(providers[this][i].value)
     ELSE GoesOn("hasNext", i)

-----------------------------------------------------------------------------
Init ==
  /\ providers = [o \in Objects |-> <<>>]
  /\ stores = {}
  /\ pc = "idle"
  /\ this = "branch"
  /\ model \in Keys
  /\ expected = 0
  /\ cursor = 0
  /\ answer = Absent
  /\ disturbed = FALSE

WriterStep ==
  \/ NewProvider
  \/ \E e \in Entry : AddProvider(e)
  \/ \E store \in Stores : StoreSeen(store)

LookupStep == Iterator \/ HasNext \/ CheckModCount \/ NextEntry

Next == WriterStep \/ (\E k \in Keys : Get(k)) \/ LookupStep

Spec == Init /\ [][Next]_vars

(* A thread inside get() goes on; nobody has to write or to ask. *)
FairSpec == Spec /\ WF_vars(LookupStep)

-----------------------------------------------------------------------------
(* Properties.                                                             *)

(* The value of the first entry for key k among the first n of the list. *)
FirstOf(list, n, k) ==
  LET found == {i \in 1..n : list[i].key = k}
  IN IF found = {} THEN Absent
     ELSE list[CHOOSE i \in found : \A j \in found : i <= j].value

bound == [o \in Objects |-> [k \in Keys |-> FirstOf(providers[o], Size(o), k)]]

Lookup == INSTANCE AtomicLookup WITH
  adding <- stores # {}, asking <- pc # "idle", table <- this, key <- model

(* A lookup under way while the list grows, or while a reload puts another *)
(* in its place, answers like one made in a single step: with what its     *)
(* list gives the model at that moment.  The exceptions of the iterator    *)
(* only meet a lookup whose own list is being added to.                    *)
ImplementsAtomicLookup == Lookup!Spec

(* A lookup comes to an end, however fast the other thread adds. *)
LookupEnds == pc # "idle" ~> pc = "idle"

===============================================================================
