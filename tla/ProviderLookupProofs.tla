-------------------------- MODULE ProviderLookupProofs --------------------------
(***************************************************************************)
(* A lookup in a list of providers that another thread fills behaves like  *)
(* one made in a single step: for all models, providers and lengths.       *)
(***************************************************************************)
EXTENDS ProviderLookup, TLAPS, SequenceTheorems, WellFoundedInduction

(* While something is added there is a last entry. *)
AddingOK == stores # {} => providers["branch"] # <<>>

(* What the lookup has passed does not match; before a fetch there is      *)
(* something to fetch.                                                     *)
PassedOK ==
  /\ \A i \in 1..cursor : providers[this][i].key # model
  /\ pc \in {"checkModCount", "next"} => cursor < Size(this)
  /\ pc = "idle" => cursor = 0 /\ this = "branch"
  /\ pc = "iterator" => cursor = 0

(* In an undisturbed lookup nothing is under way in its list, and the list *)
(* is as long as when the iterator was made.                               *)
DisturbedOK ==
  pc # "idle" /\ ~disturbed =>
    /\ this = "branch" => stores = {}
    /\ pc # "iterator" => expected = Len(providers[this])

LookupInv == TypeOK /\ AddingOK /\ PassedOK /\ DisturbedOK

-----------------------------------------------------------------------------
(* Lists.                                                                  *)

(* A set of positions that is not empty has a first. *)
LEMMA FirstPosition ==
  ASSUME NEW S \in SUBSET Nat, S # {}
  PROVE  \E i \in S : \A j \in S : i <= j
<1> DEFINE R == OpToRel(<, Nat)
<1>1. IsWellFoundedOn(R, Nat)
  BY ONLY NatLessThanWellFounded, Zenon
<1>2. \A x, y \in Nat : y < x => <<y, x>> \in R
  BY Zenon DEF OpToRel
<1> HIDE DEF R
<1>3. PICK i \in S : \A j \in S : ~(<<j, i>> \in R)
  BY <1>1, WFMin
<1>4. \A j \in S : ~(j < i)
  BY <1>2, <1>3
<1> QED BY <1>4

(* The first n entries of a list. *)
LEMMA FirstOfFound ==
  ASSUME NEW list \in Seq(Entry), NEW n \in 0..Len(list), NEW k \in Keys,
         NEW i \in 1..n, list[i].key = k,
         \A j \in 1..n : j < i => list[j].key # k
  PROVE  FirstOf(list, n, k) = list[i].value
<1> DEFINE found == {j \in 1..n : list[j].key = k}
<1>1. i \in found /\ \A j \in found : i <= j
  OBVIOUS
<1>2. \A m \in found : (\A j \in found : m <= j) => m = i
  BY <1>1
<1>3. (CHOOSE m \in found : \A j \in found : m <= j) = i
  BY <1>1, <1>2
<1> QED BY <1>1, <1>3 DEF FirstOf

LEMMA FirstOfNone ==
  ASSUME NEW list \in Seq(Entry), NEW n \in 0..Len(list), NEW k \in Keys,
         \A i \in 1..n : list[i].key # k
  PROVE  FirstOf(list, n, k) = Absent
BY DEF FirstOf

(* Every answer is one of these two. *)
LEMMA FirstOfCases ==
  ASSUME NEW list \in Seq(Entry), NEW n \in 0..Len(list), NEW k \in Keys
  PROVE  \/ FirstOf(list, n, k) = Absent /\ \A i \in 1..n : list[i].key # k
         \/ \E i \in 1..n : /\ list[i].key = k
                            /\ \A j \in 1..n : j < i => list[j].key # k
                            /\ FirstOf(list, n, k) = list[i].value
                            /\ list[i].value \in Values
<1> DEFINE found == {j \in 1..n : list[j].key = k}
<1>1. CASE found = {}
  <2>1. \A i \in 1..n : list[i].key # k
    BY <1>1
  <2> QED BY <2>1, FirstOfNone
<1>2. CASE found # {}
  <2>1. found \in SUBSET Nat
    OBVIOUS
  <2>2. PICK i \in found : \A j \in found : i <= j
    BY <1>2, <2>1, FirstPosition
  <2>3. i \in 1..n /\ list[i].key = k /\ \A j \in 1..n : j < i => list[j].key # k
    BY <2>2
  <2>4. FirstOf(list, n, k) = list[i].value
    BY <2>3, FirstOfFound
  <2>5. list[i] \in Entry
    BY <2>3, ElementOfSeq
  <2> QED BY <2>3, <2>4, <2>5 DEF Entry
<1> QED BY <1>1, <1>2

(* Only the entries looked at count. *)
LEMMA FirstOfSame ==
  ASSUME NEW a \in Seq(Entry), NEW b \in Seq(Entry), NEW n \in Nat,
         n <= Len(a), n <= Len(b), \A i \in 1..n : a[i] = b[i], NEW k \in Keys
  PROVE  FirstOf(a, n, k) = FirstOf(b, n, k)
<1> DEFINE found(list) == {i \in 1..n : list[i].key = k}
<1>1. found(a) = found(b)
  OBVIOUS
<1>2. CASE found(a) = {}
  BY <1>1, <1>2 DEF FirstOf
<1>3. CASE found(a) # {}
  <2>1. found(a) \in SUBSET Nat
    OBVIOUS
  <2>2. PICK m \in found(a) : \A j \in found(a) : m <= j
    BY <1>3, <2>1, FirstPosition
  <2>3. m \in 1..n /\ a[m].key = k /\ \A j \in 1..n : j < m => a[j].key # k
    BY <2>2
  <2>4. FirstOf(a, n, k) = a[m].value
    BY <2>3, FirstOfFound
  <2>5. FirstOf(b, n, k) = b[m].value
    BY <2>3, FirstOfFound
  <2> QED BY <2>3, <2>4, <2>5
<1> QED BY <1>2, <1>3

(* One entry more binds its key if it was not bound, and no other. *)
LEMMA FirstOfOneMore ==
  ASSUME NEW list \in Seq(Entry), NEW n \in Nat, n + 1 <= Len(list), NEW k \in Keys
  PROVE  FirstOf(list, n + 1, k) =
           IF k = list[n + 1].key /\ FirstOf(list, n, k) = Absent
           THEN list[n + 1].value ELSE FirstOf(list, n, k)
<1>1. n \in 0..Len(list) /\ n + 1 \in 0..Len(list)
  OBVIOUS
<1>2. CASE FirstOf(list, n, k) = Absent /\ \A i \in 1..n : list[i].key # k
  <2>1. CASE list[n + 1].key = k
    <3>1. FirstOf(list, n + 1, k) = list[n + 1].value
      BY <1>1, <1>2, <2>1, FirstOfFound
    <3> QED BY <1>2, <2>1, <3>1
  <2>2. CASE list[n + 1].key # k
    <3>1. \A i \in 1..(n + 1) : list[i].key # k
      BY <1>2, <2>2
    <3>2. FirstOf(list, n + 1, k) = Absent
      BY <1>1, <3>1, FirstOfNone
    <3> QED BY <1>2, <2>2, <3>2
  <2> QED BY <2>1, <2>2
<1>3. ASSUME NEW i \in 1..n, list[i].key = k, \A j \in 1..n : j < i => list[j].key # k,
             FirstOf(list, n, k) = list[i].value, list[i].value \in Values
      PROVE  FirstOf(list, n + 1, k) = FirstOf(list, n, k) /\ FirstOf(list, n, k) # Absent
  <2>1. i \in 1..(n + 1) /\ \A j \in 1..(n + 1) : j < i => list[j].key # k
    BY <1>3
  <2>2. FirstOf(list, n + 1, k) = list[i].value
    BY <1>1, <1>3, <2>1, FirstOfFound
  <2> QED BY <1>3, <2>2, LookupNamesAssumption
<1> QED BY <1>1, <1>2, <1>3, FirstOfCases

-----------------------------------------------------------------------------
(* The invariant.                                                          *)

LEMMA SizeType ==
  ASSUME TypeOK, AddingOK, NEW o \in Objects
  PROVE  /\ Size(o) \in 0..Len(providers[o])
         /\ ModCount(o) \in 0..Len(providers[o])
<1>1. providers[o] \in Seq(Entry)
  BY DEF TypeOK
<1>2. o = "branch" /\ stores # {} => Len(providers[o]) > 0
  BY <1>1 DEF AddingOK
<1> QED BY <1>1, <1>2 DEF Size, ModCount, Seen, Late

LEMMA InitInv == Init => LookupInv
<1> SUFFICES ASSUME Init PROVE LookupInv
  OBVIOUS
<1>1. providers \in [Objects -> Seq(Entry)] /\ providers["branch"] = <<>>
  BY EmptySeq DEF Init, Objects
<1>2. Size(this) = 0
  BY <1>1 DEF Init, Size, Seen, Late
<1>3. disturbed \in BOOLEAN
  BY Zenon DEF Init
<1>4. TypeOK
  BY <1>1, <1>2, <1>3 DEF Init, TypeOK, Objects, Pcs, Stores
<1> QED
  BY <1>1, <1>4 DEF Init, LookupInv, AddingOK, PassedOK, DisturbedOK

(* A return is the end of a lookup, whatever it returns. *)
LEMMA ReturnInv ==
  ASSUME LookupInv, NEW result \in Values \union {Absent, Error}, Return(result)
  PROVE  LookupInv'
<1>1. providers' \in [Objects -> Seq(Entry)] /\ providers'["branch"] = providers["branch"]
  BY EmptySeq DEF LookupInv, TypeOK, Return, Objects
<1>2. Size(this)' = Size("branch")
  BY <1>1 DEF Return, Size, Seen, Late
<1>3. Size("branch") \in Nat
  BY SizeType DEF LookupInv, TypeOK, Objects
<1>4. TypeOK'
  BY <1>1, <1>2, <1>3 DEF LookupInv, TypeOK, Return, Pcs, Objects
<1>5. AddingOK' /\ PassedOK' /\ DisturbedOK'
  BY <1>1 DEF LookupInv, AddingOK, PassedOK, DisturbedOK, Return
<1> QED BY <1>4, <1>5 DEF LookupInv

(* The writing thread. *)
LEMMA WriterInv ==
  ASSUME LookupInv, WriterStep
  PROVE  LookupInv'
<1> USE DEF LookupInv
<1>1. CASE NewProvider
  <2>1. stores = {} /\ stores' = {}
    BY <1>1 DEF NewProvider
  <2>2. CASE pc # "idle" /\ this = "branch"
    <3>1. /\ providers' = [branch |-> <<>>, dropped |-> providers["branch"]]
          /\ this' = "dropped" /\ providers'[this'] = providers[this]
          /\ providers'["branch"] = <<>>
      BY <1>1, <2>2 DEF NewProvider
    <3>2. providers' \in [Objects -> Seq(Entry)]
      BY <3>1, EmptySeq DEF TypeOK, Objects
    <3>3. Size(this)' = Size(this)
      BY <2>1, <2>2, <3>1 DEF Size, Seen, Late
    <3>4. TypeOK'
      BY <1>1, <3>1, <3>2, <3>3 DEF TypeOK, NewProvider, Objects
    <3>5. AddingOK' /\ PassedOK' /\ DisturbedOK'
      BY <1>1, <2>1, <2>2, <3>1, <3>3 DEF AddingOK, PassedOK, DisturbedOK, NewProvider
    <3> QED BY <3>4, <3>5
  <2>3. CASE ~(pc # "idle" /\ this = "branch")
    <3>1. this' = this /\ providers' = [providers EXCEPT !["branch"] = <<>>]
      BY <1>1, <2>3 DEF NewProvider
    <3>2. providers' \in [Objects -> Seq(Entry)]
      BY <3>1, EmptySeq DEF TypeOK, Objects
    <3>3. CASE pc = "idle"
      <4>1. cursor = 0 /\ this = "branch" /\ Size(this)' = 0
        BY <2>1, <3>1, <3>3 DEF PassedOK, TypeOK, Size, Seen, Late, Objects
      <4>2. TypeOK'
        BY <1>1, <3>1, <3>2, <4>1 DEF TypeOK, NewProvider
      <4>3. AddingOK' /\ PassedOK' /\ DisturbedOK'
        BY <1>1, <2>1, <3>3, <4>1 DEF AddingOK, PassedOK, DisturbedOK, NewProvider
      <4> QED BY <4>2, <4>3
    <3>4. CASE this = "dropped"
      <4>1. providers'[this'] = providers[this] /\ Size(this)' = Size(this)
        BY <3>1, <3>4 DEF TypeOK, Size, Seen, Late, Objects
      <4>2. TypeOK'
        BY <1>1, <3>1, <3>2, <4>1 DEF TypeOK, NewProvider
      <4>3. AddingOK' /\ PassedOK' /\ DisturbedOK'
        BY <1>1, <2>1, <3>1, <3>4, <4>1 DEF AddingOK, PassedOK, DisturbedOK, NewProvider
      <4> QED BY <4>2, <4>3
    <3> QED BY <2>3, <3>3, <3>4 DEF TypeOK, Objects
  <2> QED BY <2>2, <2>3
<1>2. ASSUME NEW e \in Entry, AddProvider(e)
      PROVE  LookupInv'
  <2>1. /\ stores = {} /\ stores' = Stores /\ this' = this /\ pc' = pc
        /\ providers' = [providers EXCEPT !["branch"] = Append(@, e)]
    BY <1>2 DEF AddProvider
  <2>2. providers["branch"] \in Seq(Entry)
    BY DEF TypeOK, Objects
  <2>3. /\ Append(providers["branch"], e) \in Seq(Entry)
        /\ Len(Append(providers["branch"], e)) = Len(providers["branch"]) + 1
        /\ \A i \in 1..Len(providers["branch"]) :
             Append(providers["branch"], e)[i] = providers["branch"][i]
    BY <2>2, AppendProperties
  <2>4. providers' \in [Objects -> Seq(Entry)]
    BY <2>1, <2>3 DEF TypeOK, Objects
  <2>5. Size(this)' = Size(this) /\ Size(this) \in 0..Len(providers[this])
    BY <2>1, <2>2, <2>3, <2>4, SizeType DEF TypeOK, Objects, Size, Seen, Late, Stores
  <2>6. \A i \in 1..Size(this) : providers'[this'][i] = providers[this][i]
    BY <2>1, <2>3, <2>5 DEF TypeOK, Objects
  <2>7. disturbed' = (disturbed \/ (pc # "idle" /\ this = "branch"))
    BY <1>2, Zenon DEF AddProvider
  <2>8. TypeOK'
    <3>1. disturbed' \in BOOLEAN
      BY <2>7
    <3> QED BY <1>2, <2>1, <2>4, <2>5, <3>1 DEF TypeOK, AddProvider, Stores
  <2>9. AddingOK'
    <3>1. providers'["branch"] = Append(providers["branch"], e)
      BY <2>1 DEF TypeOK, Objects
    <3> QED BY <2>2, <2>3, <3>1 DEF AddingOK
  <2>10. PassedOK'
    BY <1>2, <2>1, <2>5, <2>6 DEF TypeOK, PassedOK, AddProvider
  <2>11. DisturbedOK'
    <3>1. CASE this = "branch"
      BY <2>1, <2>7, <3>1 DEF DisturbedOK
    <3>2. CASE this # "branch"
      <4>1. providers'[this'] = providers[this] /\ expected' = expected
        BY <1>2, <2>1, <3>2 DEF TypeOK, AddProvider
      <4>2. disturbed' = disturbed
        BY <2>7, <3>2 DEF TypeOK
      <4> QED BY <2>1, <3>2, <4>1, <4>2 DEF DisturbedOK
    <3> QED BY <3>1, <3>2
  <2> QED BY <2>8, <2>9, <2>10, <2>11
<1>3. ASSUME NEW store \in Stores, StoreSeen(store)
      PROVE  LookupInv'
  <2>1. providers' = providers /\ this' = this /\ pc' = pc /\ disturbed' = disturbed
        /\ stores' = stores \ {store} /\ stores # {}
    BY <1>3 DEF StoreSeen
  <2>2. this \in Objects /\ Size(this) \in 0..Len(providers[this])
    BY SizeType DEF TypeOK
  <2>3. Size(this)' \in {Size(this), Size(this) + 1}
    BY <2>1, <2>2 DEF TypeOK, Size, Seen, Late, Stores
  <2>4. TypeOK'
    BY <1>3, <2>1, <2>2, <2>3 DEF TypeOK, StoreSeen
  <2>5. AddingOK' /\ PassedOK' /\ DisturbedOK'
    BY <1>3, <2>1, <2>2, <2>3 DEF TypeOK, AddingOK, PassedOK, DisturbedOK, StoreSeen
  <2> QED BY <2>4, <2>5
<1> QED BY <1>1, <1>2, <1>3 DEF WriterStep

(* The thread that looks up. *)
LEMMA GetInv ==
  ASSUME LookupInv, NEW k \in Keys, Get(k)
  PROVE  LookupInv'
<1>1. Size(this)' = Size(this) /\ disturbed' = (stores # {})
  BY Zenon DEF Get, Size, Seen, Late
<1>2. TypeOK'
  <2>1. disturbed' \in BOOLEAN
    BY <1>1
  <2> QED BY <1>1, <2>1 DEF LookupInv, TypeOK, Get, Pcs
<1>3. AddingOK' /\ PassedOK'
  BY DEF LookupInv, TypeOK, AddingOK, PassedOK, Get
<1>4. DisturbedOK'
  BY <1>1 DEF LookupInv, DisturbedOK, Get
<1> QED BY <1>2, <1>3, <1>4 DEF LookupInv

(* What an iterator sees of a list nobody adds to is the list. *)
LEMMA UndisturbedView ==
  ASSUME LookupInv, pc # "idle", ~disturbed
  PROVE  Size(this) = Len(providers[this]) /\ ModCount(this) = Len(providers[this])
<1>1. this = "branch" => stores = {}
  BY DEF LookupInv, DisturbedOK
<1> QED BY <1>1 DEF Size, ModCount, Seen, Late

LEMMA IteratorInv ==
  ASSUME LookupInv, Iterator
  PROVE  LookupInv'
<1>1. Size(this)' = Size(this) /\ this \in Objects
  BY DEF LookupInv, TypeOK, Iterator, Size, Seen, Late
<1>2. expected' \in Nat
  BY <1>1, SizeType DEF LookupInv, Iterator
<1>3. TypeOK'
  BY <1>1, <1>2 DEF LookupInv, TypeOK, Iterator, Pcs
<1>4. AddingOK' /\ PassedOK'
  BY DEF LookupInv, AddingOK, PassedOK, Iterator
<1>5. DisturbedOK'
  BY UndisturbedView DEF LookupInv, DisturbedOK, Iterator
<1> QED BY <1>3, <1>4, <1>5 DEF LookupInv

(* The iterator moves: what it relies on at the next step. *)
LEMMA GoesOnInv ==
  ASSUME LookupInv, pc \in Pcs \ {"idle", "iterator"},
         NEW step \in {"hasNext", "checkModCount", "next"}, NEW n \in Nat,
         n <= Size(this),
         \A i \in 1..n : providers[this][i].key # model,
         step # "hasNext" => n < Size(this),
         GoesOn(step, n)
  PROVE  LookupInv'
<1>1. Size(this)' = Size(this)
  BY DEF GoesOn, Size, Seen, Late
<1>2. TypeOK'
  BY <1>1 DEF LookupInv, TypeOK, GoesOn, Pcs
<1>3. AddingOK' /\ PassedOK' /\ DisturbedOK'
  BY <1>1 DEF LookupInv, AddingOK, PassedOK, DisturbedOK, GoesOn, Pcs
<1> QED BY <1>2, <1>3 DEF LookupInv

(* The entry a fetch finds. *)
LEMMA FetchType ==
  ASSUME LookupInv, pc = "next"
  PROVE  /\ this \in Objects /\ providers[this] \in Seq(Entry)
         /\ Size(this) \in 0..Len(providers[this])
         /\ cursor \in Nat /\ cursor + 1 <= Size(this)
         /\ providers[this][cursor + 1] \in Entry
<1>1. this \in Objects /\ providers[this] \in Seq(Entry) /\ cursor \in Nat
  BY DEF LookupInv, TypeOK
<1>2. Size(this) \in 0..Len(providers[this])
  BY <1>1, SizeType DEF LookupInv
<1>3. cursor + 1 <= Size(this)
  BY <1>1, <1>2 DEF LookupInv, PassedOK
<1>4. providers[this][cursor + 1] \in Entry
  BY <1>1, <1>2, <1>3, ElementOfSeq
<1> QED BY <1>1, <1>2, <1>3, <1>4

LEMMA StepInv ==
  ASSUME LookupInv, LookupStep
  PROVE  LookupInv'
<1>0. cursor \in Nat /\ cursor <= Size(this) /\ Size(this) \in Nat
  BY SizeType DEF LookupInv, TypeOK
<1>1. CASE HasNext
  <2>1. CASE cursor # Size(this)
    <3>1. GoesOn("checkModCount", cursor) /\ pc = "hasNext"
      BY <1>1, <2>1 DEF HasNext
    <3> QED BY <1>0, <2>1, <3>1, GoesOnInv DEF LookupInv, PassedOK, Pcs
  <2>2. CASE cursor = Size(this)
    BY <1>1, <2>2, ReturnInv DEF HasNext
  <2> QED BY <2>1, <2>2
<1>2. CASE CheckModCount
  <2>1. CASE ModCount(this) = expected
    <3>1. GoesOn("next", cursor) /\ pc = "checkModCount"
      BY <1>2, <2>1 DEF CheckModCount
    <3> QED BY <1>0, <3>1, GoesOnInv DEF LookupInv, PassedOK, Pcs
  <2>2. CASE ModCount(this) # expected
    BY <1>2, <2>2, ReturnInv DEF CheckModCount
  <2> QED BY <2>1, <2>2
<1>3. CASE NextEntry
  <2>1. CASE Hole(this, cursor + 1)
    BY <1>3, <2>1, ReturnInv DEF NextEntry
  <2>2. CASE ~Hole(this, cursor + 1) /\ providers[this][cursor + 1].key = model
    <3>1. providers[this][cursor + 1].value \in Values
      BY <1>3, FetchType DEF NextEntry, Entry
    <3> QED BY <1>3, <2>2, <3>1, ReturnInv DEF NextEntry
  <2>3. CASE ~Hole(this, cursor + 1) /\ providers[this][cursor + 1].key # model
    <3>1. GoesOn("hasNext", cursor + 1) /\ pc = "next"
      BY <1>3, <2>3 DEF NextEntry
    <3>2. \A i \in 1..(cursor + 1) : providers[this][i].key # model
      BY <1>0, <2>3 DEF LookupInv, PassedOK
    <3> QED BY <1>0, <3>1, <3>2, FetchType, GoesOnInv DEF Pcs
  <2> QED BY <2>1, <2>2, <2>3
<1> QED BY <1>1, <1>2, <1>3, IteratorInv DEF LookupStep

LEMMA StutterInv ==
  ASSUME LookupInv, UNCHANGED vars
  PROVE  LookupInv'
BY DEF LookupInv, TypeOK, AddingOK, PassedOK, DisturbedOK, vars, Size, Seen, Late

(* Types hold, and a lookup knows what it has passed, in every behaviour:  *)
(* the inductive invariant of NpcBranchPatchProvider.get beside a writer.  *)
THEOREM LookupInvariant == Spec => []LookupInv
<1>1. LookupInv /\ [Next]_vars => LookupInv'
  BY WriterInv, GetInv, StepInv, StutterInv DEF Next
<1> QED BY <1>1, InitInv, PTL DEF Spec

(* The types of get()'s variables; the iterator never runs past its list.  *)
THEOREM LookupTypes == Spec => []TypeOK
<1>1. LookupInv => TypeOK
  BY DEF LookupInv
<1> QED BY <1>1, LookupInvariant, PTL

-----------------------------------------------------------------------------
(* The refinement.                                                         *)

(* The table of an object, by the entries that are there. *)
Bindings(o) == [k \in Keys |-> FirstOf(providers[o], Size(o), k)]

LEMMA BoundIs ==
  /\ bound = [o \in Objects |-> Bindings(o)]
  /\ bound' = [o \in Objects |-> Bindings(o)']
BY DEF bound, Bindings

LEMMA EmptyBindings ==
  ASSUME NEW list \in Seq(Entry), NEW k \in Keys
  PROVE  FirstOf(list, 0, k) = Absent
BY FirstOfNone

LEMMA LookupInit == Init => Lookup!Init
<1> SUFFICES ASSUME Init PROVE Lookup!Init
  OBVIOUS
<1>1. \A o \in Objects : providers[o] = <<>> /\ Size(o) = 0
  BY DEF Init, Size, Seen, Late
<1>2. \A o \in Objects : Bindings(o) = Lookup!Empty
  BY <1>1, EmptySeq, EmptyBindings DEF Bindings, Lookup!Empty
<1> QED BY <1>2, BoundIs DEF Init, Lookup!Init, Objects

(* An add under way binds nothing before its size is seen. *)
LEMMA AddSimulated ==
  ASSUME LookupInv, NEW e \in Entry, AddProvider(e)
  PROVE  Lookup!BeginAdd
<1>1. /\ stores = {} /\ stores' = Stores
      /\ providers' = [providers EXCEPT !["branch"] = Append(@, e)]
  BY DEF AddProvider
<1>2. providers["branch"] \in Seq(Entry)
  BY DEF LookupInv, TypeOK, Objects
<1>3. /\ Append(providers["branch"], e) \in Seq(Entry)
      /\ Len(Append(providers["branch"], e)) = Len(providers["branch"]) + 1
      /\ \A i \in 1..Len(providers["branch"]) :
           Append(providers["branch"], e)[i] = providers["branch"][i]
  BY <1>2, AppendProperties
<1>4. Bindings("branch")' = Bindings("branch")
  <2>1. Size("branch") = Len(providers["branch"]) /\ Size("branch")' = Size("branch")
    BY <1>1, <1>2, <1>3 DEF LookupInv, TypeOK, Objects, Size, Seen, Late, Stores
  <2>2. providers'["branch"] = Append(providers["branch"], e)
    BY <1>1 DEF LookupInv, TypeOK, Objects
  <2>3. \A k \in Keys : FirstOf(providers'["branch"], Size("branch"), k)
                         = FirstOf(providers["branch"], Size("branch"), k)
    <3> SUFFICES ASSUME NEW k \in Keys
                 PROVE  FirstOf(Append(providers["branch"], e), Len(providers["branch"]), k)
                        = FirstOf(providers["branch"], Len(providers["branch"]), k)
      BY <2>1, <2>2
    <3> DEFINE a == Append(providers["branch"], e)
               n == Len(providers["branch"])
    <3>1. a \in Seq(Entry) /\ n \in Nat /\ n <= Len(a) /\ n <= Len(providers["branch"])
      BY <1>2, <1>3
    <3>2. \A i \in 1..n : a[i] = providers["branch"][i]
      BY <1>3
    <3> HIDE DEF a
    <3>3. FirstOf(a, n, k) = FirstOf(providers["branch"], n, k)
      BY <1>2, <3>1, <3>2, FirstOfSame
    <3> QED BY <3>3 DEF a
  <2> QED BY <2>1, <2>3 DEF Bindings
<1>5. Bindings("dropped")' = Bindings("dropped")
  BY <1>1 DEF LookupInv, TypeOK, Objects, Bindings, Size, Seen, Late
<1>6. bound' = bound
  BY <1>4, <1>5, BoundIs DEF Objects
<1>7. disturbed' = (disturbed \/ (pc # "idle" /\ this = "branch"))
  BY Zenon DEF AddProvider
<1>8. UNCHANGED <<pc, this, model, answer>>
  BY DEF AddProvider
<1> QED BY <1>1, <1>6, <1>7, <1>8, Zenon DEF Lookup!BeginAdd, Stores

(* The entry is bound when its size is seen; the add ends with its last    *)
(* store.                                                                  *)
LEMMA StoreSimulated ==
  ASSUME LookupInv, NEW store \in Stores, StoreSeen(store)
  PROVE  Lookup!Next \/ UNCHANGED Lookup!vars
<1>1. /\ providers' = providers /\ this' = this /\ pc' = pc /\ disturbed' = disturbed
      /\ model' = model /\ answer' = answer
      /\ stores' = stores \ {store} /\ store \in stores
  BY DEF StoreSeen
<1>2. providers["branch"] \in Seq(Entry) /\ Len(providers["branch"]) > 0
  <2>1. providers["branch"] \in Seq(Entry) /\ providers["branch"] # <<>>
    BY <1>1 DEF LookupInv, TypeOK, Objects, AddingOK
  <2> QED BY <2>1
<1>3. Bindings("dropped")' = Bindings("dropped")
  BY <1>1 DEF Bindings, Size, Seen, Late
<1>4. CASE store = "size"
  <2> DEFINE list == providers["branch"]
             n == Len(providers["branch"]) - 1
             e == list[n + 1]
  <2>1. Size("branch") = n /\ Size("branch")' = n + 1
    BY <1>1, <1>2, <1>4 DEF Size, Seen, Late
  <2>2. n \in Nat /\ n + 1 <= Len(list) /\ e \in Entry
    BY <1>2, ElementOfSeq
  <2>3. e.key \in Keys /\ e.value \in Values
    BY <2>2 DEF Entry
  <2> HIDE DEF e, n
  <2>4. \A k \in Keys : Bindings("branch")'[k] =
          IF k = e.key /\ Bindings("branch")[k] = Absent THEN e.value
          ELSE Bindings("branch")[k]
    BY <1>1, <1>2, <2>1, <2>2, FirstOfOneMore DEF Bindings, e
  <2>5. Bindings("branch")' =
          [Bindings("branch") EXCEPT ![e.key] = IF @ = Absent THEN e.value ELSE @]
    BY <2>3, <2>4 DEF Bindings
  <2>6. bound' = [bound EXCEPT !["branch"][e.key] = IF @ = Absent THEN e.value ELSE @]
    BY <1>3, <2>5, BoundIs DEF Objects
  <2>7. Lookup!Bind(e.key, e.value)
    BY <1>1, <2>6 DEF Lookup!Bind
  <2> QED BY <2>3, <2>7 DEF Lookup!Next
<1>5. CASE store # "size"
  <2>1. Bindings("branch")' = Bindings("branch")
    BY <1>1, <1>5 DEF Bindings, Size, Seen, Late
  <2>2. bound' = bound
    BY <1>3, <2>1, BoundIs DEF Objects
  <2>3. CASE stores' = {}
    BY <1>1, <2>2, <2>3 DEF Lookup!EndAdd, Lookup!Next
  <2>4. CASE stores' # {}
    <3>1. (stores # {})' = (stores # {})
      BY <1>1, <2>4
    <3> QED BY <1>1, <2>2, <3>1 DEF Lookup!vars
  <2> QED BY <2>3, <2>4
<1> QED BY <1>4, <1>5

(* A reload empties the table in use, not the one a lookup asks. *)
LEMMA NewSimulated ==
  ASSUME LookupInv, NewProvider
  PROVE  Lookup!NewTable
<1>1. stores = {} /\ stores' = {} /\ UNCHANGED <<pc, model, answer, disturbed>>
  BY DEF NewProvider
<1>2. CASE pc # "idle" /\ this = "branch"
  <2>1. /\ providers' = [branch |-> <<>>, dropped |-> providers["branch"]]
        /\ this' = "dropped"
    BY <1>2 DEF NewProvider
  <2>2. Bindings("branch")' = Lookup!Empty
    BY <1>1, <2>1, EmptySeq, EmptyBindings
       DEF Bindings, Lookup!Empty, Size, Seen, Late
  <2>3. Bindings("dropped")' = Bindings("branch")
    BY <1>1, <2>1 DEF Bindings, Size, Seen, Late
  <2>4. bound' = [bound EXCEPT !["branch"] = Lookup!Empty, !["dropped"] = bound["branch"]]
    BY <2>2, <2>3, BoundIs DEF Objects
  <2> QED BY <1>1, <1>2, <2>1, <2>4 DEF Lookup!NewTable
<1>3. CASE ~(pc # "idle" /\ this = "branch")
  <2>1. this' = this /\ providers' = [providers EXCEPT !["branch"] = <<>>]
    BY <1>3 DEF NewProvider
  <2>2. Bindings("branch")' = Lookup!Empty
    BY <1>1, <2>1, EmptySeq, EmptyBindings
       DEF LookupInv, TypeOK, Objects, Bindings, Lookup!Empty, Size, Seen, Late
  <2>3. Bindings("dropped")' = Bindings("dropped")
    BY <1>1, <2>1 DEF LookupInv, TypeOK, Objects, Bindings, Size, Seen, Late
  <2>4. bound' = [bound EXCEPT !["branch"] = Lookup!Empty]
    BY <2>2, <2>3, BoundIs DEF Objects
  <2> QED BY <1>1, <1>3, <2>1, <2>4 DEF Lookup!NewTable
<1> QED BY <1>2, <1>3

(* What a return does to the tables. *)
LEMMA ReturnSimulated ==
  ASSUME LookupInv, pc # "idle", NEW result, Return(result)
  PROVE  Lookup!Return(result)
<1>1. /\ pc' = "idle" /\ answer' = result /\ this' = "branch"
      /\ providers' = [providers EXCEPT !["dropped"] = <<>>]
      /\ UNCHANGED <<stores, model, disturbed>>
  BY DEF Return
<1>2. Bindings("dropped")' = Lookup!Empty
  BY <1>1, EmptySeq, EmptyBindings
     DEF LookupInv, TypeOK, Objects, Bindings, Lookup!Empty, Size, Seen, Late
<1>3. Bindings("branch")' = Bindings("branch")
  BY <1>1 DEF LookupInv, TypeOK, Objects, Bindings, Size, Seen, Late
<1>4. bound' = [bound EXCEPT !["dropped"] = Lookup!Empty]
  BY <1>2, <1>3, BoundIs DEF Objects
<1> QED BY <1>1, <1>4 DEF Lookup!Return

(* The answer is what the table binds the model to. *)
LEMMA AnswerSimulated ==
  ASSUME LookupInv, pc # "idle", NEW result, Return(result),
         result = FirstOf(providers[this], Size(this), model)
  PROVE  Lookup!Next
<1>1. result = bound[this][model]
  BY BoundIs DEF LookupInv, TypeOK, Bindings
<1> QED BY <1>1, ReturnSimulated DEF Lookup!Answer, Lookup!Next

LEMMA FailSimulated ==
  ASSUME LookupInv, pc # "idle", disturbed, Return(Error)
  PROVE  Lookup!Next
BY ReturnSimulated DEF Lookup!Fail, Lookup!Next

LEMMA GoesOnSimulated ==
  ASSUME pc # "idle", NEW step \in Pcs \ {"idle"}, NEW n, GoesOn(step, n)
  PROVE  UNCHANGED Lookup!vars
<1>1. (pc # "idle")' = (pc # "idle")
  BY DEF GoesOn
<1>2. bound' = bound
  BY DEF GoesOn, bound, Size, Seen, Late
<1> QED BY <1>1, <1>2 DEF GoesOn, Lookup!vars

LEMMA StepSimulated ==
  ASSUME LookupInv, LookupStep
  PROVE  Lookup!Next \/ UNCHANGED Lookup!vars
<1>1. CASE Iterator
  <2>1. (pc # "idle")' = (pc # "idle")
    BY <1>1 DEF Iterator
  <2>2. bound' = bound
    BY <1>1 DEF Iterator, bound, Size, Seen, Late
  <2> QED BY <1>1, <2>1, <2>2 DEF Iterator, Lookup!vars
<1>2. CASE HasNext
  <2>1. CASE cursor # Size(this)
    BY <1>2, <2>1, GoesOnSimulated DEF HasNext, Pcs
  <2>2. CASE cursor = Size(this)
    <3>1. /\ this \in Objects /\ providers[this] \in Seq(Entry) /\ model \in Keys
          /\ Size(this) \in 0..Len(providers[this])
      BY SizeType DEF LookupInv, TypeOK
    <3>2. FirstOf(providers[this], Size(this), model) = Absent
      BY <2>2, <3>1, FirstOfNone DEF LookupInv, PassedOK
    <3> QED BY <1>2, <2>2, <3>2, AnswerSimulated DEF HasNext
  <2> QED BY <2>1, <2>2
<1>3. CASE CheckModCount
  <2>1. CASE ModCount(this) = expected
    BY <1>3, <2>1, GoesOnSimulated DEF CheckModCount, Pcs
  <2>2. CASE ModCount(this) # expected
    <3>1. pc = "checkModCount"
      BY <1>3 DEF CheckModCount
    <3>2. disturbed
      BY <2>2, <3>1, UndisturbedView DEF LookupInv, DisturbedOK
    <3> QED BY <1>3, <2>2, <3>1, <3>2, FailSimulated DEF CheckModCount
  <2> QED BY <2>1, <2>2
<1>4. CASE NextEntry
  <2>0. pc = "next" /\ model \in Keys
    BY <1>4 DEF NextEntry, LookupInv, TypeOK
  <2>1. CASE Hole(this, cursor + 1)
    <3>1. disturbed
      BY <2>0, <2>1 DEF LookupInv, DisturbedOK, Hole, Late
    <3> QED BY <1>4, <2>0, <2>1, <3>1, FailSimulated DEF NextEntry
  <2>2. CASE ~Hole(this, cursor + 1) /\ providers[this][cursor + 1].key = model
    <3>1. \A j \in 1..Size(this) : j < cursor + 1 => providers[this][j].key # model
      BY <2>0, FetchType DEF LookupInv, PassedOK
    <3>2. cursor + 1 \in 1..Size(this)
      BY <2>0, FetchType
    <3>3. FirstOf(providers[this], Size(this), model) = providers[this][cursor + 1].value
      BY <2>0, <2>2, <3>1, <3>2, FetchType, FirstOfFound
    <3> QED BY <1>4, <2>0, <2>2, <3>3, AnswerSimulated DEF NextEntry
  <2>3. CASE ~Hole(this, cursor + 1) /\ providers[this][cursor + 1].key # model
    BY <1>4, <2>0, <2>3, GoesOnSimulated DEF NextEntry, Pcs
  <2> QED BY <2>1, <2>2, <2>3
<1> QED BY <1>1, <1>2, <1>3, <1>4 DEF LookupStep

LEMMA GetSimulated ==
  ASSUME NEW k \in Keys, Get(k)
  PROVE  Lookup!Ask(k)
<1>1. bound' = bound
  BY DEF Get, bound, Size, Seen, Late
<1>2. disturbed' = (stores # {})
  BY Zenon DEF Get
<1> QED BY <1>1, <1>2, Zenon DEF Get, Lookup!Ask

(* A lookup beside a thread that fills or replaces the list is one atomic  *)
(* lookup in a write-once table, or fails in a table being filled.         *)
THEOREM LookupIsAtomic == Spec => ImplementsAtomicLookup
<1>1. LookupInv /\ [Next]_vars => [Lookup!Next]_Lookup!vars
  <2> SUFFICES ASSUME LookupInv, [Next]_vars
               PROVE  Lookup!Next \/ UNCHANGED Lookup!vars
    OBVIOUS
  <2>1. CASE WriterStep
    BY <2>1, NewSimulated, AddSimulated, StoreSimulated DEF WriterStep, Lookup!Next
  <2>2. ASSUME NEW k \in Keys, Get(k) PROVE Lookup!Next
    BY <2>2, GetSimulated DEF Lookup!Next
  <2>3. CASE UNCHANGED vars
    BY <2>3 DEF vars, Lookup!vars, bound, Size, Seen, Late
  <2> QED BY <2>1, <2>2, <2>3, StepSimulated DEF Next
<1> QED BY <1>1, LookupInit, LookupInvariant, PTL
    DEF Spec, ImplementsAtomicLookup, Lookup!Spec

===============================================================================
