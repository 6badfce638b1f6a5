---------------------- MODULE ObjectListPackagerProofs ----------------------
(***************************************************************************)
(* Proofs about ObjectListPackager, for every set of objects, every range  *)
(* of deadlines and a list of any length.                                  *)
(***************************************************************************)
EXTENDS ObjectListPackager, WellFoundedInduction, TLAPS

USE DeadlineAssumption, DestinationAssumption, DeadlinesAssumption, MaxAddsAssumption

Sorted(s) == \A j, k \in DOMAIN s : j < k => s[j].deadline <= s[k].deadline

(***************************************************************************)
(* The list.                                                               *)
(***************************************************************************)

LEMMA DeadlineIsNat ==
  ASSUME NEW i \in Item PROVE i.deadline \in Nat
<1>1. i.deadline \in 1..NoDeadline
  BY DEF Item
<1> QED BY <1>1

LEMMA ItemsAreItems ==
  ASSUME NEW s \in Seq(Item)
  PROVE  \A k \in DOMAIN s : s[k] \in Item /\ s[k].deadline \in Nat
<1> SUFFICES ASSUME NEW k \in DOMAIN s PROVE s[k] \in Item /\ s[k].deadline \in Nat
  OBVIOUS
<1>1. s[k] \in Item
  OBVIOUS
<1> QED BY <1>1, DeadlineIsNat

\* In a sorted list there is a place to insert: the shortest prefix after
\* which every item is later.
LEMMA BeforeExists ==
  ASSUME NEW s \in Seq(Item), NEW d \in Nat, Sorted(s)
  PROVE  /\ Before(s, d) \in 0..Len(s)
         /\ \A k \in 1..Before(s, d) : s[k].deadline <= d
         /\ \A k \in (Before(s, d) + 1)..Len(s) : s[k].deadline > d
<1> DEFINE R == {ss \in Nat \X Nat : ss[1] < ss[2]}
           S == {n \in 0..Len(s) : \A k \in (n + 1)..Len(s) : s[k].deadline > d}
<1>1. IsWellFoundedOn(R, Nat)
  BY NatLessThanWellFounded DEF OpToRel
<1>2. Len(s) \in S /\ S \subseteq Nat
  OBVIOUS
<1>3. \E n \in S : \A m \in S : <<m, n>> \notin R
  <2> HIDE DEF R, S
  <2> QED BY <1>1, <1>2, WFMin
<1>4. PICK n \in S : \A m \in S : <<m, n>> \notin R
  BY <1>3
<1>5. \A k \in DOMAIN s : s[k].deadline \in Nat
  BY ItemsAreItems
<1>6. \A k \in 1..n : s[k].deadline <= d
  <2>1. CASE n = 0
    BY <2>1
  <2>2. CASE n > 0
    <3>1. n - 1 \in 0..Len(s) /\ n \in DOMAIN s
      BY <2>2
    <3>2. n - 1 \notin S
      <4>1. n - 1 \in Nat /\ n \in Nat /\ n - 1 < n
        BY <2>2
      <4> QED BY <4>1, <1>4
    <3>3. PICK k \in n..Len(s) : ~ (s[k].deadline > d)
      BY <3>1, <3>2
    <3>4. k = n
      BY <3>3, <1>4
    <3>5. s[n].deadline <= d
      BY <3>1, <3>3, <3>4, <1>5
    <3>6. \A j \in 1..n : s[j].deadline <= s[n].deadline
      <4> SUFFICES ASSUME NEW j \in 1..n PROVE s[j].deadline <= s[n].deadline
        OBVIOUS
      <4>1. j \in DOMAIN s /\ n \in Nat /\ j \in Nat /\ s[n].deadline \in Nat
        BY <3>1, <1>5
      <4>2. CASE j < n
        BY <3>1, <4>1, <4>2 DEF Sorted
      <4>3. CASE j = n
        BY <4>1, <4>3
      <4> QED BY <4>1, <4>2, <4>3
    <3>7. \A j \in 1..n : j \in DOMAIN s
      BY <3>1
    <3> QED BY <3>1, <3>5, <3>6, <3>7, <1>5
  <2> QED BY <2>1, <2>2
<1>7. /\ n \in 0..Len(s)
      /\ \A k \in 1..n : s[k].deadline <= d
      /\ \A k \in (n + 1)..Len(s) : s[k].deadline > d
  BY <1>4, <1>6
<1> QED BY <1>7 DEF Before

\* add() keeps the list sorted, keeps its items and grows it by one
LEMMA SortedInsertSorts ==
  ASSUME NEW s \in Seq(Item), NEW i \in Item, Sorted(s)
  PROVE  /\ SortedInsert(s, i) \in Seq(Item)
         /\ Sorted(SortedInsert(s, i))
         /\ \A k \in DOMAIN s : \E j \in DOMAIN SortedInsert(s, i) : SortedInsert(s, i)[j] = s[k]
<1> DEFINE n == Before(s, i.deadline)
           t == SortedInsert(s, i)
<1>1. i.deadline \in Nat /\ \A k \in DOMAIN s : s[k] \in Item /\ s[k].deadline \in Nat
  BY DeadlineIsNat, ItemsAreItems
<1>2. /\ n \in 0..Len(s)
      /\ \A k \in 1..n : s[k].deadline <= i.deadline
      /\ \A k \in (n + 1)..Len(s) : s[k].deadline > i.deadline
  BY <1>1, BeforeExists
<1>3. t = [k \in 1..(Len(s) + 1) |->
             IF k <= n THEN s[k] ELSE IF k = n + 1 THEN i ELSE s[k - 1]]
  BY DEF SortedInsert
<1>4. Len(s) \in Nat /\ DOMAIN s = 1..Len(s)
  OBVIOUS
<1> HIDE DEF n, t
<1>5. t \in Seq(Item)
  <2>1. \A k \in 1..(Len(s) + 1) : t[k] \in Item
    BY <1>1, <1>2, <1>3, <1>4
  <2>2. DOMAIN t = 1..(Len(s) + 1)
    BY <1>3
  <2>3. t \in [1..(Len(s) + 1) -> Item]
    BY <1>3, <2>1, <2>2
  <2> QED BY <2>3, <1>4
<1>6. Sorted(t)
  <2> SUFFICES ASSUME NEW j \in 1..(Len(s) + 1), NEW k \in 1..(Len(s) + 1), j < k
               PROVE  t[j].deadline <= t[k].deadline
    BY <1>3 DEF Sorted
  <2>1. CASE k <= n
    <3>1. t[j] = s[j] /\ t[k] = s[k] /\ j \in DOMAIN s /\ k \in DOMAIN s
      BY <2>1, <1>2, <1>3, <1>4
    <3> QED BY <3>1 DEF Sorted
  <2>2. CASE k = n + 1
    <3>1. t[j] = s[j] /\ t[k] = i /\ j \in 1..n
      BY <2>2, <1>2, <1>3, <1>4
    <3> QED BY <3>1, <1>2
  <2>3. CASE k > n + 1
    <3>1. t[k] = s[k - 1] /\ k - 1 \in (n + 1)..Len(s) /\ k - 1 \in DOMAIN s
      BY <2>3, <1>2, <1>3, <1>4
    <3>2. s[k - 1].deadline > i.deadline /\ s[k - 1].deadline \in Nat
      BY <3>1, <1>1, <1>2
    <3>3. CASE j <= n
      <4>1. t[j] = s[j] /\ j \in DOMAIN s /\ j < k - 1
        BY <2>3, <3>3, <1>2, <1>3, <1>4
      <4> QED BY <3>1, <4>1 DEF Sorted
    <3>4. CASE j = n + 1
      <4>1. t[j] = i
        BY <3>4, <1>2, <1>3
      <4> QED BY <3>1, <3>2, <4>1, <1>1
    <3>5. CASE j > n + 1
      <4>1. t[j] = s[j - 1] /\ j - 1 \in DOMAIN s /\ j - 1 < k - 1
        BY <3>5, <1>2, <1>3, <1>4
      <4> QED BY <3>1, <4>1 DEF Sorted
    <3> QED BY <3>3, <3>4, <3>5, <1>2
  <2> QED BY <2>1, <2>2, <2>3, <1>2
<1>7. ASSUME NEW k \in DOMAIN s
      PROVE  \E j \in DOMAIN t : t[j] = s[k]
  <2>1. CASE k <= n
    <3>1. k \in DOMAIN t /\ t[k] = s[k]
      BY <2>1, <1>2, <1>3, <1>4
    <3> QED BY <3>1
  <2>2. CASE k > n
    <3>1. k + 1 \in DOMAIN t /\ t[k + 1] = s[k]
      BY <2>2, <1>2, <1>3, <1>4
    <3> QED BY <3>1
  <2> QED BY <2>1, <2>2, <1>2, <1>4
<1> QED BY <1>5, <1>6, <1>7 DEF t

\* popping the first item of a sorted list
LEMMA TailSorts ==
  ASSUME NEW s \in Seq(Item), s # <<>>, Sorted(s)
  PROVE  Tail(s) \in Seq(Item) /\ Sorted(Tail(s))
<1>1. Tail(s) \in Seq(Item)
  OBVIOUS
<1>2. \A k \in DOMAIN Tail(s) : k + 1 \in DOMAIN s /\ Tail(s)[k] = s[k + 1]
  OBVIOUS
<1>3. \A j, k \in DOMAIN Tail(s) : j < k => j + 1 < k + 1
  OBVIOUS
<1>4. Sorted(Tail(s))
  BY <1>2, <1>3 DEF Sorted
<1> QED BY <1>1, <1>4

(***************************************************************************)
(* The state.                                                              *)
(***************************************************************************)

\* while the worker holds an item: the list keeps it, and until it is sent
\* nothing is on air and m_queuedObjectId names it
Holding ==
  worker \in {"front", "read", "sent"} =>
    /\ \E k \in DOMAIN items : <<items[k]>> = held
    /\ worker # "sent" => ~queued /\ queuedObject = <<held[1].object>>

Inv ==
  /\ TypeOK
  /\ Sorted(items)
  /\ Holding
  /\ CompletionNamesSentObject

LEMMA EmptyTypes ==
  <<>> \in Seq(Item) /\ <<>> \in Seq(Object)
  OBVIOUS

LEMMA InvInit == InitAlone => Inv
<1> SUFFICES ASSUME InitAlone PROVE Inv
  OBVIOUS
<1> USE DEF InitAlone, Init
<1>1. TypeOK
  BY EmptyTypes DEF TypeOK, WorkerAt
<1>2. Sorted(items)
  BY DEF Sorted
<1>3. Holding /\ CompletionNamesSentObject
  BY DEF Holding, CompletionNamesSentObject
<1> QED BY <1>1, <1>2, <1>3 DEF Inv

LEMMA HeldIsItem ==
  ASSUME TypeOK, Holding, worker \in {"front", "read", "sent"}
  PROVE  \E i \in Item : held = <<i>>
<1>1. PICK k \in DOMAIN items : <<items[k]>> = held
  BY DEF Holding
<1>2. items[k] \in Item
  BY ItemsAreItems DEF TypeOK
<1> QED BY <1>1, <1>2

LEMMA AddInv ==
  ASSUME Inv, NEW i \in Item, Add(i), store' \subseteq Object
  PROVE  Inv'
<1> USE DEF Inv, Add
<1>1. items \in Seq(Item) /\ Sorted(items)
  BY DEF TypeOK
<1>2. /\ items' \in Seq(Item)
      /\ Sorted(items')
      /\ \A k \in DOMAIN items : \E j \in DOMAIN items' : items'[j] = items[k]
  BY <1>1, SortedInsertSorts
<1>3. TypeOK'
  BY <1>2 DEF TypeOK
<1>4. Holding'
  <2> SUFFICES ASSUME worker \in {"front", "read", "sent"}
               PROVE  \E j \in DOMAIN items' : <<items'[j]>> = held
    BY DEF Holding
  <2>1. PICK k \in DOMAIN items : <<items[k]>> = held
    BY DEF Holding
  <2>2. PICK j \in DOMAIN items' : items'[j] = items[k]
    BY <1>2
  <2> QED BY <2>1, <2>2
<1>5. CompletionNamesSentObject'
  BY DEF CompletionNamesSentObject
<1> QED BY <1>2, <1>3, <1>4, <1>5

LEMMA WorkInv ==
  ASSUME Inv, Work, UNCHANGED store
  PROVE  Inv'
<1>0. TypeOK /\ Sorted(items) /\ Holding /\ CompletionNamesSentObject
  BY DEF Inv
<1>1. CASE TakeFront
  <2> USE <1>0, <1>1 DEF TakeFront
  <2>1. 1 \in DOMAIN items /\ items[1] = Head(items) /\ Head(items) \in Item
    BY DEF TypeOK
  <2>2. Head(items).object \in Object
    BY <2>1 DEF Item
  <2>3. TypeOK'
    BY <2>1, <2>2 DEF TypeOK, WorkerAt
  <2>4. held'[1] = Head(items)
    OBVIOUS
  <2>5. Holding'
    BY <2>1, <2>4 DEF Holding
  <2>6. Sorted(items') /\ CompletionNamesSentObject'
    BY DEF CompletionNamesSentObject
  <2> QED BY <2>3, <2>5, <2>6 DEF Inv
<1>2. CASE NothingToSend \/ RunOther \/ WorkerEnds
  <2>1. /\ worker' \in {"io", "top", "ended"}
        /\ UNCHANGED <<store, items, cancel, held, queued, queuedToi, queuedObject, sends, onAir, completions>>
    BY <1>2 DEF NothingToSend, RunOther, WorkerEnds
  <2> QED BY <1>0, <2>1 DEF Inv, TypeOK, WorkerAt, Holding, CompletionNamesSentObject
<1>3. CASE ReadObject
  BY <1>0, <1>3 DEF ReadObject, Inv, TypeOK, WorkerAt, Holding, CompletionNamesSentObject
<1>4. CASE ReadFails
  BY <1>0, <1>4 DEF ReadFails, Inv, TypeOK, WorkerAt, Holding, CompletionNamesSentObject
<1>5. CASE Send
  <2> USE <1>0, <1>5 DEF Send
  <2>1. PICK i \in Item : held = <<i>>
    BY HeldIsItem
  <2>2. held[1].object \in Object
    BY <2>1 DEF Item
  <2>3. onAir = {}
    BY DEF Holding, CompletionNamesSentObject
  <2>4. sends + 1 \in Nat
    BY DEF TypeOK
  <2>5. onAir' \subseteq Transmission
    BY <2>2, <2>3, <2>4 DEF Transmission
  <2>6. TypeOK'
    BY <2>4, <2>5 DEF TypeOK, WorkerAt
  <2>7. Holding'
    BY DEF Holding
  <2>8. CompletionNamesSentObject'
    BY <2>3 DEF Holding, CompletionNamesSentObject
  <2> QED BY <2>6, <2>7, <2>8 DEF Inv
<1>6. CASE Pop
  <2> USE <1>0, <1>6 DEF Pop
  <2>1. items \in Seq(Item) /\ items # <<>>
    BY DEF TypeOK, Holding
  <2>2. items' \in Seq(Item) /\ Sorted(items')
    BY <2>1, TailSorts
  <2>3. TypeOK'
    BY <2>2 DEF TypeOK, WorkerAt
  <2>4. Holding' /\ CompletionNamesSentObject'
    BY DEF Holding, CompletionNamesSentObject
  <2> QED BY <2>2, <2>3, <2>4 DEF Inv
<1>7. CASE SendFails
  <2> USE <1>0, <1>7 DEF SendFails
  <2>1. onAir = {}
    BY DEF Holding, CompletionNamesSentObject
  <2>2. TypeOK'
    BY DEF TypeOK, WorkerAt
  <2>3. Sorted(items') /\ Holding' /\ CompletionNamesSentObject'
    BY <2>1 DEF Holding, CompletionNamesSentObject
  <2> QED BY <2>2, <2>3 DEF Inv
<1> QED BY <1>1, <1>2, <1>3, <1>4, <1>5, <1>6, <1>7 DEF Work

LEMMA CompleteInv ==
  ASSUME Inv, NEW t \in onAir, Complete(t), UNCHANGED store
  PROVE  Inv'
<1> USE DEF Complete
<1>0. TypeOK /\ Sorted(items) /\ Holding /\ CompletionNamesSentObject
  BY DEF Inv
<1>1. t.toi = queuedToi /\ queuedObject = <<t.object>> /\ t.object \in Object
  BY <1>0 DEF CompletionNamesSentObject, TypeOK, Transmission
<1>2. onAir' = {}
  BY <1>0 DEF CompletionNamesSentObject, TypeOK, Transmission
<1>3. completions' \in Seq(Object)
  <2>1. completions \in Seq(Object) /\ queuedObject \in Seq(Object)
    BY <1>0, <1>1 DEF TypeOK
  <2> QED BY <1>1, <2>1
<1>4. TypeOK'
  BY <1>0, <1>1, <1>2, <1>3 DEF TypeOK, WorkerAt
<1>5. Holding' /\ CompletionNamesSentObject'
  BY <1>2 DEF Holding, CompletionNamesSentObject
<1> QED BY <1>0, <1>4, <1>5 DEF Inv

LEMMA InvNext == Inv /\ [Next]_vars => Inv'
<1> SUFFICES ASSUME Inv, [Next]_vars PROVE Inv'
  OBVIOUS
<1>1. ASSUME NEW o \in Object, NEW d \in Deadline, Provide(o, d)
      PROVE  Inv'
  <2>1. [object |-> o, deadline |-> d] \in Item
    BY DEF Item
  <2>2. store' \subseteq Object
    BY <1>1 DEF Provide, Inv, TypeOK
  <2> QED BY <1>1, <2>1, <2>2, AddInv DEF Provide
<1>2. CASE Work /\ UNCHANGED store
  BY <1>2, WorkInv
<1>3. CASE CompleteAny /\ UNCHANGED store
  BY <1>3, CompleteInv DEF CompleteAny
<1>4. CASE Collect
  <2>1. completions' \in Seq(Object) /\ store' \subseteq Object
    BY <1>4 DEF Collect, Inv, TypeOK
  <2> QED BY <1>4, <2>1 DEF Collect, Inv, TypeOK, Holding, CompletionNamesSentObject
<1>5. CASE Abort /\ UNCHANGED store
  BY <1>5 DEF Abort, Inv, TypeOK, Holding, CompletionNamesSentObject
<1>6. CASE UNCHANGED vars
  BY <1>6 DEF vars, packagerVars, Inv, TypeOK, Holding, CompletionNamesSentObject
<1> QED BY <1>1, <1>2, <1>3, <1>4, <1>5, <1>6 DEF Next

\* The packager keeps its types: in particular the list, the TOI counter and the
\* transmissions, through every order of add(), worker and callback steps.
THEOREM PackagerTypes == Spec => []TypeOK
<1>1. Inv => TypeOK
  BY DEF Inv
<1> QED BY <1>1, InvInit, InvNext, PTL DEF Spec

\* The completion callback never reports another object than the one whose
\* transmission ended, and never finds an unknown TOI (lines 138-152).
THEOREM CompletionsAreRight == Spec => []CompletionNamesSentObject
<1>1. Inv => CompletionNamesSentObject
  BY DEF Inv
<1> QED BY <1>1, InvInit, InvNext, PTL DEF Spec

\* The item reference doObjectPackage() uses without the mutex is never one to a
\* removed element (lines 161-166).
THEOREM HeldReferenceIsValid == Spec => []HeldItemStaysListed
<1>1. Inv => HeldItemStaysListed
  BY DEF Inv, Holding, HeldItemStaysListed
<1> QED BY <1>1, InvInit, InvNext, PTL DEF Spec

\* sortListByPolicy() after each add() and pops at the front keep the whole list
\* in deadline order, whatever its length.
THEOREM ListStaysSorted == Spec => []SortedByDeadline
<1>1. Inv => SortedByDeadline
  BY DEF Inv, Sorted, SortedByDeadline
<1> QED BY <1>1, InvInit, InvNext, PTL DEF Spec

(***************************************************************************)
(* Without deadlines the packager is a SendQueue: a new item goes to the   *)
(* end of the list, so the item the worker holds stays the first one and   *)
(* the one it pops is the one it has sent.                                 *)
(***************************************************************************)
NoDeadlinesGiven == Deadline \subseteq {NoDeadline}

FirstHeld ==
  /\ \A k \in DOMAIN items : items[k].deadline = NoDeadline
  /\ worker \in {"front", "read", "sent"} => items # <<>> /\ held = <<items[1]>>

\* the objects of a list
Objects(s) == [k \in DOMAIN s |-> s[k].object]

LEMMA InsertLast ==
  ASSUME NEW s \in Seq(Item), NEW i \in Item, i.deadline = NoDeadline,
         \A k \in DOMAIN s : s[k].deadline = NoDeadline
  PROVE  SortedInsert(s, i) = Append(s, i)
<1>1. Sorted(s)
  BY DEF Sorted
<1>2. Before(s, NoDeadline) = Len(s)
  <2>1. /\ Before(s, NoDeadline) \in 0..Len(s)
        /\ \A k \in (Before(s, NoDeadline) + 1)..Len(s) : s[k].deadline > NoDeadline
    BY <1>1, BeforeExists
  <2>2. \A k \in (Before(s, NoDeadline) + 1)..Len(s) : FALSE
    BY <2>1
  <2> QED BY <2>1, <2>2
<1> DEFINE t == SortedInsert(s, i)
<1>3. DOMAIN t = 1..(Len(s) + 1) /\ t[Len(s) + 1] = i /\ \A k \in 1..Len(s) : t[k] = s[k]
  BY <1>2 DEF SortedInsert
<1>4. t \in Seq(Item)
  BY <1>1, SortedInsertSorts
<1>5. /\ Append(s, i) \in Seq(Item) /\ DOMAIN Append(s, i) = 1..(Len(s) + 1)
      /\ Append(s, i)[Len(s) + 1] = i /\ \A k \in 1..Len(s) : Append(s, i)[k] = s[k]
  OBVIOUS
<1> HIDE DEF t
<1>6. \A k \in 1..(Len(s) + 1) : t[k] = Append(s, i)[k]
  BY <1>3, <1>5
<1>7. t = Append(s, i)
  BY <1>3, <1>4, <1>5, <1>6
<1> QED BY <1>7 DEF t

LEMMA ObjectsType ==
  ASSUME NEW s \in Seq(Item)
  PROVE  Objects(s) \in Seq(Object) /\ Len(Objects(s)) = Len(s)
<1>1. \A k \in 1..Len(s) : s[k] \in Item
  OBVIOUS
<1>2. \A k \in 1..Len(s) : s[k].object \in Object
  BY <1>1 DEF Item
<1>3. Objects(s) \in [1..Len(s) -> Object] /\ Len(s) \in Nat
  BY <1>2 DEF Objects
<1> QED BY <1>3

LEMMA ObjectsOfAppend ==
  ASSUME NEW s \in Seq(Item), NEW i \in Item
  PROVE  Objects(Append(s, i)) = Append(Objects(s), i.object)
<1>1. Objects(s) \in Seq(Object) /\ Len(Objects(s)) = Len(s)
  BY ObjectsType
<1>2. \A k \in 1..Len(s) : Objects(s)[k] = s[k].object
  BY DEF Objects
<1>3. Append(s, i) \in Seq(Item) /\ Append(Objects(s), i.object) \in Seq(Object)
  BY <1>1 DEF Item
<1>4. DOMAIN Objects(Append(s, i)) = 1..(Len(s) + 1)
  BY DEF Objects
<1>5. \A k \in 1..(Len(s) + 1) : Objects(Append(s, i))[k] = Append(Objects(s), i.object)[k]
  BY <1>1, <1>2 DEF Objects
<1> QED BY <1>1, <1>3, <1>4, <1>5 DEF Objects

LEMMA ObjectsOfTail ==
  ASSUME NEW s \in Seq(Item), s # <<>>
  PROVE  /\ Objects(s) # <<>> /\ Head(Objects(s)) = s[1].object
         /\ Objects(Tail(s)) = Tail(Objects(s))
<1>1. Objects(s) \in Seq(Object) /\ Len(Objects(s)) = Len(s) /\ Len(s) > 0
  BY ObjectsType
<1>2. \A k \in 1..Len(s) : Objects(s)[k] = s[k].object
  BY DEF Objects
<1>3. Tail(s) \in Seq(Item) /\ Len(Tail(s)) = Len(s) - 1
  BY <1>1
<1>4. DOMAIN Objects(Tail(s)) = 1..(Len(s) - 1)
  BY <1>3 DEF Objects
<1>5. Tail(Objects(s)) \in Seq(Object) /\ DOMAIN Tail(Objects(s)) = 1..(Len(s) - 1)
  BY <1>1
<1>6. \A k \in 1..(Len(s) - 1) : Objects(Tail(s))[k] = Tail(Objects(s))[k]
  BY <1>1, <1>2, <1>3 DEF Objects
<1>7. Objects(Tail(s)) = Tail(Objects(s))
  BY <1>4, <1>5, <1>6 DEF Objects
<1> QED BY <1>1, <1>2, <1>7

LEMMA FirstHeldInit == InitAlone => FirstHeld
  BY DEF InitAlone, Init, FirstHeld

LEMMA ProvideAppends ==
  ASSUME NoDeadlinesGiven, Inv, FirstHeld, NEW o \in Object, NEW d \in Deadline, Provide(o, d)
  PROVE  /\ [object |-> o, deadline |-> d] \in Item
         /\ d = NoDeadline
         /\ items \in Seq(Item)
         /\ items' = Append(items, [object |-> o, deadline |-> d])
<1>1. [object |-> o, deadline |-> d] \in Item /\ d = NoDeadline
  BY DEF Item, NoDeadlinesGiven
<1>2. items \in Seq(Item)
  BY DEF Inv, TypeOK
<1> QED BY <1>1, <1>2, InsertLast DEF FirstHeld, Provide, Add

LEMMA FirstHeldStep == NoDeadlinesGiven /\ Inv /\ FirstHeld /\ [Next]_vars => FirstHeld'
<1> SUFFICES ASSUME NoDeadlinesGiven, Inv, FirstHeld, [Next]_vars PROVE FirstHeld'
  OBVIOUS
<1>0. items \in Seq(Item)
  BY DEF Inv, TypeOK
<1>1. ASSUME NEW o \in Object, NEW d \in Deadline, Provide(o, d) PROVE FirstHeld'
  <2> DEFINE i == [object |-> o, deadline |-> d]
  <2>1. i \in Item /\ i.deadline = NoDeadline /\ items' = Append(items, i)
    BY <1>1, ProvideAppends
  <2>2. UNCHANGED <<worker, held>>
    BY <1>1 DEF Provide, Add
  <2> HIDE DEF i
  <2>3. \A k \in DOMAIN items' : items'[k].deadline = NoDeadline
    BY <2>1, <1>0 DEF FirstHeld
  <2>4. items # <<>> => items' # <<>> /\ items'[1] = items[1]
    BY <2>1, <1>0
  <2> QED BY <2>2, <2>3, <2>4 DEF FirstHeld
<1>2. CASE TakeFront
  BY <1>0, <1>2 DEF TakeFront, FirstHeld
<1>3. CASE NothingToSend \/ ReadObject \/ ReadFails \/ Send \/ SendFails \/ RunOther \/ WorkerEnds
  BY <1>3 DEF NothingToSend, ReadObject, ReadFails, Send, SendFails, RunOther, WorkerEnds, FirstHeld
<1>4. CASE Pop
  <2>1. items # <<>> /\ items' = Tail(items) /\ worker' = "io"
    BY <1>4 DEF Pop, FirstHeld
  <2>2. \A k \in DOMAIN items' : k + 1 \in DOMAIN items /\ items'[k] = items[k + 1]
    BY <1>0, <2>1
  <2> QED BY <2>1, <2>2 DEF FirstHeld
<1>5. CASE CompleteAny \/ Collect \/ Abort
  <2>1. UNCHANGED items /\ (worker' = "top" \/ UNCHANGED <<worker, held>>)
    BY <1>5 DEF CompleteAny, Complete, Collect, Abort
  <2> QED BY <2>1 DEF FirstHeld
<1>6. CASE UNCHANGED vars
  BY <1>6 DEF vars, packagerVars, FirstHeld
<1> QED BY <1>1, <1>2, <1>3, <1>4, <1>5, <1>6 DEF Next, Work

\* while the worker holds an item that it has not handed over nothing is on air
LEMMA NothingOnAir ==
  ASSUME Inv
  PROVE  ~queued => onAir = {}
BY DEF Inv, CompletionNamesSentObject

\* a step that the queue does not see
LEMMA QueueStutters ==
  ASSUME UNCHANGED <<items, completions, queued, onAir>>, onAir = {} \/ UNCHANGED queuedObject,
         worker = "sent" <=> worker' = "sent", worker = "ended" <=> worker' = "ended"
  PROVE  UNCHANGED Queue!vars
<1>1. Waiting' = Waiting
  BY DEF Waiting
<1>2. Jammed' = Jammed
  BY DEF Jammed
<1>3. (IF onAir = {} THEN <<>> ELSE queuedObject)' = IF onAir = {} THEN <<>> ELSE queuedObject
  OBVIOUS
<1> QED BY <1>1, <1>2, <1>3 DEF Queue!vars

LEMMA ProvideIsAdd ==
  ASSUME NoDeadlinesGiven, Inv, FirstHeld, NEW o \in Object, NEW d \in Deadline, Provide(o, d)
  PROVE  Queue!Next
<1> DEFINE i == [object |-> o, deadline |-> d]
<1>1. i \in Item /\ items \in Seq(Item) /\ items' = Append(items, i) /\ i.object = o
  BY ProvideAppends
<1>2. UNCHANGED <<worker, queued, queuedObject, completions, onAir>>
  BY DEF Provide, Add
<1> HIDE DEF i
<1>3. Waiting \in Seq(Item) /\ Waiting' = Append(Waiting, i)
  <2>1. CASE worker = "sent"
    BY <1>1, <1>2, <2>1 DEF Waiting, FirstHeld
  <2>2. CASE worker # "sent"
    BY <1>1, <1>2, <2>2 DEF Waiting
  <2> QED BY <2>1, <2>2
<1>4. Objects(Waiting') = Append(Objects(Waiting), o)
  BY <1>1, <1>3, ObjectsOfAppend
<1>5. Jammed' = Jammed
  BY <1>2 DEF Jammed
<1>6. Queue!Add(o)
  BY <1>2, <1>4, <1>5 DEF Queue!Add, Objects
<1> QED BY <1>6 DEF Queue!Next

LEMMA SendIsSend ==
  ASSUME Inv, FirstHeld, Send
  PROVE  Queue!Next
<1> USE DEF Send
<1>1. items \in Seq(Item) /\ items # <<>> /\ held = <<items[1]>>
  BY DEF Inv, TypeOK, FirstHeld
<1>2. /\ ~queued /\ onAir = {} /\ onAir' # {} /\ queuedObject' = <<items[1].object>>
      /\ worker # "ended" /\ worker' # "ended" /\ UNCHANGED completions
  BY <1>1, NothingOnAir DEF Inv, Holding
<1>3. Waiting = items /\ Waiting' = Tail(items)
  BY DEF Waiting
<1>4. Objects(Waiting) # <<>> /\ Head(Objects(Waiting)) = items[1].object
      /\ Objects(Waiting') = Tail(Objects(Waiting))
  BY <1>1, <1>3, ObjectsOfTail
<1>5. Queue!Send
  BY <1>2, <1>4 DEF Queue!Send, Objects, Jammed
<1> QED BY <1>5 DEF Queue!Next

LEMMA CompleteIsFinish ==
  ASSUME Inv, CompleteAny
  PROVE  Queue!Next
<1>1. PICK t \in onAir : Complete(t)
  BY DEF CompleteAny
<1>2. queued /\ t.toi = queuedToi /\ queuedObject = <<t.object>> /\ t.object \in Object
  BY DEF Inv, CompletionNamesSentObject, TypeOK, Transmission
<1>3. /\ ~queued' /\ completions' = completions \o <<t.object>>
      /\ worker = "io" /\ worker' = "top" /\ UNCHANGED items
      /\ onAir # {} /\ onAir' = {}
  <2>1. \A u \in onAir : u = t
    BY <1>2 DEF Inv, CompletionNamesSentObject, TypeOK, Transmission
  <2> QED BY <1>1, <1>2, <2>1 DEF Complete, Inv, TypeOK
<1>4. completions' = Append(completions, t.object)
  BY <1>2, <1>3 DEF Inv, TypeOK
<1>5. Waiting' = Waiting
  BY <1>3 DEF Waiting
<1>6. Queue!Finish
  BY <1>2, <1>3, <1>4, <1>5 DEF Queue!Finish, Jammed
<1> QED BY <1>6 DEF Queue!Next

LEMMA NextIsSendQueueNext ==
  NoDeadlinesGiven /\ Inv /\ FirstHeld /\ [Next]_vars => [Queue!Next]_(Queue!vars)
<1> SUFFICES ASSUME NoDeadlinesGiven, Inv, FirstHeld, [Next]_vars
             PROVE  Queue!Next \/ UNCHANGED Queue!vars
  OBVIOUS
<1>1. CASE TakeFront
  <2>1. onAir = {}
    BY <1>1, NothingOnAir DEF TakeFront
  <2> QED BY <1>1, <2>1, QueueStutters DEF TakeFront
<1>2. CASE NothingToSend \/ ReadObject \/ ReadFails \/ RunOther \/ Abort \/ UNCHANGED vars
  <2>1. /\ UNCHANGED <<items, queued, queuedObject, completions, onAir>>
        /\ worker = "sent" <=> worker' = "sent"
        /\ worker = "ended" <=> worker' = "ended"
    BY <1>2 DEF NothingToSend, ReadObject, ReadFails, RunOther, Abort, vars, packagerVars
  <2> QED BY <2>1, QueueStutters
<1>3. CASE Pop
  <2>1. Waiting' = Waiting
    BY <1>3 DEF Pop, Waiting
  <2>2. Jammed' = Jammed /\ UNCHANGED <<onAir, queuedObject, completions>>
    BY <1>3 DEF Pop, Jammed
  <2>3. worker # "ended" /\ worker' # "ended"
    BY <1>3 DEF Pop
  <2> QED BY <2>1, <2>2, <2>3 DEF Queue!vars
<1>4. CASE WorkerEnds
  <2>1. Waiting' = Waiting
    BY <1>4 DEF WorkerEnds, Waiting
  <2>2. Jammed' = Jammed /\ UNCHANGED <<onAir, queuedObject, completions>>
        /\ worker # "ended" /\ worker' = "ended"
    BY <1>4 DEF WorkerEnds, Jammed
  <2>3. CASE Jammed
    BY <2>1, <2>2, <2>3 DEF Queue!vars
  <2>4. CASE ~Jammed
    <3>1. Queue!Stop
      BY <2>1, <2>2, <2>4 DEF Queue!Stop
    <3> QED BY <3>1 DEF Queue!Next
  <2> QED BY <2>3, <2>4
<1>5. CASE Collect
  <2>1. Waiting' = Waiting
    BY <1>5 DEF Collect, Waiting
  <2>2. Jammed' = Jammed
    BY <1>5 DEF Collect, Jammed
  <2>3. Queue!Collect
    BY <1>5, <2>1, <2>2 DEF Collect, Queue!Collect
  <2> QED BY <2>3 DEF Queue!Next
<1>6. CASE SendFails
  <2>1. Waiting' = Waiting
    BY <1>6 DEF SendFails, Waiting
  <2>2. ~queued /\ onAir = {} /\ worker = "read"
    BY <1>6, NothingOnAir DEF SendFails, Inv, Holding
  <2>3. ~Jammed /\ Jammed' /\ onAir' = {} /\ UNCHANGED completions
    BY <1>6, <2>2 DEF SendFails, Jammed
  <2>4. Queue!Stop
    BY <2>1, <2>2, <2>3 DEF Queue!Stop
  <2> QED BY <2>4 DEF Queue!Next
<1> QED BY <1>1, <1>2, <1>3, <1>4, <1>5, <1>6, ProvideIsAdd, SendIsSend, CompleteIsFinish DEF Next, Work

LEMMA InitIsSendQueueInit == InitAlone => Queue!Init
<1> SUFFICES ASSUME InitAlone PROVE Queue!Init
  OBVIOUS
<1>1. Waiting = <<>> /\ Objects(Waiting) = <<>>
  BY DEF InitAlone, Init, Waiting, Objects
<1> QED BY <1>1 DEF InitAlone, Init, Queue!Init, Objects, Jammed

\* Without deadlines every behaviour of the packager is one of SendQueue, its
\* fairness apart: objects go on air one at a time, each once, in the order of
\* the calls of add(), and each is reported by its own name, although add() may
\* change the list while the worker holds a reference into it.
THEOREM IsSendQueue ==
  ASSUME NoDeadlinesGiven
  PROVE  Spec => Queue!Init /\ [][Queue!Next]_(Queue!vars)
<1>1. Inv /\ FirstHeld /\ [Next]_vars => FirstHeld'
  BY NoDeadlinesGiven, FirstHeldStep
<1>2. Inv /\ FirstHeld /\ [Next]_vars => [Queue!Next]_(Queue!vars)
  BY NoDeadlinesGiven, NextIsSendQueueNext
<1> QED BY <1>1, <1>2, InvInit, InvNext, FirstHeldInit, InitIsSendQueueInit, PTL DEF Spec
=============================================================================
