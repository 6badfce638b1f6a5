------------------ MODULE ObjectStreamingControllerProofs ------------------
(***************************************************************************)
(* Proofs about the controller of STREAMING sessions, for any objects and  *)
(* manifests: what is in the store, in the list and on air while packagers *)
(* come and go.                                                            *)
(***************************************************************************)
EXTENDS ObjectStreamingController, TLAPS

USE ManifestAssumption

(***************************************************************************)
(* The order of ingestion.                                                 *)
(***************************************************************************)

\* a was ingested before b
Precedes(s, a, b) == \E m, n \in DOMAIN s : m < n /\ s[m] = a /\ s[n] = b

Distinct(s) == \A m, n \in DOMAIN s : s[m] = s[n] => m = n

\* the objects of q were ingested in that order
Ordered(s, q) == \A j, k \in DOMAIN q : j < k => Precedes(s, q[j], q[k])

\* An object goes from the store's events P over the event thread's hand D and the
\* packager's list L to those that have been on air A, and overtakes none.
Stages(s, A, L, D, P) ==
  /\ \A a \in A : \A b \in L \cup D \cup P : Precedes(s, a, b)
  /\ \A a \in L : \A b \in D \cup P : Precedes(s, a, b)
  /\ \A a \in D : \A b \in P : Precedes(s, a, b)
  /\ A \cup L \cup D \cup P \subseteq Range(s)

LEMMA AppendParts ==
  ASSUME NEW T, NEW s \in Seq(T), NEW x \in T
  PROVE  /\ Len(s) + 1 \in DOMAIN Append(s, x) /\ Append(s, x)[Len(s) + 1] = x
         /\ \A k \in DOMAIN s : k \in DOMAIN Append(s, x) /\ Append(s, x)[k] = s[k]
                                /\ k \in Nat /\ k < Len(s) + 1
         /\ \A k \in DOMAIN Append(s, x) : k \in DOMAIN s \/ k = Len(s) + 1
<1>1. DOMAIN Append(s, x) = 1..(Len(s) + 1) /\ DOMAIN s = 1..Len(s) /\ Len(s) \in Nat
  OBVIOUS
<1>2. \A k \in 1..Len(s) : Append(s, x)[k] = s[k]
  OBVIOUS
<1>3. Append(s, x)[Len(s) + 1] = x
  OBVIOUS
<1> QED BY <1>1, <1>2, <1>3

LEMMA RangeOfAppend ==
  ASSUME NEW T, NEW s \in Seq(T), NEW x \in T
  PROVE  Range(Append(s, x)) = Range(s) \cup {x}
  BY AppendParts DEF Range

LEMMA RangeOfTail ==
  ASSUME NEW T, NEW s \in Seq(T), s # <<>>
  PROVE  /\ Head(s) \in Range(s) /\ Head(s) \in T
         /\ Range(Tail(s)) \subseteq Range(s)
         /\ Range(s) \subseteq {Head(s)} \cup Range(Tail(s))
<1>1. DOMAIN s = 1..Len(s) /\ DOMAIN Tail(s) = 1..(Len(s) - 1) /\ Len(s) \in Nat \ {0} /\ Head(s) = s[1]
  OBVIOUS
<1>2. \A k \in DOMAIN Tail(s) : k + 1 \in DOMAIN s /\ Tail(s)[k] = s[k + 1]
  OBVIOUS
<1>3. \A k \in DOMAIN s : k = 1 \/ (k - 1 \in DOMAIN Tail(s) /\ s[k] = Tail(s)[k - 1])
  <2> DEFINE n == Len(s)
             t == Tail(s)
  <2>1. DOMAIN s = 1..n /\ DOMAIN t = 1..(n - 1) /\ n \in Nat
    BY <1>1
  <2>2. \A k \in DOMAIN t : t[k] = s[k + 1]
    BY <1>2
  <2> HIDE DEF n, t
  <2>3. \A k \in 1..n : k = 1 \/ (k - 1 \in 1..(n - 1) /\ (k - 1) + 1 = k)
    BY <2>1
  <2>4. \A k \in DOMAIN s : k = 1 \/ (k - 1 \in DOMAIN t /\ s[k] = t[k - 1])
    BY <2>1, <2>2, <2>3
  <2> QED BY <2>4 DEF t
<1>4. 1 \in DOMAIN s /\ s[1] \in T
  BY <1>1
<1>5. Head(s) \in Range(s) /\ Head(s) \in T
  BY <1>1, <1>4 DEF Range
<1>6. Range(Tail(s)) \subseteq Range(s)
  <2> DEFINE t == Tail(s)
  <2>1. \A k \in DOMAIN t : k + 1 \in DOMAIN s /\ t[k] = s[k + 1]
    BY <1>2
  <2> HIDE DEF t
  <2>2. Range(t) \subseteq Range(s)
    BY <2>1 DEF Range
  <2> QED BY <2>2 DEF t
<1>7. Range(s) \subseteq {Head(s)} \cup Range(Tail(s))
  <2> DEFINE t == Tail(s)
             h == Head(s)
  <2>1. \A k \in DOMAIN s : s[k] = h \/ \E j \in DOMAIN t : s[k] = t[j]
    BY <1>1, <1>3
  <2> HIDE DEF t, h
  <2>2. Range(s) \subseteq {h} \cup Range(t)
    BY <2>1 DEF Range
  <2> QED BY <2>2 DEF t, h
<1> QED BY <1>5, <1>6, <1>7

LEMMA PrecedesNotItself ==
  ASSUME NEW s, Distinct(s), DOMAIN s \subseteq Nat, NEW a
  PROVE  ~ Precedes(s, a, a)
  BY DEF Distinct, Precedes

\* ingesting one more object
LEMMA PrecedesGrows ==
  ASSUME NEW s \in Seq(Object), NEW o \in Object
  PROVE  /\ \A a, b : Precedes(s, a, b) => Precedes(Append(s, o), a, b)
         /\ \A a \in Range(s) : Precedes(Append(s, o), a, o)
<1>1. \A k \in DOMAIN s : k \in DOMAIN Append(s, o) /\ Append(s, o)[k] = s[k] /\ k < Len(s) + 1
  BY AppendParts
<1>2. Len(s) + 1 \in DOMAIN Append(s, o) /\ Append(s, o)[Len(s) + 1] = o
  BY AppendParts
<1>3. \A a, b : Precedes(s, a, b) => Precedes(Append(s, o), a, b)
  BY <1>1 DEF Precedes
<1>4. ASSUME NEW a \in Range(s) PROVE Precedes(Append(s, o), a, o)
  <2>1. PICK k \in DOMAIN s : s[k] = a
    BY DEF Range
  <2> QED BY <1>1, <1>2, <2>1 DEF Precedes
<1> QED BY <1>3, <1>4

LEMMA DistinctGrows ==
  ASSUME NEW s \in Seq(Object), NEW o \in Object, Distinct(s), o \notin Range(s)
  PROVE  Distinct(Append(s, o))
<1>1. \A k \in DOMAIN s : s[k] # o
  BY DEF Range
<1>2. ASSUME NEW m \in DOMAIN Append(s, o), NEW n \in DOMAIN Append(s, o),
             Append(s, o)[m] = Append(s, o)[n]
      PROVE  m = n
  <2>1. CASE m \in DOMAIN s /\ n \in DOMAIN s
    BY <1>2, <2>1, AppendParts DEF Distinct
  <2>2. CASE m = Len(s) + 1 \/ n = Len(s) + 1
    BY <1>1, <1>2, <2>2, AppendParts
  <2> QED BY <2>1, <2>2, AppendParts
<1> QED BY <1>2 DEF Distinct

LEMMA OrderedGrows ==
  ASSUME NEW s \in Seq(Object), NEW o \in Object, NEW q, Ordered(s, q)
  PROVE  Ordered(Append(s, o), q)
  BY PrecedesGrows DEF Ordered

LEMMA OrderedAppend ==
  ASSUME NEW s, NEW q \in Seq(Object), NEW x \in Object, Ordered(s, q),
         \A a \in Range(q) : Precedes(s, a, x)
  PROVE  Ordered(s, Append(q, x))
<1>1. \A k \in DOMAIN q : Precedes(s, q[k], x)
  BY DEF Range
<1>2. ASSUME NEW j \in DOMAIN Append(q, x), NEW k \in DOMAIN Append(q, x), j < k
      PROVE  Precedes(s, Append(q, x)[j], Append(q, x)[k])
  <2>1. j \in DOMAIN q /\ Append(q, x)[j] = q[j]
    BY <1>2, AppendParts
  <2>2. CASE k \in DOMAIN q
    BY <1>2, <2>1, <2>2, AppendParts DEF Ordered
  <2>3. CASE k = Len(q) + 1
    BY <1>1, <2>1, <2>3, AppendParts
  <2> QED BY <2>2, <2>3, AppendParts
<1> QED BY <1>2 DEF Ordered

LEMMA OrderedTail ==
  ASSUME NEW s, NEW T, NEW q \in Seq(T), q # <<>>, Ordered(s, q)
  PROVE  Ordered(s, Tail(q)) /\ \A a \in Range(Tail(q)) : Precedes(s, Head(q), a)
<1>1. \A k \in DOMAIN Tail(q) : k \in Nat /\ k + 1 \in DOMAIN q /\ Tail(q)[k] = q[k + 1]
  OBVIOUS
<1>2. 1 \in DOMAIN q /\ Head(q) = q[1]
  OBVIOUS
<1>3. \A j, k \in DOMAIN Tail(q) : j < k => j + 1 < k + 1
  BY <1>1
<1>4. \A k \in DOMAIN Tail(q) : 1 < k + 1
  OBVIOUS
<1> QED BY <1>1, <1>2, <1>3, <1>4 DEF Ordered, Range

\* The steps of an object from stage to stage.
LEMMA StagesShrink ==
  ASSUME NEW s, NEW A, NEW L, NEW D, NEW P, Stages(s, A, L, D, P),
         NEW L1, L1 \subseteq L, NEW D1, D1 \subseteq D, NEW P1, P1 \subseteq P
  PROVE  Stages(s, A, L1, D1, P1)
  BY DEF Stages

LEMMA StagesIngest ==
  ASSUME NEW s \in Seq(Object), NEW o \in Object, o \notin Range(s),
         NEW A, NEW L, NEW D, NEW P, Stages(s, A, L, D, P)
  PROVE  Stages(Append(s, o), A, L, D, P \cup {o})
<1>1. Range(Append(s, o)) = Range(s) \cup {o}
  BY RangeOfAppend
<1> QED BY <1>1, PrecedesGrows DEF Stages

LEMMA StagesTake ==
  ASSUME NEW s, NEW A, NEW L, NEW P, Stages(s, A, L, {}, P), NEW o \in P,
         NEW P1, P1 \subseteq P, \A b \in P1 : Precedes(s, o, b)
  PROVE  Stages(s, A, L, {o}, P1)
  BY DEF Stages

LEMMA StagesAdd ==
  ASSUME NEW s, NEW A, NEW L, NEW P, NEW o, Stages(s, A, L, {o}, P)
  PROVE  Stages(s, A, L \cup {o}, {}, P)
  BY DEF Stages

LEMMA StagesSend ==
  ASSUME NEW s, NEW A, NEW L, NEW D, NEW P, Stages(s, A, L, D, P), NEW o \in L,
         NEW L1, L1 \subseteq L, \A b \in L1 : Precedes(s, o, b)
  PROVE  Stages(s, A \cup {o}, L1, D, P)
  BY DEF Stages

(***************************************************************************)
(* The store's events and the packager's list.                             *)
(***************************************************************************)
PendingIn(q) == {e.object : e \in {x \in Range(q) : x.name = "ObjectAdded"}}

EventsOrdered(s, q) ==
  \A j, k \in DOMAIN q : j < k /\ q[j].name = "ObjectAdded" /\ q[k].name = "ObjectAdded"
                           => Precedes(s, q[j].object, q[k].object)

LEMMA PendingInIs ==
  ASSUME NEW q, NEW o
  PROVE  o \in PendingIn(q) <=> \E k \in DOMAIN q : q[k].name = "ObjectAdded" /\ q[k].object = o
  BY DEF PendingIn, Range

LEMMA EventsTail ==
  ASSUME NEW s, NEW q \in Seq(StoreEvent), q # <<>>, EventsOrdered(s, q)
  PROVE  /\ EventsOrdered(s, Tail(q))
         /\ PendingIn(Tail(q)) \subseteq PendingIn(q)
         /\ Head(q).name = "ObjectAdded" =>
              /\ Head(q).object \in PendingIn(q)
              /\ \A b \in PendingIn(Tail(q)) : Precedes(s, Head(q).object, b)
<1>1. \A k \in DOMAIN Tail(q) : k \in Nat /\ k + 1 \in DOMAIN q /\ 1 < k + 1 /\ Tail(q)[k] = q[k + 1]
  OBVIOUS
<1>2. 1 \in DOMAIN q /\ Head(q) = q[1]
  OBVIOUS
<1>3. \A j, k \in DOMAIN Tail(q) : j < k => j + 1 < k + 1
  BY <1>1
<1>4. EventsOrdered(s, Tail(q))
  BY <1>1, <1>3 DEF EventsOrdered
<1>5. ASSUME NEW b \in PendingIn(Tail(q)) PROVE b \in PendingIn(q)
  <2>1. PICK k \in DOMAIN Tail(q) : Tail(q)[k].name = "ObjectAdded" /\ Tail(q)[k].object = b
    BY PendingInIs
  <2> QED BY <1>1, <2>1, PendingInIs
<1>6. ASSUME Head(q).name = "ObjectAdded"
      PROVE  /\ Head(q).object \in PendingIn(q)
             /\ \A b \in PendingIn(Tail(q)) : Precedes(s, Head(q).object, b)
  <2>1. Head(q).object \in PendingIn(q)
    BY <1>2, <1>6, PendingInIs
  <2>2. ASSUME NEW b \in PendingIn(Tail(q)) PROVE Precedes(s, Head(q).object, b)
    <3>1. PICK k \in DOMAIN Tail(q) : Tail(q)[k].name = "ObjectAdded" /\ Tail(q)[k].object = b
      BY PendingInIs
    <3> QED BY <1>1, <1>2, <1>6, <3>1 DEF EventsOrdered
  <2> QED BY <2>1, <2>2
<1> QED BY <1>4, <1>5, <1>6

LEMMA EventsAppend ==
  ASSUME NEW s, NEW q \in Seq(StoreEvent), NEW e \in StoreEvent, EventsOrdered(s, q)
  PROVE  /\ e.name # "ObjectAdded" =>
              EventsOrdered(s, Append(q, e)) /\ PendingIn(Append(q, e)) = PendingIn(q)
         /\ e.name = "ObjectAdded" =>
              /\ PendingIn(Append(q, e)) = PendingIn(q) \cup {e.object}
              /\ (\A b \in PendingIn(q) : Precedes(s, b, e.object)) => EventsOrdered(s, Append(q, e))
<1>1. Range(Append(q, e)) = Range(q) \cup {e}
  BY RangeOfAppend
<1>2. /\ e.name # "ObjectAdded" => PendingIn(Append(q, e)) = PendingIn(q)
      /\ e.name = "ObjectAdded" => PendingIn(Append(q, e)) = PendingIn(q) \cup {e.object}
  BY <1>1 DEF PendingIn
<1>3. ASSUME e.name # "ObjectAdded" \/ \A b \in PendingIn(q) : Precedes(s, b, e.object)
      PROVE  EventsOrdered(s, Append(q, e))
  <2> SUFFICES ASSUME NEW j \in DOMAIN Append(q, e), NEW k \in DOMAIN Append(q, e), j < k,
                      Append(q, e)[j].name = "ObjectAdded", Append(q, e)[k].name = "ObjectAdded"
               PROVE  Precedes(s, Append(q, e)[j].object, Append(q, e)[k].object)
    BY DEF EventsOrdered
  <2>1. j \in DOMAIN q /\ Append(q, e)[j] = q[j]
    BY AppendParts
  <2>2. CASE k \in DOMAIN q
    BY <2>1, <2>2, AppendParts DEF EventsOrdered
  <2>3. CASE k = Len(q) + 1
    <3>1. Append(q, e)[k] = e
      BY <2>3, AppendParts
    <3>2. q[j].object \in PendingIn(q)
      BY <2>1, PendingInIs
    <3> QED BY <1>3, <2>1, <3>1, <3>2
  <2> QED BY <2>2, <2>3, AppendParts
<1> QED BY <1>2, <1>3

\* the objects in a list that the worker, at w, has not handed to a transmitter
UnsentIn(q, w) == {q[k].object : k \in {n \in DOMAIN q : w = "sent" => n > 1}}

ItemsOrdered(s, q) == \A j, k \in DOMAIN q : j < k => Precedes(s, q[j].object, q[k].object)

LEMMA ItemsAppend ==
  ASSUME NEW s, NEW q \in Seq(Packager!Item), NEW i \in Packager!Item, ItemsOrdered(s, q),
         \A k \in DOMAIN q : Precedes(s, q[k].object, i.object), NEW w, w = "sent" => q # <<>>
  PROVE  /\ ItemsOrdered(s, Append(q, i))
         /\ UnsentIn(Append(q, i), w) = UnsentIn(q, w) \cup {i.object}
<1>1. ItemsOrdered(s, Append(q, i))
  <2> SUFFICES ASSUME NEW j \in DOMAIN Append(q, i), NEW k \in DOMAIN Append(q, i), j < k
               PROVE  Precedes(s, Append(q, i)[j].object, Append(q, i)[k].object)
    BY DEF ItemsOrdered
  <2>1. j \in DOMAIN q /\ Append(q, i)[j] = q[j]
    BY AppendParts
  <2>2. CASE k \in DOMAIN q
    BY <2>1, <2>2, AppendParts DEF ItemsOrdered
  <2>3. CASE k = Len(q) + 1
    BY <2>1, <2>3, AppendParts
  <2> QED BY <2>2, <2>3, AppendParts
<1>2. w = "sent" => Len(q) + 1 > 1
  OBVIOUS
<1>3. UnsentIn(Append(q, i), w) \subseteq UnsentIn(q, w) \cup {i.object}
  BY AppendParts DEF UnsentIn
<1>4. UnsentIn(q, w) \cup {i.object} \subseteq UnsentIn(Append(q, i), w)
  BY AppendParts, <1>2 DEF UnsentIn
<1> QED BY <1>1, <1>3, <1>4

LEMMA ItemsTail ==
  ASSUME NEW s, NEW q \in Seq(Packager!Item), q # <<>>, ItemsOrdered(s, q)
  PROVE  ItemsOrdered(s, Tail(q)) /\ \A w \in {"io", "top"} : UnsentIn(Tail(q), w) = UnsentIn(q, "sent")
<1>1. \A k \in DOMAIN Tail(q) : k \in Nat /\ k + 1 \in DOMAIN q /\ 1 < k + 1 /\ Tail(q)[k] = q[k + 1]
  OBVIOUS
<1>2. \A k \in DOMAIN q : k > 1 => k - 1 \in DOMAIN Tail(q) /\ Tail(q)[k - 1] = q[k]
  OBVIOUS
<1>3. \A j, k \in DOMAIN Tail(q) : j < k => j + 1 < k + 1
  BY <1>1
<1>4. ItemsOrdered(s, Tail(q))
  BY <1>1, <1>3 DEF ItemsOrdered
<1>5. ASSUME NEW w \in {"io", "top"} PROVE UnsentIn(Tail(q), w) = UnsentIn(q, "sent")
  BY <1>1, <1>2 DEF UnsentIn
<1> QED BY <1>4, <1>5

\* handing the first item over
LEMMA ItemsSend ==
  ASSUME NEW s, NEW q \in Seq(Packager!Item), q # <<>>, ItemsOrdered(s, q), NEW w, w # "sent"
  PROVE  /\ q[1].object \in UnsentIn(q, w) /\ UnsentIn(q, "sent") \subseteq UnsentIn(q, w)
         /\ \A b \in UnsentIn(q, "sent") : Precedes(s, q[1].object, b)
<1>1. 1 \in DOMAIN q
  OBVIOUS
<1> QED BY <1>1 DEF UnsentIn, ItemsOrdered

\* an item without deadline goes to the end of a list of such items
LEMMA InsertLast ==
  ASSUME NEW q \in Seq(Packager!Item), NEW i \in Packager!Item, i.deadline = 1,
         \A k \in DOMAIN q : q[k].deadline = 1
  PROVE  Packager!SortedInsert(q, i) = Append(q, i)
<1>1. /\ Len(q) \in 0..Len(q)
      /\ \A k \in 1..Len(q) : q[k].deadline <= 1
      /\ \A k \in (Len(q) + 1)..Len(q) : q[k].deadline > 1
  OBVIOUS
<1>2. ASSUME NEW n \in 0..Len(q), \A k \in (n + 1)..Len(q) : q[k].deadline > 1
      PROVE  n = Len(q)
  <2>1. CASE n < Len(q)
    <3>1. Len(q) \in (n + 1)..Len(q) /\ Len(q) \in DOMAIN q
      BY <2>1
    <3>2. q[Len(q)].deadline > 1 /\ q[Len(q)].deadline = 1
      BY <1>2, <3>1
    <3> QED BY <3>2
  <2> QED BY <2>1
<1>3. Packager!Before(q, 1) = Len(q)
  BY <1>1, <1>2 DEF Packager!Before
<1> DEFINE t == Packager!SortedInsert(q, i)
<1>4. t = [k \in 1..(Len(q) + 1) |-> IF k <= Len(q) THEN q[k] ELSE IF k = Len(q) + 1 THEN i ELSE q[k - 1]]
  BY <1>3 DEF Packager!SortedInsert
<1> HIDE DEF t
<1>5. \A k \in 1..(Len(q) + 1) : t[k] = Append(q, i)[k] /\ t[k] \in Packager!Item
  BY <1>4
<1>6. t \in [1..(Len(q) + 1) -> Packager!Item]
  BY <1>4, <1>5
<1>7. t \in Seq(Packager!Item) /\ Len(t) = Len(q) + 1
  BY <1>6
<1>8. t = Append(q, i)
  BY <1>5, <1>7
<1> QED BY <1>8 DEF t

(***************************************************************************)
(* The invariant.                                                          *)
(***************************************************************************)
Unsent == UnsentIn(items, worker)
InHand == {a.object : a \in Range(adding)}

\* nothing overtakes on the way from the store to the air
InOrder ==
  /\ Distinct(ingested)
  /\ Ordered(ingested, aired)
  /\ ItemsOrdered(ingested, items)
  /\ EventsOrdered(ingested, storeEvents)
  /\ Stages(ingested, Range(aired), Unsent, InHand, PendingIn(storeEvents))

\* the worker holds the first item, and what is on air is what it handed over last
Sending ==
  /\ \A k \in DOMAIN items : items[k].deadline = 1
  /\ worker \in {"front", "read", "sent"} => items # <<>> /\ held = <<items[1]>>
  /\ worker \in {"front", "read"} => ~queued /\ queuedObject = <<items[1].object>>
  /\ worker = "sent" => OnAir = {items[1].object}
  /\ \A t \in onAir : queued /\ t.toi = queuedToi /\ queuedObject = <<t.object>>

\* completions wait in order, none for an object that is still on air
Reporting ==
  /\ Ordered(ingested, completions)
  /\ \A a \in Range(completions) : \A b \in OnAir : Precedes(ingested, a, b)
  /\ Range(completions) \cup OnAir \subseteq Range(aired)

\* a manifest is marked before it is on its way
Keeping == Manifest \cap (Range(aired) \cup Unsent \cup InHand) \subseteq keep

\* what has left the store has been sent and is of no use to anyone
Leaving ==
  Range(ingested) \ store \subseteq Range(aired) \ (OnAir \cup keep \cup Range(completions))

Inv == TypeOK /\ InOrder /\ Sending /\ Reporting /\ Keeping /\ Leaving

(***************************************************************************)
(* Types.                                                                  *)
(***************************************************************************)
LEMMA EmptyTypes ==
  <<>> \in Seq(Object) /\ <<>> \in Seq(StoreEvent) /\ <<>> \in Seq(Packager!Item)
  OBVIOUS

LEMMA EventTypes ==
  ASSUME NEW o \in Object
  PROVE  /\ [name |-> "ObjectAdded", object |-> o] \in StoreEvent
         /\ [name |-> "ObjectDeleted", object |-> o] \in StoreEvent
  BY DEF StoreEvent

LEMMA NewTypes ==
  ASSUME Packager!New, store' \subseteq Object
  PROVE  Packager!TypeOK'
<1> USE DEF Packager!New
<1>1. items' \in Seq(Packager!Item) /\ completions' \in Seq(Object)
  BY EmptyTypes
<1> QED BY <1>1 DEF Packager!TypeOK, Packager!WorkerAt

LEMMA InitTypes == Init => TypeOK
<1> SUFFICES ASSUME Init PROVE TypeOK
  OBVIOUS
<1> USE DEF Init, ControllerInit, Packager!Init
<1>1. items \in Seq(Packager!Item) /\ completions \in Seq(Object)
  BY EmptyTypes
<1>2. Packager!TypeOK
  BY <1>1 DEF Packager!TypeOK, Packager!WorkerAt
<1>3. storeEvents \in Seq(StoreEvent) /\ ingested \in Seq(Object) /\ aired \in Seq(Object)
  BY EmptyTypes
<1> QED BY <1>2, <1>3 DEF TypeOK, Phase

LEMMA WorkTypes ==
  ASSUME TypeOK, Sending, PackagerWorks, UNCHANGED <<phase, manifestHandler, adding>>
  PROVE  TypeOK'
<1>1. items \in Seq(Packager!Item) /\ Packager!TypeOK
  BY DEF TypeOK, Packager!TypeOK
<1>a. items # <<>> => Head(items) = items[1] /\ items[1] \in Packager!Item
  BY <1>1
<1>b. \A i \in Packager!Item : i.object \in Object
  BY DEF Packager!Item
<1>2. worker \in {"front", "read", "sent"} => held[1] \in Packager!Item /\ held[1].object \in Object
  BY <1>a, <1>b DEF Sending
<1>3. items # <<>> => Head(items) \in Packager!Item /\ Head(items).object \in Object
  BY <1>a, <1>b
<1>4. Packager!TypeOK'
  <2> USE <1>1 DEF Packager!TypeOK, Packager!WorkerAt
  <2>0. UNCHANGED store
    BY DEF PackagerWorks, storeVars
  <2>1. CASE Packager!TakeFront
    BY <1>3, <2>0, <2>1 DEF Packager!TakeFront
  <2>2. CASE \/ Packager!NothingToSend \/ Packager!ReadObject \/ Packager!ReadFails
             \/ Packager!SendFails \/ Packager!RunOther \/ Packager!WorkerEnds
    BY <2>0, <2>2 DEF Packager!NothingToSend, Packager!ReadObject, Packager!ReadFails,
                      Packager!SendFails, Packager!RunOther, Packager!WorkerEnds
  <2>3. CASE Packager!Send
    <3>1. [toi |-> sends + 1, object |-> held[1].object] \in Packager!Transmission
      BY <1>2, <2>3 DEF Packager!Send, Packager!Transmission
    <3> QED BY <2>0, <2>3, <3>1 DEF Packager!Send
  <2>4. CASE Packager!Pop
    <3>1. items # <<>>
      BY <2>4 DEF Packager!Pop, Sending
    <3> QED BY <2>0, <2>4, <3>1 DEF Packager!Pop
  <2> QED BY <2>1, <2>2, <2>3, <2>4 DEF PackagerWorks, Packager!Work
<1>5. aired' \in Seq(Object)
  <2>1. CASE sends' = sends
    BY <2>1 DEF PackagerWorks, TypeOK
  <2>2. CASE sends' # sends
    <3>1. worker = "read"
      BY <2>2 DEF PackagerWorks, Packager!Work, Packager!TakeFront, Packager!NothingToSend,
                  Packager!ReadObject, Packager!ReadFails, Packager!Send, Packager!SendFails,
                  Packager!Pop, Packager!RunOther, Packager!WorkerEnds
    <3> QED BY <1>2, <2>2, <3>1 DEF PackagerWorks, TypeOK
  <2> QED BY <2>1, <2>2
<1>6. UNCHANGED <<phase, manifestHandler, adding, keep, storeEvents, packager, followed, ingested>>
  BY DEF PackagerWorks, storeVars
<1> QED BY <1>4, <1>5, <1>6 DEF TypeOK

(***************************************************************************)
(* Every step keeps the invariant.                                         *)
(***************************************************************************)
LEMMA NotItself == ASSUME Inv PROVE \A a : ~ Precedes(ingested, a, a)
<1>1. DOMAIN ingested \subseteq Nat /\ Distinct(ingested)
  BY DEF Inv, TypeOK, InOrder
<1> QED BY <1>1, PrecedesNotItself

\* what is on its way has not been sent, so it is in the store
LEMMA UnderWay ==
  ASSUME Inv
  PROVE  /\ (Unsent \cup InHand \cup PendingIn(storeEvents)) \cap Range(aired) = {}
         /\ Unsent \cup InHand \cup PendingIn(storeEvents) \cup OnAir \subseteq store
<1>1. Stages(ingested, Range(aired), Unsent, InHand, PendingIn(storeEvents))
  BY DEF Inv, InOrder
<1>2. (Unsent \cup InHand \cup PendingIn(storeEvents)) \cap Range(aired) = {}
  BY <1>1, NotItself DEF Stages
<1>3. Unsent \cup InHand \cup PendingIn(storeEvents) \cup OnAir \subseteq Range(ingested)
  BY <1>1 DEF Stages, Inv, Reporting
<1> QED BY <1>2, <1>3 DEF Inv, Leaving

LEMMA ListedIs == ASSUME Sending PROVE Listed \subseteq Unsent \cup OnAir
  BY DEF Sending, Listed, Unsent, UnsentIn

LEMMA InitInv == Init => Inv
<1> SUFFICES ASSUME Init PROVE Inv
  OBVIOUS
<1> USE DEF Init, ControllerInit, Packager!Init
<1>1. TypeOK
  BY InitTypes
<1>2. Range(ingested) = {} /\ Range(aired) = {} /\ Range(completions) = {} /\ Range(storeEvents) = {}
      /\ Range(adding) = {}
  BY DEF Range
<1>3. Unsent = {} /\ InHand = {} /\ PendingIn(storeEvents) = {} /\ OnAir = {}
  BY <1>2 DEF Unsent, UnsentIn, InHand, PendingIn, OnAir
<1>4. InOrder
  BY <1>2, <1>3 DEF InOrder, Distinct, Ordered, ItemsOrdered, EventsOrdered, Stages
<1>5. Sending /\ Reporting
  BY <1>2, <1>3 DEF Sending, Reporting, Ordered
<1>6. Keeping /\ Leaving
  BY <1>2, <1>3 DEF Keeping, Leaving
<1> QED BY <1>1, <1>4, <1>5, <1>6 DEF Inv

LEMMA SameInv ==
  ASSUME Inv, TypeOK', UNCHANGED <<storeVars, adding, ingested, aired, packagerVars>>
  PROVE  Inv'
<1>1. /\ UNCHANGED <<store, keep, storeEvents, adding, ingested, aired>>
      /\ UNCHANGED <<items, worker, held, queued, queuedToi, queuedObject, onAir, completions>>
  BY DEF storeVars, packagerVars
<1>2. Unsent' = Unsent /\ InHand' = InHand /\ OnAir' = OnAir
  BY <1>1 DEF Unsent, InHand, OnAir
<1> USE <1>1, <1>2 DEF Inv
<1>3. InOrder'
  BY DEF InOrder
<1>4. Sending' /\ Reporting'
  BY DEF Sending, Reporting
<1>5. Keeping' /\ Leaving'
  BY DEF Keeping, Leaving
<1> QED BY <1>3, <1>4, <1>5

\* a new packager, with an object in the event thread's hand or none
LEMMA ResetInv ==
  ASSUME Inv, TypeOK', Packager!New, UNCHANGED <<ingested, aired, store>>,
         EventsOrdered(ingested, storeEvents'),
         InHand' \subseteq InHand, PendingIn(storeEvents') \subseteq PendingIn(storeEvents),
         keep \subseteq keep', keep' \ keep \subseteq store
  PROVE  Inv'
<1> USE DEF Packager!New
<1>1. Range(completions') = {} /\ Unsent' = {} /\ OnAir' = {}
  BY DEF Range, Unsent, UnsentIn, OnAir
<1>2. InOrder'
  <2>1. Stages(ingested, Range(aired), {}, InHand', PendingIn(storeEvents'))
    BY StagesShrink DEF Inv, InOrder
  <2>2. ItemsOrdered(ingested, items')
    BY DEF ItemsOrdered
  <2> QED BY <1>1, <2>1, <2>2 DEF Inv, InOrder
<1>3. Sending' /\ Reporting'
  BY <1>1 DEF Sending, Reporting, Ordered
<1>4. Keeping'
  BY <1>1 DEF Keeping, Inv
<1>5. Leaving'
  BY <1>1 DEF Leaving, Inv
<1> QED BY <1>2, <1>3, <1>4, <1>5 DEF Inv

LEMMA ConstructInv == ASSUME Inv, Construct PROVE Inv'
<1>0. TypeOK
  BY DEF Inv
<1>1. CASE SubscribeToStore \/ SubscribeToPackager
  <2>1. UNCHANGED <<storeVars, adding, ingested, aired, packagerVars>>
    BY <1>1 DEF SubscribeToStore, SubscribeToPackager, controllerVars
  <2>2. /\ phase' \in Phase /\ followed' \in BOOLEAN
        /\ UNCHANGED <<manifestHandler, packager>>
    BY <1>0, <1>1 DEF SubscribeToStore, SubscribeToPackager, controllerVars, Phase, TypeOK
  <2>3. Packager!TypeOK'
    BY <1>0, <2>1 DEF storeVars, packagerVars, TypeOK, Packager!TypeOK
  <2>4. TypeOK'
    BY <1>0, <2>1, <2>2, <2>3 DEF TypeOK, storeVars
  <2> QED BY <2>1, <2>4, SameInv
<1>2. CASE SetObjectListPackager
  <2> USE <1>2 DEF SetObjectListPackager, SetPackager, storeVars
  <2>1. Packager!TypeOK'
    BY <1>0, NewTypes DEF TypeOK, Packager!TypeOK
  <2>2. TypeOK'
    BY <1>0, <2>1 DEF TypeOK, Phase
  <2>3. EventsOrdered(ingested, storeEvents)
    BY DEF Inv, InOrder
  <2>4. InHand' = InHand /\ PendingIn(storeEvents') = PendingIn(storeEvents)
    BY DEF InHand
  <2> QED BY <2>2, <2>3, <2>4, ResetInv
<1> QED BY <1>1, <1>2 DEF Construct

LEMMA IngestInv == ASSUME Inv, NEW o \in Object, Ingest(o) PROVE Inv'
<1> USE DEF Ingest, AddObject
<1> DEFINE e == [name |-> "ObjectAdded", object |-> o]
<1>0. /\ o \notin Range(ingested) /\ ingested' = Append(ingested, o) /\ store' = store \cup {o}
      /\ storeEvents' = Append(storeEvents, e) /\ e \in StoreEvent
      /\ UNCHANGED <<keep, packager, followed, aired, phase, manifestHandler, adding>>
      /\ UNCHANGED <<items, worker, cancel, held, queued, queuedToi, queuedObject, sends, onAir, completions>>
  BY EventTypes DEF packagerVars
<1>1. ingested \in Seq(Object) /\ storeEvents \in Seq(StoreEvent) /\ e.name = "ObjectAdded" /\ e.object = o
  BY DEF Inv, TypeOK
<1> HIDE DEF e
<1>2. TypeOK'
  <2>1. Packager!TypeOK'
    BY <1>0 DEF Inv, TypeOK, Packager!TypeOK
  <2>2. ingested' \in Seq(Object) /\ storeEvents' \in Seq(StoreEvent)
    BY <1>0, <1>1
  <2> QED BY <1>0, <2>1, <2>2 DEF Inv, TypeOK
<1>3. \A a, b : Precedes(ingested, a, b) => Precedes(ingested', a, b)
  BY <1>0, <1>1, PrecedesGrows
<1>4. Range(ingested') = Range(ingested) \cup {o}
  BY <1>0, <1>1, RangeOfAppend
<1>5. Unsent' = Unsent /\ InHand' = InHand /\ OnAir' = OnAir
  BY <1>0 DEF Unsent, InHand, OnAir
<1>6. InOrder'
  <2>1. Distinct(ingested')
    BY <1>0, <1>1, DistinctGrows DEF Inv, InOrder
  <2>2. Ordered(ingested', aired') /\ ItemsOrdered(ingested', items')
    BY <1>0, <1>3 DEF Inv, InOrder, Ordered, ItemsOrdered
  <2>3. EventsOrdered(ingested', storeEvents)
    BY <1>3 DEF Inv, InOrder, EventsOrdered
  <2>4. Stages(ingested, Range(aired), Unsent, InHand, PendingIn(storeEvents))
    BY DEF Inv, InOrder
  <2>5. \A b \in PendingIn(storeEvents) : Precedes(ingested', b, o)
    BY <1>0, <1>1, <2>4, PrecedesGrows DEF Stages
  <2>6. EventsOrdered(ingested', storeEvents') /\ PendingIn(storeEvents') = PendingIn(storeEvents) \cup {o}
    BY <1>0, <1>1, <2>3, <2>5, EventsAppend
  <2>7. Stages(ingested', Range(aired), Unsent, InHand, PendingIn(storeEvents) \cup {o})
    BY <1>0, <1>1, <2>4, StagesIngest
  <2> QED BY <1>0, <1>5, <2>1, <2>2, <2>6, <2>7 DEF InOrder
<1>7. Sending'
  BY <1>0, <1>5 DEF Inv, Sending
<1>8. Reporting'
  BY <1>0, <1>3, <1>5 DEF Inv, Reporting, Ordered
<1>9. Keeping' /\ Leaving'
  BY <1>0, <1>4, <1>5 DEF Inv, Keeping, Leaving
<1> QED BY <1>2, <1>6, <1>7, <1>8, <1>9 DEF Inv

\* the event thread takes the oldest event
LEMMA TakeFacts ==
  ASSUME Inv, TakeStoreEvent
  PROVE  /\ EventsOrdered(ingested, storeEvents') /\ storeEvents' \in Seq(StoreEvent)
         /\ PendingIn(storeEvents') \subseteq PendingIn(storeEvents)
         /\ InHand = {}
         /\ \A o \in Object : Head(storeEvents) = [name |-> "ObjectAdded", object |-> o] =>
              /\ o \in PendingIn(storeEvents)
              /\ \A b \in PendingIn(storeEvents') : Precedes(ingested, o, b)
<1>1. /\ storeEvents \in Seq(StoreEvent) /\ storeEvents # <<>> /\ storeEvents' = Tail(storeEvents)
      /\ adding = <<>> /\ EventsOrdered(ingested, storeEvents)
  BY DEF TakeStoreEvent, Inv, TypeOK, InOrder
<1>2. InHand = {}
  BY <1>1 DEF InHand, Range
<1>3. storeEvents' \in Seq(StoreEvent)
  BY <1>1
<1>4. /\ EventsOrdered(ingested, storeEvents')
      /\ PendingIn(storeEvents') \subseteq PendingIn(storeEvents)
      /\ Head(storeEvents).name = "ObjectAdded" =>
           /\ Head(storeEvents).object \in PendingIn(storeEvents)
           /\ \A b \in PendingIn(storeEvents') : Precedes(ingested, Head(storeEvents).object, b)
  BY <1>1, EventsTail
<1> QED BY <1>2, <1>3, <1>4

LEMMA IgnoreInv == ASSUME Inv, IgnoreEvent PROVE Inv'
<1>0. TakeStoreEvent
  BY DEF IgnoreEvent
<1>1. /\ UNCHANGED <<store, keep, adding, ingested, aired, phase, manifestHandler, packager, followed>>
      /\ UNCHANGED <<items, worker, cancel, held, queued, queuedToi, queuedObject, sends, onAir, completions>>
  BY DEF IgnoreEvent, TakeStoreEvent, packagerVars
<1>2. TypeOK'
  <2>1. Packager!TypeOK'
    BY <1>1 DEF Inv, TypeOK, Packager!TypeOK
  <2> QED BY <1>0, <1>1, <2>1, TakeFacts DEF Inv, TypeOK
<1>3. Unsent' = Unsent /\ InHand' = InHand /\ OnAir' = OnAir
  BY <1>1 DEF Unsent, InHand, OnAir
<1>4. InOrder'
  <2>1. Stages(ingested, Range(aired), Unsent, InHand, PendingIn(storeEvents'))
    BY <1>0, TakeFacts, StagesShrink DEF Inv, InOrder
  <2> QED BY <1>0, <1>1, <1>3, <2>1, TakeFacts DEF Inv, InOrder
<1>5. Sending' /\ Reporting'
  BY <1>1, <1>3 DEF Inv, Sending, Reporting
<1>6. Keeping' /\ Leaving'
  BY <1>1, <1>3 DEF Inv, Keeping, Leaving
<1> QED BY <1>2, <1>4, <1>5, <1>6 DEF Inv

LEMMA ObjectAddedInv == ASSUME Inv, NEW o \in Object, ObjectAdded(o) PROVE Inv'
<1>0. TakeStoreEvent /\ Head(storeEvents) = [name |-> "ObjectAdded", object |-> o]
  BY DEF ObjectAdded
<1>1. /\ adding' = <<[object |-> o, make |-> ~packager]>>
      /\ keep \subseteq keep' /\ keep' \subseteq keep \cup {o} /\ (o \in Manifest => o \in keep')
      /\ UNCHANGED <<store, ingested, aired, phase, packager, followed>>
      /\ UNCHANGED <<items, worker, cancel, held, queued, queuedToi, queuedObject, sends, onAir, completions>>
  BY DEF ObjectAdded, TakeStoreEvent, packagerVars
<1>2. manifestHandler' \in BOOLEAN
  BY DEF ObjectAdded, Inv, TypeOK
<1>3. TypeOK'
  <2>1. Packager!TypeOK'
    BY <1>1 DEF Inv, TypeOK, Packager!TypeOK
  <2>2. adding' \in {<<a>> : a \in Adding}
    BY <1>1 DEF Adding, Inv, TypeOK
  <2> QED BY <1>0, <1>1, <1>2, <2>1, <2>2, TakeFacts DEF Inv, TypeOK
<1>4. Unsent' = Unsent /\ InHand' = {o} /\ OnAir' = OnAir
  BY <1>1 DEF Unsent, InHand, OnAir, Range
<1>5. o \in PendingIn(storeEvents) /\ InHand = {}
  BY <1>0, TakeFacts
<1>6. InOrder'
  <2>1. Stages(ingested, Range(aired), Unsent, {o}, PendingIn(storeEvents'))
    BY <1>0, <1>5, TakeFacts, StagesTake DEF Inv, InOrder
  <2> QED BY <1>0, <1>1, <1>4, <2>1, TakeFacts DEF Inv, InOrder
<1>7. Sending' /\ Reporting'
  BY <1>1, <1>4 DEF Inv, Sending, Reporting
<1>8. Keeping'
  BY <1>1, <1>4, <1>5 DEF Inv, Keeping
<1>9. Leaving'
  BY <1>1, <1>4, <1>5, UnderWay DEF Inv, Leaving
<1> QED BY <1>3, <1>6, <1>7, <1>8, <1>9 DEF Inv

LEMMA UnreadableInv == ASSUME Inv, NEW o \in Object, UnreadableManifestAdded(o) PROVE Inv'
<1>0. TakeStoreEvent /\ Head(storeEvents) = [name |-> "ObjectAdded", object |-> o]
  BY DEF UnreadableManifestAdded
<1>1. /\ keep' = keep \cup {o}
      /\ UNCHANGED <<store, ingested, aired, phase, manifestHandler, adding>>
  BY DEF UnreadableManifestAdded, TakeStoreEvent
<1>2. o \in store /\ o \in PendingIn(storeEvents) /\ InHand' = InHand
  BY <1>0, <1>1, TakeFacts, UnderWay DEF InHand
<1>3. CASE ~manifestHandler
  <2>1. /\ UNCHANGED <<packager, followed>>
        /\ UNCHANGED <<items, worker, cancel, held, queued, queuedToi, queuedObject, sends, onAir, completions>>
    BY <1>3 DEF UnreadableManifestAdded, packagerVars
  <2>2. TypeOK'
    <3>1. Packager!TypeOK'
      BY <1>1, <2>1 DEF Inv, TypeOK, Packager!TypeOK
    <3> QED BY <1>0, <1>1, <2>1, <3>1, TakeFacts DEF Inv, TypeOK
  <2>3. Unsent' = Unsent /\ OnAir' = OnAir
    BY <2>1 DEF Unsent, OnAir
  <2>4. InOrder'
    <3>1. Stages(ingested, Range(aired), Unsent, InHand, PendingIn(storeEvents'))
      BY <1>0, TakeFacts, StagesShrink DEF Inv, InOrder
    <3> QED BY <1>0, <1>1, <1>2, <2>1, <2>3, <3>1, TakeFacts DEF Inv, InOrder
  <2>5. Sending' /\ Reporting'
    BY <1>1, <2>1, <2>3 DEF Inv, Sending, Reporting
  <2>6. Keeping' /\ Leaving'
    BY <1>1, <1>2, <2>1, <2>3 DEF Inv, Keeping, Leaving
  <2> QED BY <2>2, <2>4, <2>5, <2>6 DEF Inv
<1>4. CASE manifestHandler
  <2>1. Packager!New /\ packager' \in BOOLEAN /\ followed' \in BOOLEAN
    BY <1>4 DEF UnreadableManifestAdded, UnsetPackager
  <2>2. Packager!TypeOK'
    BY <1>1, <2>1, NewTypes DEF Inv, TypeOK, Packager!TypeOK
  <2>3. TypeOK'
    BY <1>0, <1>1, <2>1, <2>2, TakeFacts DEF Inv, TypeOK
  <2> QED BY <1>0, <1>1, <1>2, <2>1, <2>3, TakeFacts, ResetInv
<1> QED BY <1>3, <1>4

LEMMA HandIs ==
  ASSUME TypeOK, adding # <<>>
  PROVE  adding = <<adding[1]>> /\ adding[1] \in Adding /\ adding[1].object \in Object
         /\ InHand = {adding[1].object}
<1>1. PICK a \in Adding : adding = <<a>>
  BY DEF TypeOK
<1>2. Range(adding) = {a}
  BY <1>1 DEF Range
<1> QED BY <1>1, <1>2 DEF InHand, Adding

LEMMA MakeInv == ASSUME Inv, MakePackager PROVE Inv'
<1> DEFINE b == [adding[1] EXCEPT !.make = FALSE]
<1>1. /\ adding # <<>> /\ adding' = <<b>> /\ Packager!New /\ packager' = TRUE /\ followed' = FALSE
      /\ UNCHANGED <<phase, manifestHandler, store, keep, storeEvents, ingested, aired>>
  BY DEF MakePackager, SetPackager, storeVars
<1>2. adding[1] \in Adding /\ InHand = {adding[1].object}
  BY <1>1, HandIs DEF Inv
<1>3. b \in Adding /\ b.object = adding[1].object
  BY <1>2 DEF Adding
<1> HIDE DEF b
<1>4. TypeOK'
  <2>1. Packager!TypeOK'
    BY <1>1, NewTypes DEF Inv, TypeOK, Packager!TypeOK
  <2> QED BY <1>1, <1>3, <2>1 DEF Inv, TypeOK
<1>5. Range(adding') = {b}
  BY <1>1 DEF Range
<1>6. InHand' = {adding[1].object}
  BY <1>3, <1>5 DEF InHand
<1>7. EventsOrdered(ingested, storeEvents')
  BY <1>1 DEF Inv, InOrder
<1> QED BY <1>1, <1>2, <1>4, <1>6, <1>7, ResetInv

LEMMA AddToPackagerInv == ASSUME Inv, AddToPackager PROVE Inv'
<1> DEFINE o == adding[1].object
           i == [object |-> o, deadline |-> 1]
<1>0. adding # <<>> /\ Packager!Add(i) /\ adding' = <<>>
      /\ UNCHANGED <<phase, manifestHandler, store, keep, storeEvents, packager, followed, ingested, aired>>
  BY DEF AddToPackager, AddPackageItem, storeVars
<1>1. o \in Object /\ InHand = {o} /\ i \in Packager!Item
  BY <1>0, HandIs DEF Inv, Packager!Item
<1>2. items \in Seq(Packager!Item)
  BY DEF Inv, TypeOK, Packager!TypeOK
<1>3. i.deadline = 1 /\ i.object = o
  OBVIOUS
<1> HIDE DEF i, o
<1>4. /\ items' = Append(items, i)
      /\ UNCHANGED <<worker, cancel, held, queued, queuedToi, queuedObject, sends, onAir, completions>>
  BY <1>0, <1>1, <1>2, <1>3, InsertLast DEF Packager!Add, Inv, Sending
<1>5. items' \in Seq(Packager!Item) /\ (items # <<>> => items' # <<>> /\ items'[1] = items[1])
  BY <1>1, <1>2, <1>4
<1>6. TypeOK'
  <2>1. Packager!TypeOK'
    BY <1>0, <1>4, <1>5 DEF Inv, TypeOK, Packager!TypeOK
  <2> QED BY <1>0, <2>1 DEF Inv, TypeOK
<1>7. InHand' = {} /\ OnAir' = OnAir
  BY <1>0, <1>4 DEF InHand, OnAir, Range
<1>8. Stages(ingested, Range(aired), Unsent, {o}, PendingIn(storeEvents))
  BY <1>1 DEF Inv, InOrder
<1>9. \A k \in DOMAIN items : Precedes(ingested, items[k].object, o)
  <2>1. \A a \in Unsent \cup OnAir : Precedes(ingested, a, o)
    BY <1>8 DEF Stages, Inv, Reporting
  <2>2. \A k \in DOMAIN items : items[k].object \in Unsent \cup OnAir
    BY ListedIs DEF Listed, Inv
  <2> QED BY <2>1, <2>2
<1>10. ItemsOrdered(ingested, items') /\ Unsent' = Unsent \cup {o}
  <2>1. worker = "sent" => items # <<>>
    BY DEF Inv, Sending
  <2> QED BY <1>1, <1>2, <1>3, <1>4, <1>9, <2>1, ItemsAppend DEF Inv, InOrder, Unsent
<1>11. InOrder'
  <2>1. Stages(ingested, Range(aired), Unsent \cup {o}, {}, PendingIn(storeEvents))
    BY <1>8, StagesAdd
  <2> QED BY <1>0, <1>7, <1>10, <2>1 DEF Inv, InOrder
<1>12. Sending'
  <2>1. \A k \in DOMAIN items' : items'[k].deadline = 1
    BY <1>1, <1>2, <1>3, <1>4, AppendParts DEF Inv, Sending
  <2> QED BY <1>4, <1>5, <1>7, <2>1 DEF Inv, Sending
<1>13. Reporting'
  BY <1>0, <1>4, <1>7 DEF Inv, Reporting
<1>14. Keeping' /\ Leaving'
  BY <1>0, <1>1, <1>4, <1>7, <1>10 DEF Inv, Keeping, Leaving
<1> QED BY <1>6, <1>11, <1>12, <1>13, <1>14 DEF Inv

\* a step of the worker other than handing over and popping
LEMMA WorkQuietlyInv ==
  ASSUME Inv, TypeOK', UNCHANGED <<storeVars, adding, ingested, aired>>,
         UNCHANGED <<items, queuedToi, onAir, completions>>,
         worker # "sent" /\ worker' # "sent",
         Sending'
  PROVE  Inv'
<1>1. UNCHANGED <<store, keep, storeEvents>>
  BY DEF storeVars
<1>2. Unsent' = Unsent /\ InHand' = InHand /\ OnAir' = OnAir
  BY DEF Unsent, UnsentIn, InHand, OnAir
<1>3. InOrder' /\ Reporting'
  BY <1>1, <1>2 DEF Inv, InOrder, Reporting
<1>4. Keeping' /\ Leaving'
  BY <1>1, <1>2 DEF Inv, Keeping, Leaving
<1> QED BY <1>3, <1>4 DEF Inv

LEMMA SendInv ==
  ASSUME Inv, TypeOK', Packager!Send, aired' = Append(aired, held[1].object),
         UNCHANGED <<storeVars, adding, ingested>>
  PROVE  Inv'
<1> DEFINE o == items[1].object
           t == [toi |-> sends + 1, object |-> o]
<1>0. UNCHANGED <<store, keep, storeEvents, adding, ingested>>
  BY DEF storeVars
<1>1. /\ worker = "read" /\ worker' = "sent" /\ items # <<>> /\ held = <<items[1]>>
      /\ ~queued /\ queuedObject = <<o>>
  BY DEF Packager!Send, Inv, Sending
<1>2. items \in Seq(Packager!Item) /\ aired \in Seq(Object) /\ o \in Object
  <2>1. items \in Seq(Packager!Item) /\ aired \in Seq(Object)
    BY DEF Inv, TypeOK, Packager!TypeOK
  <2>2. items[1] \in Packager!Item
    BY <1>1, <2>1
  <2> QED BY <2>1, <2>2 DEF Packager!Item
<1>3. onAir = {}
  BY <1>1 DEF Inv, Sending
<1>4. /\ onAir' = {t} /\ queued' /\ queuedToi' = sends + 1 /\ aired' = Append(aired, o)
      /\ UNCHANGED <<items, held, queuedObject, completions>>
  BY <1>1, <1>3 DEF Packager!Send
<1>5. OnAir = {} /\ OnAir' = {o}
  BY <1>3, <1>4 DEF OnAir
<1>6. /\ o \in Unsent /\ Unsent' \subseteq Unsent
      /\ \A b \in Unsent' : Precedes(ingested, o, b)
  BY <1>0, <1>1, <1>2, <1>4, ItemsSend DEF Inv, InOrder, Unsent
<1>7. Range(aired') = Range(aired) \cup {o} /\ InHand' = InHand
  BY <1>0, <1>2, <1>4, RangeOfAppend DEF InHand
<1>8. \A a \in Range(aired) : Precedes(ingested, a, o)
  BY <1>6 DEF Inv, InOrder, Stages
<1> HIDE DEF o
<1>9. InOrder'
  <2>1. Ordered(ingested, aired')
    BY <1>2, <1>4, <1>8, OrderedAppend DEF Inv, InOrder
  <2>2. Stages(ingested, Range(aired) \cup {o}, Unsent', InHand, PendingIn(storeEvents))
    BY <1>6, StagesSend DEF Inv, InOrder
  <2> QED BY <1>0, <1>4, <1>7, <2>1, <2>2 DEF Inv, InOrder
<1>10. Sending'
  <2>1. \A u \in onAir' : u.toi = sends + 1 /\ u.object = o
    BY <1>4
  <2> QED BY <1>1, <1>4, <1>5, <2>1 DEF Inv, Sending, o
<1>11. Reporting'
  BY <1>0, <1>4, <1>5, <1>7, <1>8 DEF Inv, Reporting
<1>12. Keeping'
  BY <1>0, <1>6, <1>7 DEF Inv, Keeping
<1>13. Leaving'
  BY <1>0, <1>4, <1>5, <1>6, <1>7, UnderWay DEF Inv, Leaving
<1> QED BY <1>9, <1>10, <1>11, <1>12, <1>13 DEF Inv

LEMMA PopInv ==
  ASSUME Inv, TypeOK', Packager!Pop, UNCHANGED <<storeVars, adding, ingested, aired>>
  PROVE  Inv'
<1>0. UNCHANGED <<store, keep, storeEvents, adding, ingested, aired>>
  BY DEF storeVars
<1>1. /\ worker = "sent" /\ worker' = "io" /\ items' = Tail(items) /\ items # <<>>
      /\ UNCHANGED <<queued, queuedToi, queuedObject, onAir, completions>>
  BY DEF Packager!Pop, Inv, Sending
<1>2. items \in Seq(Packager!Item)
  BY DEF Inv, TypeOK, Packager!TypeOK
<1>3. ItemsOrdered(ingested, items') /\ Unsent' = Unsent
  BY <1>1, <1>2, ItemsTail DEF Inv, InOrder, Unsent
<1>4. InHand' = InHand /\ OnAir' = OnAir
  BY <1>0, <1>1 DEF InHand, OnAir
<1>5. \A k \in DOMAIN items' : items'[k].deadline = 1
  <2>1. \A k \in DOMAIN items' : k + 1 \in DOMAIN items /\ items'[k] = items[k + 1]
    BY <1>1, <1>2
  <2> QED BY <2>1 DEF Inv, Sending
<1>6. InOrder'
  BY <1>0, <1>3, <1>4 DEF Inv, InOrder
<1>7. Sending' /\ Reporting'
  BY <1>0, <1>1, <1>4, <1>5 DEF Inv, Sending, Reporting
<1>8. Keeping' /\ Leaving'
  BY <1>0, <1>1, <1>3, <1>4 DEF Inv, Keeping, Leaving
<1> QED BY <1>6, <1>7, <1>8 DEF Inv

LEMMA WorksInv ==
  ASSUME Inv, PackagerWorks, UNCHANGED <<phase, manifestHandler, adding>>
  PROVE  Inv'
<1>1. TypeOK' /\ Packager!Work /\ UNCHANGED <<storeVars, ingested>>
  BY WorkTypes DEF Inv, PackagerWorks
<1>2. CASE Packager!Send
  <2>1. sends \in Nat
    BY DEF Inv, TypeOK, Packager!TypeOK
  <2>2. aired' = Append(aired, held[1].object)
    BY <1>2, <2>1 DEF PackagerWorks, Packager!Send
  <2> QED BY <1>1, <1>2, <2>2, SendInv
<1>3. CASE ~Packager!Send
  <2>1. aired' = aired
    <3>1. sends' = sends
      BY <1>1, <1>3 DEF Packager!Work, Packager!TakeFront, Packager!NothingToSend, Packager!ReadObject,
                        Packager!ReadFails, Packager!SendFails, Packager!Pop, Packager!RunOther,
                        Packager!WorkerEnds
    <3> QED BY <3>1 DEF PackagerWorks
  <2>2. CASE Packager!Pop
    BY <1>1, <2>1, <2>2, PopInv
  <2>3. CASE Packager!TakeFront
    <3>1. items \in Seq(Packager!Item) /\ items # <<>>
      BY <2>3 DEF Inv, TypeOK, Packager!TypeOK, Packager!TakeFront
    <3>2. /\ Head(items) = items[1] /\ ~queued /\ worker = "top" /\ worker' = "front"
          /\ held' = <<Head(items)>> /\ queuedObject' = <<Head(items).object>>
          /\ UNCHANGED <<items, queued, queuedToi, onAir, completions>>
      BY <2>3, <3>1 DEF Packager!TakeFront
    <3>3. onAir = {}
      BY <3>2 DEF Inv, Sending
    <3>4. Sending'
      BY <3>1, <3>2, <3>3 DEF Inv, Sending
    <3> QED BY <1>1, <2>1, <3>2, <3>4, WorkQuietlyInv
  <2>4. CASE \/ Packager!NothingToSend \/ Packager!ReadObject \/ Packager!ReadFails
             \/ Packager!RunOther \/ Packager!WorkerEnds
    <3>1. /\ UNCHANGED <<items, queued, queuedToi, queuedObject, onAir, completions>>
          /\ worker # "sent" /\ worker' # "sent"
          /\ worker' \in {"front", "read"} => worker \in {"front", "read"} /\ held' = held
      BY <2>4 DEF Packager!NothingToSend, Packager!ReadObject, Packager!ReadFails,
                  Packager!RunOther, Packager!WorkerEnds
    <3>2. Sending'
      BY <3>1 DEF Inv, Sending
    <3> QED BY <1>1, <2>1, <3>1, <3>2, WorkQuietlyInv
  <2>5. CASE Packager!SendFails
    <3>1. ~queued
      BY <2>5 DEF Packager!SendFails, Inv, Sending
    <3>2. onAir = {}
      BY <3>1 DEF Inv, Sending
    <3>3. /\ UNCHANGED <<items, queuedToi, queuedObject, onAir, completions>>
          /\ worker # "sent" /\ worker' = "top"
      BY <2>5 DEF Packager!SendFails
    <3>4. Sending'
      BY <3>2, <3>3 DEF Inv, Sending
    <3> QED BY <1>1, <2>1, <3>3, <3>4, WorkQuietlyInv
  <2> QED BY <1>1, <1>3, <2>2, <2>3, <2>4, <2>5 DEF Packager!Work
<1> QED BY <1>2, <1>3

LEMMA CompleteInv ==
  ASSUME Inv, CompleteObject, UNCHANGED <<phase, manifestHandler, adding>>
  PROVE  Inv'
<1>1. PICK t \in onAir : Packager!Complete(t)
  BY DEF CompleteObject, Packager!CompleteAny
<1>2. UNCHANGED <<store, keep, storeEvents, packager, followed, ingested, aired, phase, manifestHandler, adding>>
  BY DEF CompleteObject, storeVars
<1>3. onAir \subseteq Packager!Transmission /\ completions \in Seq(Object)
  BY DEF Inv, TypeOK, Packager!TypeOK
<1>4. \A u \in onAir : queued /\ u.toi = queuedToi /\ queuedObject = <<u.object>>
  BY DEF Inv, Sending
<1>5. t.object \in Object /\ t.toi = queuedToi /\ queuedObject = <<t.object>>
  BY <1>3, <1>4 DEF Packager!Transmission
<1>6. onAir = {t}
  <2>1. \A u \in onAir : u.toi = t.toi /\ u.object = t.object
    BY <1>4, <1>5
  <2>2. \A u \in onAir : u = [toi |-> t.toi, object |-> t.object]
    BY <1>3, <2>1 DEF Packager!Transmission
  <2> QED BY <2>2
<1>7. /\ worker = "io" /\ worker' = "top" /\ onAir' = {} /\ completions' = completions \o <<t.object>>
      /\ queued' = FALSE
      /\ UNCHANGED <<items, cancel, held, queuedToi, queuedObject, sends>>
  BY <1>1, <1>5, <1>6 DEF Packager!Complete
<1>8. completions' = Append(completions, t.object)
  BY <1>3, <1>5, <1>7
<1>9. OnAir = {t.object} /\ OnAir' = {}
  BY <1>6, <1>7 DEF OnAir
<1>10. Range(completions') = Range(completions) \cup {t.object}
  BY <1>3, <1>5, <1>8, RangeOfAppend
<1>11. TypeOK'
  <2>1. completions' \in Seq(Object)
    BY <1>3, <1>5, <1>8
  <2>2. Packager!TypeOK'
    BY <1>2, <1>7, <2>1 DEF Inv, TypeOK, Packager!TypeOK, Packager!WorkerAt
  <2> QED BY <1>2, <2>2 DEF Inv, TypeOK
<1>12. Unsent' = Unsent /\ InHand' = InHand
  BY <1>2, <1>7 DEF Unsent, UnsentIn, InHand
<1>13. InOrder'
  BY <1>2, <1>7, <1>12 DEF Inv, InOrder
<1>14. Sending'
  BY <1>7 DEF Inv, Sending
<1>15. Reporting'
  <2>1. \A a \in Range(completions) : Precedes(ingested, a, t.object)
    BY <1>9 DEF Inv, Reporting
  <2>2. Ordered(ingested, completions')
    BY <1>3, <1>5, <1>8, <2>1, OrderedAppend DEF Inv, Reporting
  <2> QED BY <1>2, <1>9, <1>10, <2>2 DEF Inv, Reporting
<1>16. Keeping' /\ Leaving'
  BY <1>2, <1>9, <1>10, <1>12 DEF Inv, Keeping, Leaving
<1> QED BY <1>11, <1>13, <1>14, <1>15, <1>16 DEF Inv

LEMMA CompletedInv ==
  ASSUME Inv, ObjectSendCompleted, UNCHANGED <<phase, manifestHandler, adding>>
  PROVE  Inv'
<1> DEFINE o == Head(completions)
<1>1. /\ completions # <<>> /\ completions' = Tail(completions)
      /\ UNCHANGED <<keep, packager, followed, ingested, aired, items, worker, cancel, held, queued,
                     queuedToi, queuedObject, sends, onAir, phase, manifestHandler, adding>>
      /\ \/ UNCHANGED <<store, storeEvents>>
         \/ o \in store \ keep /\ DeleteObject(o)
  BY DEF ObjectSendCompleted
<1>2. completions \in Seq(Object) /\ storeEvents \in Seq(StoreEvent)
  BY DEF Inv, TypeOK, Packager!TypeOK
<1>3. /\ o \in Range(completions) /\ o \in Object
      /\ Range(completions') \subseteq Range(completions)
  BY <1>1, <1>2, RangeOfTail
<1>4. Ordered(ingested, completions') /\ \A a \in Range(completions') : Precedes(ingested, o, a)
  BY <1>1, <1>2, OrderedTail DEF Inv, Reporting
<1>5. o \in Range(aired) /\ o \notin Range(completions') /\ o \notin OnAir
  BY <1>3, <1>4, NotItself DEF Inv, Reporting
<1>6. /\ store' \subseteq store
      /\ \A x \in store \ store' : x = o /\ x \notin keep
      /\ storeEvents' \in Seq(StoreEvent) /\ EventsOrdered(ingested, storeEvents')
      /\ PendingIn(storeEvents') = PendingIn(storeEvents)
  <2>1. CASE UNCHANGED <<store, storeEvents>>
    BY <1>2, <2>1 DEF Inv, InOrder
  <2>2. CASE o \in store \ keep /\ DeleteObject(o)
    <3> DEFINE e == [name |-> "ObjectDeleted", object |-> o]
    <3>1. e \in StoreEvent /\ e.name # "ObjectAdded"
      BY <1>3, EventTypes
    <3>2. storeEvents' = Append(storeEvents, e) /\ store' = store \ {o}
      BY <2>2 DEF DeleteObject
    <3> HIDE DEF e
    <3>3. storeEvents' \in Seq(StoreEvent)
      BY <1>2, <3>1, <3>2
    <3>4. EventsOrdered(ingested, storeEvents') /\ PendingIn(storeEvents') = PendingIn(storeEvents)
      BY <1>2, <3>1, <3>2, EventsAppend DEF Inv, InOrder
    <3> QED BY <2>2, <3>2, <3>3, <3>4
  <2> QED BY <1>1, <2>1, <2>2
<1>7. TypeOK'
  <2>1. completions' \in Seq(Object)
    BY <1>1, <1>2
  <2>2. Packager!TypeOK'
    BY <1>1, <1>6, <2>1 DEF Inv, TypeOK, Packager!TypeOK
  <2> QED BY <1>1, <1>6, <2>2 DEF Inv, TypeOK
<1>8. Unsent' = Unsent /\ InHand' = InHand /\ OnAir' = OnAir
  BY <1>1 DEF Unsent, InHand, OnAir
<1> HIDE DEF o
<1>9. InOrder'
  BY <1>1, <1>6, <1>8 DEF Inv, InOrder
<1>10. Sending'
  BY <1>1, <1>8 DEF Inv, Sending
<1>11. Reporting'
  BY <1>1, <1>3, <1>4, <1>8 DEF Inv, Reporting
<1>12. Keeping' /\ Leaving'
  BY <1>1, <1>3, <1>5, <1>6, <1>8 DEF Inv, Keeping, Leaving
<1> QED BY <1>7, <1>9, <1>10, <1>11, <1>12 DEF Inv

LEMMA StepInv == Inv /\ [Next]_vars => Inv'
<1> SUFFICES ASSUME Inv, [Next]_vars PROVE Inv'
  OBVIOUS
<1>1. CASE ProcessStoreEvent
  BY <1>1, IgnoreInv, ObjectAddedInv, UnreadableInv, MakeInv, AddToPackagerInv DEF ProcessStoreEvent
<1>2. CASE ControllerNext /\ UNCHANGED <<phase, manifestHandler, adding>>
  BY <1>2, WorksInv, CompleteInv, CompletedInv DEF ControllerNext
<1>3. CASE UNCHANGED vars
  <2>1. UNCHANGED <<storeVars, adding, ingested, aired, packagerVars, phase, manifestHandler, packager, followed>>
    BY <1>3 DEF vars, controllerVars
  <2>2. TypeOK'
    BY <2>1 DEF Inv, TypeOK, Packager!TypeOK, storeVars, packagerVars
  <2> QED BY <2>1, <2>2, SameInv
<1> QED BY <1>1, <1>2, <1>3, ConstructInv, IngestInv DEF Next

LEMMA Invariant == Spec => []Inv
  BY InitInv, StepInv, PTL DEF Spec

(***************************************************************************)
(* What it shows.                                                          *)
(***************************************************************************)

\* The controller, its store and its packager keep their types while the
\* constructor and the event thread race for the packager.
THEOREM TypeCorrect == Spec => []TypeOK
<1>1. Inv => TypeOK
  BY DEF Inv
<1> QED BY <1>1, Invariant, PTL

\* No object's data goes while the transmitter reads it, and getObjectData() finds
\* every object that is in the list (ObjectListPackager.cc:159-166, 187-199).
THEOREM DataIsThere == Spec => []TransmissionsHaveData
<1>1. ASSUME Inv PROVE TransmissionsHaveData
  <2>1. Unsent \cup OnAir \subseteq store
    BY <1>1, UnderWay
  <2> QED BY <1>1, <2>1, ListedIs DEF Inv, TransmissionsHaveData
<1> QED BY <1>1, Invariant, PTL

\* Objects go on air in the order in which they were stored and none twice, though
\* a manifest or the race in the constructor may replace the packager at any time.
THEOREM SentAsIngested == Spec => []SentInOrder
<1>1. ASSUME Inv, NEW j \in DOMAIN aired, NEW k \in DOMAIN aired, j < k
      PROVE  \E m, n \in DOMAIN ingested : m < n /\ aired[j] = ingested[m] /\ aired[k] = ingested[n]
  BY <1>1 DEF Inv, InOrder, Ordered, Precedes
<1>2. Inv => SentInOrder
  BY <1>1 DEF SentInOrder
<1> QED BY <1>2, Invariant, PTL

\* Only what has been transmitted to the end leaves the store, and a manifest that
\* the manifest handler may refer to never does (ObjectController.cc:48-62).
THEOREM OnlySentObjectsGo == Spec => []OnlySentOrdinaryObjectsLeave
<1>1. ASSUME Inv PROVE OnlySentOrdinaryObjectsLeave
  <2>1. Listed \subseteq Unsent \cup OnAir
    BY <1>1, ListedIs DEF Inv
  <2>2. Unsent \cap Range(aired) = {}
    BY <1>1, UnderWay
  <2>3. OnlySentObjectsLeave
    BY <1>1, <2>1, <2>2 DEF Inv, Leaving, OnlySentObjectsLeave
  <2>4. Manifest \cap Range(ingested) \subseteq store
    BY <1>1 DEF Inv, Leaving, Keeping
  <2> QED BY <2>3, <2>4 DEF OnlySentOrdinaryObjectsLeave
<1> QED BY <1>1, Invariant, PTL
=============================================================================
