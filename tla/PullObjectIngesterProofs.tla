---------------------- MODULE PullObjectIngesterProofs ----------------------
(***************************************************************************)
(* Theorems about PullObjectIngester, for any objects, deadlines, lists    *)
(* and bounds.  First that Sorted, a definition by counting, is a stable   *)
(* sort; then what the list and the worker keep; then that every step is   *)
(* one of FetchQueue.                                                      *)
(***************************************************************************)
EXTENDS PullObjectIngester, FiniteSetTheorems, FunctionTheorems, TLAPS

USE DeadlineAssumption, BoundAssumption

-----------------------------------------------------------------------------
(* Sorted *)

\* the places of items that go before item j
Before(s, j) == {k \in DOMAIN s : Ahead(s, k, j)}

\* where the item comes from that is at p in the sorted list
Origin(s, p) == CHOOSE j \in DOMAIN s : Place(s, j) = p

LEMMA DeadlinesAreNumbers == \A i \in Item : i.deadline \in Nat /\ i.ask \in Nat
<1>1. Deadline \subseteq Nat
  BY DEF DeadlineAssumption
<1>2. \A i \in Item : i.deadline \in Deadline /\ i.ask \in 1..MaxAsks
  BY DEF Item
<1>3. 1..MaxAsks \subseteq Nat
  BY DEF BoundAssumption
<1> QED BY <1>1, <1>2, <1>3

LEMMA PlacesOfList ==
  ASSUME NEW s \in Seq(Item)
  PROVE  /\ Len(s) \in Nat /\ DOMAIN s = 1..Len(s)
         /\ \A j \in DOMAIN s : j \in Nat /\ s[j] \in Item
  OBVIOUS

\* Ahead is a strict total order of the places of a list.
LEMMA AheadOrders ==
  ASSUME NEW s \in Seq(Item), NEW i \in DOMAIN s, NEW j \in DOMAIN s, NEW k \in DOMAIN s
  PROVE  /\ ~Ahead(s, i, i)
         /\ Ahead(s, i, j) /\ Ahead(s, j, k) => Ahead(s, i, k)
         /\ i # j => Ahead(s, i, j) \/ Ahead(s, j, i)
         /\ ~(Ahead(s, i, j) /\ Ahead(s, j, i))
<1>1. /\ i \in Nat /\ j \in Nat /\ k \in Nat
      /\ s[i].deadline \in Nat /\ s[j].deadline \in Nat /\ s[k].deadline \in Nat
  BY PlacesOfList, DeadlinesAreNumbers
<1> QED BY <1>1 DEF Ahead

LEMMA BeforeIsFinite ==
  ASSUME NEW s \in Seq(Item), NEW j \in DOMAIN s
  PROVE  /\ IsFiniteSet(DOMAIN s) /\ Cardinality(DOMAIN s) = Len(s)
         /\ IsFiniteSet(Before(s, j)) /\ Cardinality(Before(s, j)) \in Nat
<1>1. DOMAIN s = 1..Len(s) /\ Len(s) \in Nat
  BY PlacesOfList
<1>2. /\ IsFiniteSet(1..Len(s))
      /\ Cardinality(1..Len(s)) = IF 1 > Len(s) THEN 0 ELSE Len(s) - 1 + 1
  <2>1. 1 \in Int /\ Len(s) \in Int
    BY <1>1
  <2> QED BY <2>1, FS_Interval
<1>3. Before(s, j) \subseteq DOMAIN s
  BY DEF Before
<1>4. IsFiniteSet(DOMAIN s) /\ Cardinality(DOMAIN s) = Len(s)
  BY <1>1, <1>2
<1> QED BY <1>3, <1>4, FS_Subset, FS_CardinalityType

\* The place of an item is a place of the list.
LEMMA PlaceInList ==
  ASSUME NEW s \in Seq(Item), NEW j \in DOMAIN s
  PROVE  Place(s, j) \in 1..Len(s)
<1>1. Before(s, j) \subseteq DOMAIN s /\ Before(s, j) # DOMAIN s
  BY AheadOrders DEF Before
<1>2. Cardinality(Before(s, j)) < Cardinality(DOMAIN s)
  BY <1>1, BeforeIsFinite, FS_Subset
<1>3. Place(s, j) = 1 + Cardinality(Before(s, j))
  BY DEF Place, Before
<1> QED BY <1>2, <1>3, BeforeIsFinite

\* An item that goes before another has a lower place.
LEMMA PlaceIsMonotonic ==
  ASSUME NEW s \in Seq(Item), NEW i \in DOMAIN s, NEW j \in DOMAIN s, Ahead(s, i, j)
  PROVE  Place(s, i) < Place(s, j)
<1>1. Before(s, i) \subseteq Before(s, j)
  BY AheadOrders DEF Before
<1>2. i \in Before(s, j) /\ i \notin Before(s, i)
  BY AheadOrders DEF Before
<1>3. Cardinality(Before(s, i)) < Cardinality(Before(s, j))
  BY <1>1, <1>2, BeforeIsFinite, FS_Subset
<1>4. /\ Place(s, i) = 1 + Cardinality(Before(s, i))
      /\ Place(s, j) = 1 + Cardinality(Before(s, j))
  BY DEF Place, Before
<1> QED BY <1>3, <1>4, BeforeIsFinite

\* Every place of the sorted list is taken by exactly one item.
LEMMA OriginExists ==
  ASSUME NEW s \in Seq(Item), NEW p \in DOMAIN s
  PROVE  Origin(s, p) \in DOMAIN s /\ Place(s, Origin(s, p)) = p
<1> DEFINE f == [j \in DOMAIN s |-> Place(s, j)]
<1>1. f \in [DOMAIN s -> DOMAIN s]
  BY PlaceInList
<1>2. \A i, j \in DOMAIN s : f[i] = f[j] => i = j
  <2> SUFFICES ASSUME NEW i \in DOMAIN s, NEW j \in DOMAIN s, i # j
               PROVE  f[i] # f[j]
    OBVIOUS
  <2>1. Place(s, i) \in Nat /\ Place(s, j) \in Nat
    BY PlaceInList
  <2> QED BY <2>1, AheadOrders, PlaceIsMonotonic
<1>3. f \in Injection(DOMAIN s, DOMAIN s)
  BY <1>1, <1>2, Fun_IsInj DEF IsInjective, Injection
<1>4. f \in Surjection(DOMAIN s, DOMAIN s)
  BY <1>3, BeforeIsFinite, FS_Injection
<1>5. PICK j \in DOMAIN s : f[j] = p
  BY <1>4 DEF Surjection
<1> QED BY <1>5 DEF Origin

LEMMA OriginOfPlace ==
  ASSUME NEW s \in Seq(Item), NEW j \in DOMAIN s
  PROVE  Place(s, j) \in DOMAIN s /\ Origin(s, Place(s, j)) = j
<1>1. Place(s, j) \in DOMAIN s
  BY PlaceInList
<1>2. ASSUME NEW i \in DOMAIN s, i # j PROVE Place(s, i) # Place(s, j)
  <2>1. Place(s, i) \in Nat /\ Place(s, j) \in Nat
    BY PlaceInList
  <2> QED BY <2>1, <1>2, AheadOrders, PlaceIsMonotonic
<1> QED BY <1>1, <1>2, OriginExists

\* Sorted(s) holds the items of s: at each place one, and each one somewhere.
LEMMA SortedHoldsItems ==
  ASSUME NEW s \in Seq(Item)
  PROVE  /\ Sorted(s) \in Seq(Item) /\ Len(Sorted(s)) = Len(s)
         /\ DOMAIN Sorted(s) = DOMAIN s
         /\ \A p \in DOMAIN s : Sorted(s)[p] = s[Origin(s, p)] /\ Origin(s, p) \in DOMAIN s
         /\ {Sorted(s)[p] : p \in DOMAIN s} = {s[j] : j \in DOMAIN s}
<1>1. \A p \in DOMAIN s : Sorted(s)[p] = s[Origin(s, p)] /\ Origin(s, p) \in DOMAIN s
  BY OriginExists DEF Sorted, Origin
<1>2. DOMAIN Sorted(s) = 1..Len(s) /\ Len(s) \in Nat
  BY DEF Sorted
<1>3. Sorted(s) \in [1..Len(s) -> Item]
  BY <1>1, <1>2, PlacesOfList DEF Sorted
<1>4. Sorted(s) \in Seq(Item) /\ Len(Sorted(s)) = Len(s)
  BY <1>2, <1>3
<1>5. \A j \in DOMAIN s : s[j] = Sorted(s)[Place(s, j)] /\ Place(s, j) \in DOMAIN s
  BY <1>1, OriginOfPlace
<1> QED BY <1>1, <1>2, <1>4, <1>5

\* Sorted(s) is sorted by deadline, and stable.
LEMMA SortedIsStable ==
  ASSUME NEW s \in Seq(Item), NEW p \in DOMAIN s, NEW q \in DOMAIN s, p < q
  PROVE  Ahead(s, Origin(s, p), Origin(s, q))
<1> DEFINE i == Origin(s, p)
           j == Origin(s, q)
<1>1. i \in DOMAIN s /\ j \in DOMAIN s /\ Place(s, i) = p /\ Place(s, j) = q
  BY OriginExists
<1>2. i # j
  BY <1>1
<1>3. ~Ahead(s, j, i)
  BY <1>1, PlaceIsMonotonic
<1> QED BY <1>1, <1>2, <1>3, AheadOrders

-----------------------------------------------------------------------------
(* What the changes of the list keep *)

\* a list of items numbered up to n, for objects in A
Numbered(s, n, A) ==
  /\ s \in Seq(Item) /\ Len(s) <= n
  /\ \A k \in DOMAIN s : s[k].ask <= n /\ s[k].object \in A
  /\ \A j, k \in DOMAIN s : j # k => s[j].ask # s[k].ask

\* items without a deadline in the order of their numbers
FirstCome(s) ==
  \A j, k \in DOMAIN s :
    j < k /\ s[j].deadline = NoDeadline /\ s[k].deadline = NoDeadline => s[j].ask < s[k].ask

Ordered(s) == \A j, k \in DOMAIN s : j < k => s[j].deadline <= s[k].deadline

LEMMA SortKeeps ==
  ASSUME NEW s, NEW n \in Nat, NEW A, Numbered(s, n, A), FirstCome(s)
  PROVE  Numbered(Sorted(s), n, A) /\ FirstCome(Sorted(s)) /\ Ordered(Sorted(s))
<1> DEFINE t == Sorted(s)
<1>1. s \in Seq(Item)
  BY DEF Numbered
<1>2. /\ t \in Seq(Item) /\ Len(t) = Len(s) /\ DOMAIN t = DOMAIN s
      /\ \A p \in DOMAIN t : t[p] = s[Origin(s, p)] /\ Origin(s, p) \in DOMAIN s
  BY <1>1, SortedHoldsItems
<1>3. \A p, q \in DOMAIN t : p < q => Ahead(s, Origin(s, p), Origin(s, q))
  BY <1>1, <1>2, SortedIsStable
<1>4. \A p, q \in DOMAIN t : p # q => Origin(s, p) # Origin(s, q)
  BY <1>1, <1>2, OriginExists
<1>5. Numbered(t, n, A)
  <2> HIDE DEF t
  <2> QED BY <1>2, <1>4 DEF Numbered
<1>6. FirstCome(t)
  <2> HIDE DEF t
  <2> SUFFICES ASSUME NEW j \in DOMAIN t, NEW k \in DOMAIN t, j < k,
                      t[j].deadline = NoDeadline, t[k].deadline = NoDeadline
               PROVE  t[j].ask < t[k].ask
    BY DEF FirstCome
  <2>1. Ahead(s, Origin(s, j), Origin(s, k))
    BY <1>3
  <2>2. s[Origin(s, j)].deadline = NoDeadline /\ s[Origin(s, k)].deadline = NoDeadline
    BY <1>2
  <2>3. Origin(s, j) < Origin(s, k)
    BY <2>1, <2>2 DEF Ahead, DeadlineAssumption
  <2> QED BY <1>2, <2>2, <2>3 DEF FirstCome
<1>7. Ordered(t)
  <2> HIDE DEF t
  <2> SUFFICES ASSUME NEW j \in DOMAIN t, NEW k \in DOMAIN t, j < k
               PROVE  t[j].deadline <= t[k].deadline
    BY DEF Ordered
  <2>1. Ahead(s, Origin(s, j), Origin(s, k))
    BY <1>3
  <2>2. t[j].deadline \in Nat /\ t[k].deadline \in Nat
    BY <1>2, PlacesOfList, DeadlinesAreNumbers
  <2> QED BY <1>2, <2>1, <2>2 DEF Ahead
<1> QED BY <1>5, <1>6, <1>7

\* push_back() of an item with the next number
LEMMA AppendKeeps ==
  ASSUME NEW s, NEW n \in Nat, NEW A, Numbered(s, n, A), FirstCome(s),
         NEW i \in Item, i.ask = n + 1, NEW B, A \subseteq B, i.object \in B
  PROVE  Numbered(Append(s, i), n + 1, B) /\ FirstCome(Append(s, i))
<1> DEFINE t == Append(s, i)
<1>1. s \in Seq(Item) /\ Len(s) \in Nat /\ DOMAIN s = 1..Len(s) /\ Len(s) <= n
  BY DEF Numbered
<1>2. /\ t \in Seq(Item) /\ Len(t) = Len(s) + 1 /\ DOMAIN t = 1..(Len(s) + 1)
      /\ \A k \in DOMAIN s : t[k] = s[k]
      /\ t[Len(s) + 1] = i
  BY <1>1
<1>3. \A k \in DOMAIN s : s[k].ask \in Nat /\ s[k].ask <= n /\ s[k].object \in A
  BY <1>1, PlacesOfList, DeadlinesAreNumbers DEF Numbered
<1>4. \A k \in DOMAIN t : k \in DOMAIN s \/ k = Len(s) + 1
  BY <1>1, <1>2
<1> HIDE DEF t
<1>5. \A k \in DOMAIN t : t[k].ask <= n + 1 /\ t[k].object \in B
  BY <1>2, <1>3, <1>4
<1>6. \A j, k \in DOMAIN t : j # k => t[j].ask # t[k].ask
  BY <1>2, <1>3, <1>4 DEF Numbered
<1>7. FirstCome(t)
  BY <1>1, <1>2, <1>3, <1>4 DEF FirstCome
<1>8. Len(t) <= n + 1
  BY <1>1, <1>2
<1> QED BY <1>2, <1>5, <1>6, <1>7, <1>8 DEF Numbered, t

\* an item gets a deadline
LEMMA HurryKeeps ==
  ASSUME NEW s, NEW n \in Nat, NEW A, Numbered(s, n, A), FirstCome(s),
         NEW k \in DOMAIN s, NEW d \in Deadline \ {NoDeadline}
  PROVE  LET t == [s EXCEPT ![k].deadline = d]
         IN Numbered(t, n, A) /\ FirstCome(t)
<1> DEFINE t == [s EXCEPT ![k].deadline = d]
<1>1. s \in Seq(Item) /\ Len(s) \in Nat /\ DOMAIN s = 1..Len(s)
  BY DEF Numbered
<1>2. s[k] \in Item /\ [s[k] EXCEPT !.deadline = d] \in Item
  <2>1. s[k] \in Item
    BY <1>1, PlacesOfList
  <2>2. ASSUME NEW i \in Item PROVE [i EXCEPT !.deadline = d] \in Item
    BY DEF Item
  <2> QED BY <2>1, <2>2
<1>3. /\ DOMAIN t = DOMAIN s /\ t \in [1..Len(s) -> Item]
      /\ t[k] = [s[k] EXCEPT !.deadline = d]
      /\ \A j \in DOMAIN s : j # k => t[j] = s[j]
  BY <1>1, <1>2
<1>4. t \in Seq(Item) /\ Len(t) = Len(s)
  BY <1>1, <1>3
<1>5. \A j \in DOMAIN t : t[j].ask = s[j].ask /\ t[j].object = s[j].object
  BY <1>2, <1>3 DEF Item
<1>6. t[k].deadline # NoDeadline
  BY <1>2, <1>3 DEF Item
<1> HIDE DEF t
<1>7. Numbered(t, n, A)
  BY <1>3, <1>4, <1>5 DEF Numbered
<1>8. FirstCome(t)
  BY <1>3, <1>5, <1>6 DEF FirstCome
<1> QED BY <1>7, <1>8 DEF t

\* pop_front()
LEMMA TailKeeps ==
  ASSUME NEW s, NEW n \in Nat, NEW A, Numbered(s, n, A), FirstCome(s), Ordered(s), s # <<>>
  PROVE  Numbered(Tail(s), n, A) /\ FirstCome(Tail(s)) /\ Ordered(Tail(s))
<1> DEFINE t == Tail(s)
<1>1. s \in Seq(Item) /\ Len(s) \in Nat /\ DOMAIN s = 1..Len(s) /\ Len(s) <= n
  BY DEF Numbered
<1>2. /\ t \in Seq(Item) /\ Len(t) = Len(s) - 1 /\ DOMAIN t = 1..(Len(s) - 1)
      /\ \A k \in DOMAIN t : t[k] = s[k + 1] /\ k + 1 \in DOMAIN s
  <2>1. t \in Seq(Item) /\ Len(t) = Len(s) - 1
    BY <1>1
  <2>2. \A k \in 1..(Len(s) - 1) : t[k] = s[k + 1]
    BY <1>1
  <2> HIDE DEF t
  <2>3. DOMAIN t = 1..(Len(s) - 1)
    BY <2>1
  <2>4. \A k \in 1..(Len(s) - 1) : k + 1 \in DOMAIN s
    BY <1>1
  <2>5. \A k \in DOMAIN t : t[k] = s[k + 1] /\ k + 1 \in DOMAIN s
    BY <2>2, <2>3, <2>4, Zenon
  <2> QED BY <2>1, <2>3, <2>5, Zenon
<1> HIDE DEF t
<1>3. \A j, k \in DOMAIN t : (j < k <=> j + 1 < k + 1) /\ (j # k <=> j + 1 # k + 1)
  BY <1>1, <1>2
<1>4. Len(t) <= n
  BY <1>1, <1>2
<1>5. Numbered(t, n, A)
  BY <1>2, <1>3, <1>4 DEF Numbered
<1>6. ASSUME NEW j \in DOMAIN t, NEW k \in DOMAIN t, j < k
      PROVE  /\ j + 1 \in DOMAIN s /\ k + 1 \in DOMAIN s /\ j + 1 < k + 1
             /\ t[j] = s[j + 1] /\ t[k] = s[k + 1]
  BY <1>2, <1>3, <1>6
<1>7. FirstCome(t)
  <2> SUFFICES ASSUME NEW j \in DOMAIN t, NEW k \in DOMAIN t, j < k,
                      t[j].deadline = NoDeadline, t[k].deadline = NoDeadline
               PROVE  t[j].ask < t[k].ask
    BY DEF FirstCome
  <2> DEFINE a == j + 1
             b == k + 1
  <2>1. a \in DOMAIN s /\ b \in DOMAIN s /\ a < b /\ t[j] = s[a] /\ t[k] = s[b]
    BY <1>6
  <2> HIDE DEF a, b
  <2>2. s[a].deadline = NoDeadline /\ s[b].deadline = NoDeadline
    BY <2>1
  <2>3. s[a].ask < s[b].ask
    BY <2>1, <2>2 DEF FirstCome
  <2> QED BY <2>1, <2>3
<1>8. Ordered(t)
  <2> SUFFICES ASSUME NEW j \in DOMAIN t, NEW k \in DOMAIN t, j < k
               PROVE  t[j].deadline <= t[k].deadline
    BY DEF Ordered
  <2> DEFINE a == j + 1
             b == k + 1
  <2>1. a \in DOMAIN s /\ b \in DOMAIN s /\ a < b /\ t[j] = s[a] /\ t[k] = s[b]
    BY <1>6
  <2> HIDE DEF a, b
  <2>2. s[a].deadline <= s[b].deadline
    BY <2>1 DEF Ordered
  <2> QED BY <2>1, <2>2
<1> QED BY <1>5, <1>7, <1>8 DEF t

-----------------------------------------------------------------------------
(* The invariants *)

LEMMA LeastNumber ==
  ASSUME NEW S \in SUBSET Nat, S # {}
  PROVE  \E k \in S : \A j \in S : k <= j
<1> DEFINE R == {ss \in Nat \X Nat : ss[1] < ss[2]}
<1>1. IsWellFoundedOn(R, Nat)
  BY NatLessThanWellFounded DEF OpToRel
<1>2. \E m \in S : \A j \in S : <<j, m>> \notin R
  <2> HIDE DEF R
  <2> QED BY <1>1, WFMin
<1>3. PICK m \in S : \A j \in S : <<j, m>> \notin R
  BY <1>2
<1>4. ASSUME NEW j \in S PROVE m <= j
  <2>1. m \in Nat /\ j \in Nat /\ <<j, m>> \notin R
    BY <1>3
  <2> QED BY <2>1
<1> QED BY <1>4

QueueOK ==
  /\ asks \in 0..MaxAsks /\ asked \subseteq Object
  /\ Numbered(fetchList, asks, asked) /\ FirstCome(fetchList) /\ Ordered(fetchList)

\* a download ends by the deadline of its item
WorkerOK ==
  /\ worker \in WorkerAt
  /\ now \in 0..MaxTime /\ until \in Nat
  /\ cancel \in BOOLEAN /\ owner \in {"using", "joining", "gone"}
  /\ item \in {<<>>} \cup {<<i>> : i \in Item}
  /\ item = <<>> <=> worker \notin {"took", "get"}
  /\ item # <<>> => item[1].object \in asked
  /\ stored \subseteq asked
  /\ worker = "get" /\ item[1].deadline # NoDeadline =>
       until = item[1].deadline /\ now <= until

LEMMA InitQueue == Init => QueueOK
<1> SUFFICES ASSUME Init PROVE QueueOK
  OBVIOUS
<1>1. PICK l \in Initial : /\ fetchList = Sorted(l) /\ asks = Len(l)
                           /\ asked = {l[k].object : k \in DOMAIN l}
  BY DEF Init
<1>2. l \in Seq(Item) /\ Len(l) <= MaxAsks /\ \A k \in DOMAIN l : l[k].ask = k
  BY InitialAssumption
<1>3. Len(l) \in Nat /\ DOMAIN l = 1..Len(l) /\ \A k \in DOMAIN l : l[k] \in Item
  BY <1>2, PlacesOfList
<1>4. Numbered(l, asks, asked) /\ FirstCome(l)
  BY <1>1, <1>2, <1>3 DEF Numbered, FirstCome
<1>5. asked \subseteq Object
  BY <1>1, <1>3 DEF Item
<1>6. asks \in 0..MaxAsks
  BY <1>1, <1>2, <1>3 DEF BoundAssumption
<1> QED BY <1>1, <1>3, <1>4, <1>5, <1>6, SortKeeps DEF QueueOK

\* fetch() of a new item, with either overload
LEMMA AskKeepsQueue ==
  ASSUME QueueOK, asks < MaxAsks, NEW o \in Object, NEW d \in Deadline,
         fetchList' = Sorted(Append(fetchList, [object |-> o, deadline |-> d, ask |-> asks + 1])),
         asks' = asks + 1, asked \subseteq asked', o \in asked', asked' \subseteq Object
  PROVE  QueueOK'
<1> DEFINE i == [object |-> o, deadline |-> d, ask |-> asks + 1]
<1>1. asks \in Nat /\ asks + 1 \in 1..MaxAsks
  BY DEF QueueOK, BoundAssumption
<1>2. i \in Item /\ i.ask = asks + 1 /\ i.object = o
  BY <1>1 DEF Item
<1> HIDE DEF i
<1>3. Numbered(Append(fetchList, i), asks + 1, asked') /\ FirstCome(Append(fetchList, i))
  BY <1>1, <1>2, AppendKeeps DEF QueueOK
<1>4. asks + 1 \in Nat
  BY <1>1
<1>5. /\ Numbered(Sorted(Append(fetchList, i)), asks + 1, asked')
      /\ FirstCome(Sorted(Append(fetchList, i)))
      /\ Ordered(Sorted(Append(fetchList, i)))
  BY <1>3, <1>4, SortKeeps
<1>6. /\ Numbered(fetchList', asks', asked') /\ FirstCome(fetchList') /\ Ordered(fetchList')
  BY <1>5 DEF i
<1> QED BY <1>1, <1>6 DEF QueueOK, Numbered, FirstCome, Ordered

\* the item that fetch() finds waiting
LEMMA WaitingPlace ==
  ASSUME QueueOK, NEW o \in Object, NEW d \in Deadline, FetchWaiting(o, d)
  PROVE  \E k \in DOMAIN fetchList : fetchList' = Sorted([fetchList EXCEPT ![k].deadline = d])
<1>1. Waiting(o) \subseteq DOMAIN fetchList /\ Waiting(o) # {}
  BY DEF FetchWaiting, Waiting
<1>2. fetchList \in Seq(Item)
  BY DEF QueueOK, Numbered
<1>3. DOMAIN fetchList \subseteq Nat
  BY <1>2, PlacesOfList
<1>4. \E k \in Waiting(o) : \A j \in Waiting(o) : k <= j
  BY <1>1, <1>3, LeastNumber
<1> QED BY <1>1, <1>4 DEF FetchWaiting

LEMMA NextQueue == QueueOK /\ WorkerOK /\ [Next]_vars => QueueOK'
<1> SUFFICES ASSUME QueueOK, WorkerOK, [Next]_vars PROVE QueueOK'
  OBVIOUS
<1>1. ASSUME UNCHANGED <<fetchList, asks, asked>> PROVE QueueOK'
  BY <1>1 DEF QueueOK, Numbered, FirstCome, Ordered
<1>2. CASE UNCHANGED vars
  BY <1>1, <1>2 DEF vars
<1>3. ASSUME NEW o \in Object, NEW d \in Deadline, Fetch(o, d) PROVE QueueOK'
  <2>1. asked \subseteq Object
    BY DEF QueueOK
  <2> QED BY <1>3, <2>1, AskKeepsQueue DEF Fetch
<1>4. ASSUME NEW o \in Object, NEW d \in Deadline, FetchAgain(o, d) PROVE QueueOK'
  <2>1. asked \subseteq Object /\ stored \subseteq asked
    BY DEF QueueOK, WorkerOK
  <2> QED BY <1>4, <2>1, AskKeepsQueue DEF FetchAgain
<1>5. ASSUME NEW o \in Object, NEW d \in Deadline, FetchWaiting(o, d) PROVE QueueOK'
  <2>1. PICK k \in DOMAIN fetchList : fetchList' = Sorted([fetchList EXCEPT ![k].deadline = d])
    BY <1>5, WaitingPlace
  <2>2. d \in Deadline \ {NoDeadline} /\ asks \in Nat
    BY <1>5 DEF FetchWaiting, QueueOK
  <2> DEFINE t == [fetchList EXCEPT ![k].deadline = d]
  <2>3. Numbered(t, asks, asked) /\ FirstCome(t)
    BY <2>1, <2>2, HurryKeeps DEF QueueOK
  <2> HIDE DEF t
  <2>4. Numbered(Sorted(t), asks, asked) /\ FirstCome(Sorted(t)) /\ Ordered(Sorted(t))
    BY <2>2, <2>3, SortKeeps
  <2>5. Numbered(fetchList', asks, asked) /\ FirstCome(fetchList') /\ Ordered(fetchList')
    BY <2>1, <2>4 DEF t
  <2> QED BY <1>5, <2>5 DEF FetchWaiting, QueueOK, Numbered, FirstCome, Ordered
<1>6. CASE TakeItem
  <2>1. asks \in Nat
    BY DEF QueueOK
  <2>2. Numbered(Tail(fetchList), asks, asked) /\ FirstCome(Tail(fetchList)) /\ Ordered(Tail(fetchList))
    BY <1>6, <2>1, TailKeeps DEF QueueOK, TakeItem
  <2> QED BY <1>6, <2>2 DEF TakeItem, QueueOK, Numbered, FirstCome, Ordered
<1>7. CASE \/ LoopAgain \/ WaitInVain \/ GetItem \/ DropItem \/ Abort \/ JoinWorker \/ Tick
           \/ \E a \in Answer : GetSucceeds(a) \/ GetFails(a)
  BY <1>1, <1>7 DEF LoopAgain, WaitInVain, GetItem, DropItem, Abort, JoinWorker, Tick,
                    GetSucceeds, GetFails, workerVars, ownerVars
<1> QED BY <1>2, <1>3, <1>4, <1>5, <1>6, <1>7 DEF Next, Worker

LEMMA InitWorker == Init => WorkerOK
<1> SUFFICES ASSUME Init PROVE WorkerOK
  OBVIOUS
<1>1. now \in 0..MaxTime /\ until \in Nat
  BY DEF Init, BoundAssumption
<1> QED BY <1>1 DEF Init, WorkerOK, WorkerAt

LEMMA NextWorker == QueueOK /\ WorkerOK /\ [Next]_vars => WorkerOK'
<1> SUFFICES ASSUME QueueOK, WorkerOK, [Next]_vars PROVE WorkerOK'
  OBVIOUS
<1>1. MaxTime \in Nat /\ DefaultTimeout \in Nat /\ NoDeadline \in Nat
  BY DEF BoundAssumption, DeadlineAssumption
<1>2. item # <<>> => item[1] \in Item /\ item[1].deadline \in Nat
  BY DeadlinesAreNumbers DEF WorkerOK
<1>3. CASE UNCHANGED vars
  BY <1>3 DEF vars, workerVars, ownerVars, WorkerOK
<1>4. CASE \E o \in Object, d \in Deadline : Fetch(o, d) \/ FetchWaiting(o, d) \/ FetchAgain(o, d)
  BY <1>4 DEF Fetch, FetchWaiting, FetchAgain, workerVars, ownerVars, WorkerOK
<1>5. CASE LoopAgain
  BY <1>5 DEF LoopAgain, ownerVars, WorkerOK, WorkerAt
<1>6. CASE WaitInVain
  BY <1>6 DEF WaitInVain, ownerVars, WorkerOK, WorkerAt
<1>7. CASE TakeItem
  <2>1. Head(fetchList) \in Item /\ Head(fetchList).object \in asked
    <3>1. fetchList \in Seq(Item) /\ fetchList # <<>>
      BY <1>7 DEF TakeItem, QueueOK, Numbered
    <3>2. 1 \in DOMAIN fetchList /\ Head(fetchList) = fetchList[1]
      BY <3>1
    <3> QED BY <3>1, <3>2, PlacesOfList DEF QueueOK, Numbered
  <2> DEFINE h == Head(fetchList)
  <2>2. item' = <<h>> /\ worker' = "took"
    BY <1>7 DEF TakeItem
  <2> HIDE DEF h
  <2>3. item' \in {<<i>> : i \in Item} /\ item' # <<>> /\ item'[1].object \in asked
    BY <2>1, <2>2 DEF h
  <2> QED BY <1>7, <2>2, <2>3 DEF TakeItem, ownerVars, WorkerOK, WorkerAt
<1>8. CASE GetItem
  <2>1. until' \in Nat
    BY <1>1, <1>2, <1>8 DEF GetItem, WorkerOK
  <2>2. item[1].deadline # NoDeadline => until' = item[1].deadline /\ now <= until'
    BY <1>1, <1>2, <1>8 DEF GetItem, WorkerOK
  <2> QED BY <1>8, <2>1, <2>2 DEF GetItem, ownerVars, WorkerOK, WorkerAt
<1>9. CASE DropItem
  BY <1>9 DEF DropItem, ownerVars, WorkerOK, WorkerAt
<1>10. ASSUME NEW a \in Answer, GetSucceeds(a) PROVE WorkerOK'
  BY <1>10 DEF GetSucceeds, ownerVars, WorkerOK, WorkerAt
<1>11. ASSUME NEW a \in Answer, GetFails(a) PROVE WorkerOK'
  BY <1>11 DEF GetFails, ownerVars, WorkerOK, WorkerAt
<1>12. CASE Abort
  BY <1>12 DEF Abort, workerVars, WorkerOK
<1>13. CASE JoinWorker
  BY <1>13 DEF JoinWorker, workerVars, WorkerOK
<1>14. CASE Tick
  <2>1. now' \in 0..MaxTime /\ (worker = "get" => now' <= until)
    BY <1>1, <1>14 DEF Tick, WorkerOK
  <2> QED BY <1>14, <2>1 DEF Tick, workerVars, ownerVars, WorkerOK
<1> QED BY <1>3, <1>4, <1>5, <1>6, <1>7, <1>8, <1>9, <1>10, <1>11, <1>12, <1>13, <1>14
        DEF Next, Worker

LEMMA Invariants == Spec => [](QueueOK /\ WorkerOK)
<1>1. Init => QueueOK /\ WorkerOK
  BY InitQueue, InitWorker
<1>2. QueueOK /\ WorkerOK /\ [Next]_vars => (QueueOK /\ WorkerOK)'
  BY NextQueue, NextWorker
<1> QED BY <1>1, <1>2, PTL DEF Spec

\* The list, the worker and the clock have their types, whatever the constants:
\* the worker has an item exactly while it is busy with one (doObjectIngest()).
THEOREM TypeCorrect == Spec => []TypeOK
<1>1. QueueOK /\ WorkerOK => TypeOK
  BY DEF QueueOK, Numbered, WorkerOK, TypeOK
<1> QED BY <1>1, Invariants, PTL

\* Items without a deadline are fetched in the order of the calls of fetch(),
\* whatever sortListByPolicy() moves between them.
THEOREM FetchedInOrder == Spec => []FirstComeFirstServed
<1>1. QueueOK => FirstComeFirstServed
  BY DEF QueueOK, FirstCome, FirstComeFirstServed
<1> QED BY <1>1, Invariants, PTL

\* No object is stored after the deadline of its item: the timeout given to
\* Curl::get() ends at the deadline, and no download starts at or after it.
THEOREM StoredBeforeDeadline == Spec => []StoredInTime
<1>1. Init => StoredInTime
  BY DEF Init, StoredInTime
<1>2. QueueOK /\ WorkerOK /\ StoredInTime /\ [Next]_vars => StoredInTime'
  <2> SUFFICES ASSUME WorkerOK, StoredInTime, [Next]_vars PROVE StoredInTime'
    OBVIOUS
  <2>1. ASSUME UNCHANGED last \/ last' = <<>> PROVE StoredInTime'
    BY <2>1 DEF StoredInTime
  <2>2. ASSUME NEW a \in Answer, GetSucceeds(a) PROVE StoredInTime'
    <3>1. last'[1].at = now /\ last'[1].item = item[1]
      BY <2>2 DEF GetSucceeds, Entry
    <3>2. now <= item[1].deadline
      <4>1. now \in Nat /\ MaxTime \in Nat /\ now <= MaxTime /\ MaxTime < NoDeadline /\ NoDeadline \in Nat
        BY DEF WorkerOK, BoundAssumption, DeadlineAssumption
      <4>2. item[1].deadline # NoDeadline => now <= item[1].deadline
        BY <2>2 DEF GetSucceeds, WorkerOK
      <4> QED BY <4>1, <4>2
    <3> QED BY <3>1, <3>2 DEF StoredInTime
  <2>3. CASE \E a \in Answer : GetSucceeds(a)
    BY <2>2, <2>3
  <2>4. CASE ~ \E a \in Answer : GetSucceeds(a)
    <3>1. UNCHANGED last \/ last' = <<>>
      BY <2>4 DEF Next, Worker, vars, workerVars, LoopAgain, WaitInVain, TakeItem, GetItem, DropItem,
         GetFails, Abort, JoinWorker, Tick, Fetch, FetchWaiting, FetchAgain
    <3> QED BY <2>1, <3>1
  <2> QED BY <2>3, <2>4
<1> QED BY <1>1, <1>2, Invariants, PTL DEF Spec

-----------------------------------------------------------------------------
(* The ingester is a FetchQueue *)

RangeOf(s) == {s[k] : k \in DOMAIN s}

Pending == RangeOf(fetchList)

LEMMA SortedRange ==
  ASSUME NEW s \in Seq(Item)
  PROVE  RangeOf(Sorted(s)) = RangeOf(s)
BY SortedHoldsItems DEF RangeOf

LEMMA AppendRange ==
  ASSUME NEW s \in Seq(Item), NEW i \in Item
  PROVE  RangeOf(Append(s, i)) = RangeOf(s) \cup {i}
<1> DEFINE t == Append(s, i)
<1>1. /\ DOMAIN t = DOMAIN s \cup {Len(s) + 1}
      /\ \A k \in DOMAIN s : t[k] = s[k]
      /\ t[Len(s) + 1] = i
  OBVIOUS
<1> HIDE DEF t
<1>2. RangeOf(t) = RangeOf(s) \cup {i}
  BY <1>1 DEF RangeOf
<1> QED BY <1>2 DEF t

\* One item of a numbered list is changed: no other is equal to it.
LEMMA ExceptRange ==
  ASSUME NEW s, NEW n, NEW A, Numbered(s, n, A), NEW k \in DOMAIN s, NEW i
  PROVE  RangeOf([s EXCEPT ![k] = i]) = (RangeOf(s) \ {s[k]}) \cup {i}
<1> DEFINE t == [s EXCEPT ![k] = i]
<1>1. /\ DOMAIN t = DOMAIN s /\ t[k] = i
      /\ \A j \in DOMAIN s : j # k => t[j] = s[j]
  BY DEF Numbered
<1>2. \A j \in DOMAIN s : j # k => s[j] # s[k]
  BY DEF Numbered
<1> HIDE DEF t
<1>3. RangeOf(t) = (RangeOf(s) \ {s[k]}) \cup {i}
  BY <1>1, <1>2 DEF RangeOf
<1> QED BY <1>3 DEF t

LEMMA TailRange ==
  ASSUME NEW s, NEW n, NEW A, Numbered(s, n, A), s # <<>>
  PROVE  /\ Head(s) \in RangeOf(s) /\ Head(s) = s[1] /\ 1 \in DOMAIN s
         /\ RangeOf(Tail(s)) = RangeOf(s) \ {Head(s)}
<1> DEFINE t == Tail(s)
           h == Head(s)
<1>1. s \in Seq(Item) /\ Len(s) \in Nat /\ DOMAIN s = 1..Len(s)
  BY DEF Numbered
<1>2. /\ DOMAIN t = 1..(Len(s) - 1)
      /\ \A k \in DOMAIN t : t[k] = s[k + 1]
      /\ h = s[1] /\ 1 \in DOMAIN s
  BY <1>1
<1> HIDE DEF t, h
<1>3. \A k \in DOMAIN t : k + 1 \in DOMAIN s /\ k + 1 # 1
  BY <1>1, <1>2
<1>4. \A k \in DOMAIN s : k # 1 => k - 1 \in DOMAIN t /\ s[k] = t[k - 1] /\ s[k] # s[1]
  <2> SUFFICES ASSUME NEW k \in DOMAIN s, k # 1
               PROVE  k - 1 \in DOMAIN t /\ s[k] = t[k - 1] /\ s[k] # s[1]
    OBVIOUS
  <2>1. k - 1 \in DOMAIN t /\ (k - 1) + 1 = k
    BY <1>1, <1>2
  <2>2. s[k].ask # s[1].ask
    BY <1>2 DEF Numbered
  <2> QED BY <1>2, <2>1, <2>2
<1>5. RangeOf(t) \subseteq RangeOf(s) \ {h}
  <2> SUFFICES ASSUME NEW k \in DOMAIN t PROVE t[k] \in RangeOf(s) \ {h}
    BY DEF RangeOf
  <2>1. k + 1 \in DOMAIN s /\ t[k] = s[k + 1] /\ s[k + 1] # s[1]
    BY <1>2, <1>3, <1>4
  <2> QED BY <1>2, <2>1 DEF RangeOf
<1>6. RangeOf(s) \ {h} \subseteq RangeOf(t)
  BY <1>2, <1>4 DEF RangeOf
<1>7. RangeOf(t) = RangeOf(s) \ {h}
  BY <1>5, <1>6
<1> QED BY <1>2, <1>7 DEF t, h, RangeOf

LEMMA InitIsQueueInit == Init => Queue!Init
<1> SUFFICES ASSUME Init PROVE Queue!Init
  OBVIOUS
<1>1. fetchList \in Seq(Item)
  BY InitQueue DEF QueueOK, Numbered
<1>2. {fetchList[k] : k \in DOMAIN fetchList} \in SUBSET Item
  BY <1>1, PlacesOfList
<1> QED BY <1>2 DEF Queue!Init, Init

\* fetch() of a new item, with either overload
LEMMA AskIsAsk ==
  ASSUME QueueOK, asks < MaxAsks, NEW o \in Object, NEW d \in Deadline,
         fetchList' = Sorted(Append(fetchList, [object |-> o, deadline |-> d, ask |-> asks + 1])),
         UNCHANGED <<item, worker>>
  PROVE  Queue!Next
<1> DEFINE i == [object |-> o, deadline |-> d, ask |-> asks + 1]
<1>1. asks \in Nat /\ asks + 1 \in 1..MaxAsks
  BY DEF QueueOK, BoundAssumption
<1>2. i \in Item /\ i.ask = asks + 1
  BY <1>1 DEF Item
<1> HIDE DEF i
<1>3. fetchList \in Seq(Item) /\ Append(fetchList, i) \in Seq(Item)
  BY <1>2 DEF QueueOK, Numbered
<1>4. \A k \in DOMAIN fetchList : fetchList[k].ask # i.ask
  <2>1. \A k \in DOMAIN fetchList : fetchList[k].ask \in Nat /\ fetchList[k].ask <= asks
    BY <1>3, PlacesOfList, DeadlinesAreNumbers DEF QueueOK, Numbered
  <2> QED BY <1>1, <1>2, <2>1
<1>5. i \notin Pending
  BY <1>4 DEF Pending, RangeOf
<1>6. Pending' = Pending \cup {i}
  <2>1. Pending' = RangeOf(Sorted(Append(fetchList, i)))
    BY DEF Pending, RangeOf, i
  <2> QED BY <1>2, <1>3, <2>1, SortedRange, AppendRange DEF Pending
<1>7. \E x \in Item : Queue!Ask(x)
  BY <1>2, <1>5, <1>6 DEF Queue!Ask, Pending, RangeOf
<1> QED BY <1>7 DEF Queue!Next

LEMMA WaitingIsHurry ==
  ASSUME QueueOK, NEW o \in Object, NEW d \in Deadline, FetchWaiting(o, d)
  PROVE  Queue!Next
<1>1. PICK k \in DOMAIN fetchList : fetchList' = Sorted([fetchList EXCEPT ![k].deadline = d])
  BY WaitingPlace
<1> DEFINE i == fetchList[k]
           j == [i EXCEPT !.deadline = d]
           t == [fetchList EXCEPT ![k] = j]
<1>2. fetchList \in Seq(Item) /\ i \in Item
  BY PlacesOfList DEF QueueOK, Numbered
<1>3. j \in Item /\ j.deadline = d
  BY <1>2 DEF Item
<1>4. t \in Seq(Item)
  <2> HIDE DEF j
  <2> QED BY <1>2, <1>3
<1>5. fetchList' = Sorted(t)
  BY <1>1, <1>2
<1>6. Pending' = (Pending \ {i}) \cup {j}
  <2> HIDE DEF j
  <2>1. RangeOf(t) = (Pending \ {i}) \cup {j}
    BY ExceptRange DEF QueueOK, Pending
  <2>2. Pending' = RangeOf(Sorted(t))
    BY <1>5 DEF Pending, RangeOf
  <2> QED BY <1>4, <2>1, <2>2, SortedRange
<1>7. i \in Pending
  BY DEF Pending, RangeOf
<1>8. UNCHANGED <<item, worker>>
  BY DEF FetchWaiting, workerVars
<1> HIDE DEF j
<1>9. j = [i EXCEPT !.deadline = j.deadline]
  <2>1. j = [i EXCEPT !.deadline = d]
    BY DEF j
  <2> QED BY <1>3, <2>1
<1> HIDE DEF i
<1>10. \E x \in Pending : \E y \in Item : Queue!Hurry(x, y.deadline)
  BY <1>3, <1>6, <1>7, <1>8, <1>9 DEF Queue!Hurry, Pending, RangeOf
<1> QED BY <1>10 DEF Queue!Next, Pending, RangeOf

LEMMA TakeIsServe == QueueOK /\ WorkerOK /\ TakeItem => Queue!Next
<1> SUFFICES ASSUME QueueOK, WorkerOK, TakeItem PROVE Queue!Next
  OBVIOUS
<1> DEFINE h == Head(fetchList)
<1>1. fetchList # <<>> /\ fetchList' = Tail(fetchList) /\ item' = <<h>>
      /\ worker = "wait" /\ worker' = "took"
  BY DEF TakeItem
<1>2. item = <<>>
  BY <1>1 DEF WorkerOK
<1>3. h \in Pending /\ Pending' = Pending \ {h} /\ h = fetchList[1] /\ 1 \in DOMAIN fetchList
  BY <1>1, TailRange DEF QueueOK, Pending, RangeOf
<1>4. \A k \in DOMAIN fetchList : h.deadline <= fetchList[k].deadline
  <2> SUFFICES ASSUME NEW k \in DOMAIN fetchList PROVE h.deadline <= fetchList[k].deadline
    OBVIOUS
  <2>1. fetchList \in Seq(Item)
    BY DEF QueueOK, Numbered
  <2>2. k \in Nat /\ DOMAIN fetchList = 1..Len(fetchList) /\ fetchList[k].deadline \in Nat
    BY <2>1, PlacesOfList, DeadlinesAreNumbers
  <2>3. k = 1 \/ 1 < k
    BY <2>1, <2>2
  <2> QED BY <1>3, <2>2, <2>3 DEF QueueOK, Ordered
<1> HIDE DEF h
<1>5. Queue!Serve
  BY <1>1, <1>2, <1>3, <1>4 DEF Queue!Serve, Pending, RangeOf
<1> QED BY <1>5 DEF Queue!Next

LEMMA NextIsQueueNext == QueueOK /\ WorkerOK /\ [Next]_vars => [Queue!Next]_(Queue!vars)
<1> SUFFICES ASSUME QueueOK, WorkerOK, [Next]_vars PROVE [Queue!Next]_(Queue!vars)
  OBVIOUS
<1>1. ASSUME UNCHANGED <<fetchList, item>>, worker = "ended" <=> worker' = "ended"
      PROVE  UNCHANGED Queue!vars
  BY <1>1 DEF Queue!vars
<1>2. CASE \/ UNCHANGED vars \/ WaitInVain \/ GetItem \/ Abort \/ JoinWorker \/ Tick
  BY <1>1, <1>2 DEF vars, workerVars, WaitInVain, GetItem, Abort, JoinWorker, Tick
<1>3. CASE LoopAgain
  <2>1. CASE ~cancel
    BY <1>1, <1>3, <2>1 DEF LoopAgain
  <2>2. CASE cancel
    <3>1. item = <<>>
      BY <1>3 DEF LoopAgain, WorkerOK
    <3>2. Queue!Stop
      BY <1>3, <2>2, <3>1 DEF LoopAgain, Queue!Stop
    <3> QED BY <3>2 DEF Queue!Next
  <2> QED BY <2>1, <2>2
<1>4. CASE DropItem \/ \E a \in Answer : GetSucceeds(a) \/ GetFails(a)
  <2>1. /\ item # <<>> /\ item' = <<>> /\ UNCHANGED fetchList
        /\ worker # "ended" /\ worker' # "ended"
    BY <1>4 DEF DropItem, GetSucceeds, GetFails, WorkerOK
  <2>2. Queue!Finish
    BY <2>1 DEF Queue!Finish
  <2> QED BY <2>2 DEF Queue!Next
<1>5. CASE TakeItem
  BY <1>5, TakeIsServe
<1>6. ASSUME NEW o \in Object, NEW d \in Deadline, Fetch(o, d) \/ FetchAgain(o, d)
      PROVE  Queue!Next
  BY <1>6, AskIsAsk DEF Fetch, FetchAgain, workerVars
<1>7. ASSUME NEW o \in Object, NEW d \in Deadline, FetchWaiting(o, d) PROVE Queue!Next
  BY <1>7, WaitingIsHurry
<1> QED BY <1>2, <1>3, <1>4, <1>5, <1>6, <1>7 DEF Next, Worker

\* Every behaviour of the ingester is one of FetchQueue, its fairness apart: an
\* item is downloaded or dropped once, and none while another in m_fetchList has
\* an earlier deadline (doObjectIngest() and the overloads of fetch()).
THEOREM IsFetchQueue == Spec => Queue!Init /\ [][Queue!Next]_(Queue!vars)
<1> QED BY Invariants, InitIsQueueInit, NextIsQueueNext, PTL DEF Spec

-----------------------------------------------------------------------------
(* What a Curl object holds after a transfer.  headerCallback() is a        *)
(* recursive function over the lines: it exists, because no number of lines *)
(* is the least without one, and AfterLines holds for it, because no number *)
(* of lines is the least for which it does not.                             *)

CurlMembers ==
  {"hdrState", "statusCode", "permanentRedirectUrl", "cacheControlMaxAge", "etag", "contentType",
   "receivedData"}

IsCurl(c) == c = [x \in CurlMembers |-> c[x]]

\* as get() begins a transfer
Cleared(c) ==
  /\ IsCurl(c) /\ c.hdrState = "start"
  /\ c.receivedData = <<>> /\ c.etag = NoText /\ c.permanentRedirectUrl = NoText

\* line s opens the header block that is still open after n lines
Opens(lines, s, n) ==
  /\ s \in 1..n /\ lines[s].kind = "status"
  /\ \A j \in (s + 1)..n : lines[j].kind \notin {"status", "end"}

\* the permanent redirects among n lines
Moved(lines, n) == {k \in 1..n : lines[k].kind = "location" /\ HeaderOf(lines, k, Permanent)}

\* c is d after n lines
AfterLines(d, lines, n, c) ==
  /\ IsCurl(c) /\ c.receivedData = d.receivedData /\ c.etag = d.etag
  /\ c.permanentRedirectUrl =
       IF Moved(lines, n) = {} THEN NoText ELSE lines[LastOf(Moved(lines, n))].url
  /\ IF c.hdrState = "headers"
     THEN \E s \in 1..n : Opens(lines, s, n) /\ c.statusCode = lines[s].code
     ELSE \A s \in 1..n : ~Opens(lines, s, n)

\* Only one block is open.
LEMMA OneOpens ==
  ASSUME NEW lines, NEW n \in Nat, NEW s, NEW t, Opens(lines, s, n), Opens(lines, t, n)
  PROVE  s = t
<1>1. s \in 1..n /\ t \in 1..n
  BY DEF Opens
<1>2. CASE s < t
  <2>1. t \in (s + 1)..n
    BY <1>1, <1>2
  <2> QED BY <2>1 DEF Opens
<1>3. CASE t < s
  <2>1. s \in (t + 1)..n
    BY <1>1, <1>3
  <2> QED BY <2>1 DEF Opens
<1> QED BY <1>1, <1>2, <1>3

\* Line n + 1 is a header of the block that is open after n lines.
LEMMA HeaderIsInOpenBlock ==
  ASSUME NEW lines, NEW n \in Nat, NEW status
  PROVE  HeaderOf(lines, n + 1, status) <=> \E s \in 1..n : Opens(lines, s, n) /\ lines[s].code \in status
<1>1. (n + 1) - 1 = n
  OBVIOUS
<1> QED BY <1>1 DEF HeaderOf, Opens

\* One line more: whatever is open, stays open but for an empty line, and a status
\* line opens.
LEMMA OpensNext ==
  ASSUME NEW lines, NEW n \in Nat, NEW s \in 1..(n + 1)
  PROVE  Opens(lines, s, n + 1) <=>
           \/ s = n + 1 /\ lines[n + 1].kind = "status"
           \/ s \in 1..n /\ Opens(lines, s, n) /\ lines[n + 1].kind \notin {"status", "end"}
<1>1. CASE s = n + 1
  <2>1. (s + 1)..(n + 1) = {} /\ s \notin 1..n /\ s \in 1..(n + 1)
    BY <1>1
  <2> QED BY <1>1, <2>1 DEF Opens
<1>2. CASE s # n + 1
  <2>1. s \in 1..n /\ s \in 1..(n + 1)
    BY <1>2
  <2>2. \A j : j \in (s + 1)..(n + 1) <=> j \in (s + 1)..n \/ j = n + 1
    BY <2>1
  <2> QED BY <1>2, <2>1, <2>2 DEF Opens
<1> QED BY <1>1, <1>2

LEMMA MovedNext ==
  ASSUME NEW lines, NEW n \in Nat
  PROVE  Moved(lines, n + 1) =
           IF lines[n + 1].kind = "location" /\ HeaderOf(lines, n + 1, Permanent)
           THEN Moved(lines, n) \cup {n + 1} ELSE Moved(lines, n)
<1>1. \A k : k \in 1..(n + 1) <=> k \in 1..n \/ k = n + 1
  OBVIOUS
<1> QED BY <1>1 DEF Moved

LEMMA LastMoved ==
  ASSUME NEW lines, NEW n \in Nat
  PROVE  LastOf(Moved(lines, n) \cup {n + 1}) = n + 1
<1> DEFINE M == Moved(lines, n) \cup {n + 1}
<1>1. \A j \in M : j \in Nat /\ j <= n + 1
  BY DEF Moved
<1>2. n + 1 \in M /\ n + 1 \in Nat
  OBVIOUS
<1> HIDE DEF M
<1>3. \A k \in M : (\A j \in M : j <= k) => k = n + 1
  BY <1>1, <1>2
<1>4. \E k \in M : \A j \in M : j <= k
  BY <1>1, <1>2
<1>5. LastOf(M) = n + 1
  BY <1>3, <1>4 DEF LastOf
<1> QED BY <1>5 DEF M

\* What a line does to the members, given that a block ends before the next begins.
LEMMA LineStep ==
  ASSUME NEW c, IsCurl(c), NEW l, c.hdrState = "headers" => l.kind # "status"
  PROVE  LET e == ProcessHeaderLine(c, l)
         IN /\ IsCurl(e) /\ e.receivedData = c.receivedData /\ e.etag = c.etag
            /\ e.permanentRedirectUrl =
                 IF c.hdrState = "headers" /\ l.kind = "location" /\ c.statusCode \in Permanent
                 THEN l.url ELSE c.permanentRedirectUrl
            /\ e.hdrState = "headers" <=>
                 l.kind = "status" \/ (c.hdrState = "headers" /\ l.kind # "end")
            /\ e.statusCode = IF l.kind = "status" THEN l.code ELSE c.statusCode
<1> DEFINE e == ProcessHeaderLine(c, l)
<1> USE DEF IsCurl, CurlMembers
<1>1. CASE c.hdrState = "headers" /\ l.kind = "end"
  <2>1. e = [c EXCEPT !.hdrState = "body"]
    BY <1>1 DEF ProcessHeaderLine, ProcessHeader
  <2> HIDE DEF e
  <2>2. QED BY <1>1, <2>1 DEF e
<1>2. CASE c.hdrState = "headers" /\ l.kind = "location" /\ c.statusCode \in Permanent
  <2>1. e = [c EXCEPT !.permanentRedirectUrl = l.url]
    BY <1>2 DEF ProcessHeaderLine, ProcessHeader
  <2> HIDE DEF e
  <2>2. QED BY <1>2, <2>1 DEF e
<1>3. CASE c.hdrState = "headers" /\ l.kind = "maxAge"
  <2>1. e = [c EXCEPT !.cacheControlMaxAge = l.age]
    BY <1>3 DEF ProcessHeaderLine, ProcessHeader
  <2> HIDE DEF e
  <2>2. QED BY <1>3, <2>1 DEF e
<1>4. CASE /\ c.hdrState = "headers" /\ l.kind # "end" /\ l.kind # "maxAge"
           /\ ~(l.kind = "location" /\ c.statusCode \in Permanent)
  <2>1. e = c
    BY <1>4 DEF ProcessHeaderLine, ProcessHeader
  <2> HIDE DEF e
  <2>2. QED BY <1>4, <2>1 DEF e
<1>5. CASE c.hdrState # "headers" /\ l.kind = "status"
  <2>1. e = [c EXCEPT !.hdrState = "headers", !.statusCode = l.code]
    BY <1>5 DEF ProcessHeaderLine, StatusLine
  <2> HIDE DEF e
  <2>2. QED BY <1>5, <2>1 DEF e
<1>6. CASE c.hdrState # "headers" /\ l.kind # "status"
  <2>1. e = [c EXCEPT !.hdrState = "trailing"] \/ e = c
    BY <1>6 DEF ProcessHeaderLine
  <2> HIDE DEF e
  <2>2. QED BY <1>6, <2>1 DEF e
<1> QED BY <1>1, <1>2, <1>3, <1>4, <1>5, <1>6

LEMMA LineKeeps ==
  ASSUME NEW lines \in Seq(Line), EachEnds(lines), NEW d, NEW c,
         NEW n \in Nat, n + 1 \in 1..Len(lines), AfterLines(d, lines, n, c)
  PROVE  AfterLines(d, lines, n + 1, ProcessHeaderLine(c, lines[n + 1]))
<1> DEFINE l == lines[n + 1]
           e == ProcessHeaderLine(c, l)
           header == l.kind = "location" /\ HeaderOf(lines, n + 1, Permanent)
<1>1. /\ IsCurl(c) /\ c.receivedData = d.receivedData /\ c.etag = d.etag
      /\ c.permanentRedirectUrl =
           IF Moved(lines, n) = {} THEN NoText ELSE lines[LastOf(Moved(lines, n))].url
      /\ c.hdrState = "headers" => \E s \in 1..n : Opens(lines, s, n) /\ c.statusCode = lines[s].code
      /\ c.hdrState # "headers" => \A s \in 1..n : ~Opens(lines, s, n)
  BY DEF AfterLines
<1>2. c.hdrState = "headers" => l.kind # "status"
  <2> SUFFICES ASSUME c.hdrState = "headers", l.kind = "status" PROVE FALSE
    OBVIOUS
  <2>1. PICK s \in 1..n : Opens(lines, s, n)
    BY <1>1
  <2>2. s \in DOMAIN lines /\ n + 1 \in DOMAIN lines /\ s < n + 1 /\ (n + 1) - 1 = n
    OBVIOUS
  <2>3. PICK j \in (s + 1)..((n + 1) - 1) : lines[j].kind = "end"
    BY <2>1, <2>2 DEF EachEnds, Opens
  <2>4. j \in (s + 1)..n
    BY <2>2, <2>3
  <2> QED BY <2>1, <2>3, <2>4 DEF Opens
<1> HIDE DEF l
<1>3. /\ IsCurl(e) /\ e.receivedData = c.receivedData /\ e.etag = c.etag
      /\ e.permanentRedirectUrl =
           IF c.hdrState = "headers" /\ l.kind = "location" /\ c.statusCode \in Permanent
           THEN l.url ELSE c.permanentRedirectUrl
      /\ e.hdrState = "headers" <=> l.kind = "status" \/ (c.hdrState = "headers" /\ l.kind # "end")
      /\ e.statusCode = IF l.kind = "status" THEN l.code ELSE c.statusCode
  BY <1>1, <1>2, LineStep
<1> HIDE DEF e
<1>4. header <=> c.hdrState = "headers" /\ l.kind = "location" /\ c.statusCode \in Permanent
  <2>1. HeaderOf(lines, n + 1, Permanent) <=>
          \E s \in 1..n : Opens(lines, s, n) /\ lines[s].code \in Permanent
    BY HeaderIsInOpenBlock
  <2>2. CASE c.hdrState = "headers"
    <3>1. PICK s \in 1..n : Opens(lines, s, n) /\ c.statusCode = lines[s].code
      BY <1>1, <2>2
    <3>2. \A t \in 1..n : Opens(lines, t, n) => t = s
      BY <3>1, OneOpens
    <3> QED BY <2>1, <2>2, <3>1, <3>2
  <2>3. CASE c.hdrState # "headers"
    BY <1>1, <2>1, <2>3
  <2> QED BY <2>2, <2>3
<1>5. e.permanentRedirectUrl =
        IF Moved(lines, n + 1) = {} THEN NoText ELSE lines[LastOf(Moved(lines, n + 1))].url
  <2>1. CASE header
    <3>1. Moved(lines, n + 1) = Moved(lines, n) \cup {n + 1}
      BY <2>1, MovedNext DEF l
    <3>2. LastOf(Moved(lines, n + 1)) = n + 1 /\ Moved(lines, n + 1) # {}
      BY <3>1, LastMoved
    <3> QED BY <1>3, <1>4, <2>1, <3>2 DEF l
  <2>2. CASE ~header
    <3>1. Moved(lines, n + 1) = Moved(lines, n)
      BY <2>2, MovedNext DEF l
    <3> QED BY <1>1, <1>3, <1>4, <2>2, <3>1
  <2> QED BY <2>1, <2>2
<1>6. CASE e.hdrState = "headers"
  <2>1. \E s \in 1..(n + 1) : Opens(lines, s, n + 1) /\ e.statusCode = lines[s].code
    <3>1. CASE l.kind = "status"
      <4>1. n + 1 \in 1..(n + 1)
        OBVIOUS
      <4>2. Opens(lines, n + 1, n + 1)
        BY <3>1, <4>1, OpensNext DEF l
      <4> QED BY <1>3, <3>1, <4>1, <4>2 DEF l
    <3>2. CASE l.kind # "status"
      <4>1. c.hdrState = "headers" /\ l.kind # "end"
        BY <1>3, <1>6, <3>2
      <4>2. PICK s \in 1..n : Opens(lines, s, n) /\ c.statusCode = lines[s].code
        BY <1>1, <4>1
      <4>3. s \in 1..(n + 1)
        OBVIOUS
      <4>4. Opens(lines, s, n + 1)
        BY <3>2, <4>1, <4>2, <4>3, OpensNext DEF l
      <4> QED BY <1>3, <3>2, <4>2, <4>3, <4>4
    <3> QED BY <3>1, <3>2
  <2> QED BY <1>1, <1>3, <1>5, <1>6, <2>1 DEF AfterLines, e, l
<1>7. CASE e.hdrState # "headers"
  <2>1. ASSUME NEW s \in 1..(n + 1) PROVE ~Opens(lines, s, n + 1)
    <3>1. l.kind # "status" /\ (c.hdrState = "headers" => l.kind = "end")
      BY <1>3, <1>7
    <3>2. s \in 1..n /\ Opens(lines, s, n) => l.kind = "end"
      BY <1>1, <3>1
    <3> QED BY <3>1, <3>2, OpensNext DEF l
  <2> QED BY <1>1, <1>3, <1>5, <1>7, <2>1 DEF AfterLines, e, l
<1> QED BY <1>6, <1>7

LEMMA NoLines ==
  ASSUME NEW lines, NEW c, Cleared(c)
  PROVE  AfterLines(c, lines, 0, c)
<1>1. 1..0 = {}
  OBVIOUS
<1>2. Moved(lines, 0) = {}
  BY <1>1 DEF Moved
<1>3. IsCurl(c) /\ c.hdrState # "headers" /\ c.permanentRedirectUrl = NoText
  BY DEF Cleared
<1> QED BY <1>1, <1>2, <1>3 DEF AfterLines

\* headerCallback() for n lines exists, and AfterLines says what it leaves.
LEMMA ReceivedIs ==
  ASSUME NEW lines \in Seq(Line), EachEnds(lines), NEW c, Cleared(c), NEW n \in 0..Len(lines)
  PROVE  AfterLines(c, lines, n, Received(c, lines, n))
<1> DEFINE Step(g, k) == IF k = 0 THEN {c} ELSE {ProcessHeaderLine(d, lines[k]) : d \in g[k - 1]}
           Is(g, m) == g = [k \in 0..m |-> IF k = 0 THEN {c}
                                           ELSE {ProcessHeaderLine(d, lines[k]) : d \in g[k - 1]}]
           Bad == {m \in 0..n : ~\E g : Is(g, m)}
           after == CHOOSE g : Is(g, n)
           Right(k) == \E d : after[k] = {d} /\ AfterLines(c, lines, k, d)
           Odd == {k \in 0..n : ~Right(k)}
<1>1. n \in Nat /\ Len(lines) \in Nat /\ n <= Len(lines)
  OBVIOUS
<1>2. \E g : Is(g, n)
  <2> SUFFICES ASSUME Bad # {} PROVE FALSE
    <3>1. n \in 0..n
      BY <1>1
    <3> QED BY <3>1
  <2>1. Bad \in SUBSET Nat
    <3> HIDE DEF Is
    <3>1. Bad \subseteq 0..n
      OBVIOUS
    <3> HIDE DEF Bad
    <3> QED BY <1>1, <3>1
  <2>2. PICK m \in Bad : \A u \in Bad : m <= u
    <3> HIDE DEF Bad
    <3> QED BY <2>1, LeastNumber
  <2>3. m \in 0..n /\ ~\E g : Is(g, m)
    BY <2>2
  <2>4. CASE m = 0
    <3>1. Is([k \in 0..0 |-> {c}], 0)
      OBVIOUS
    <3> QED BY <2>3, <2>4, <3>1
  <2>5. CASE m # 0
    <3>1. m \in Nat /\ m - 1 \in 0..n /\ ~(m <= m - 1)
      BY <1>1, <2>3, <2>5
    <3>2. m - 1 \notin Bad
      <4> HIDE DEF Bad
      <4> QED BY <2>2, <3>1
    <3>3. PICK g : Is(g, m - 1)
      BY <3>1, <3>2
    <3> DEFINE h == [k \in 0..m |-> IF k = m THEN Step(g, m) ELSE g[k]]
    <3>4. ASSUME NEW k \in 0..m PROVE h[k] = Step(h, k)
      <4>1. CASE k = m
        <5>1. h[k] = Step(g, m)
          BY <4>1
        <5>2. m - 1 \in 0..m /\ m - 1 # m
          BY <3>1
        <5>3. h[m - 1] = g[m - 1]
          BY <5>2
        <5> HIDE DEF h
        <5> QED BY <4>1, <5>1, <5>3
      <4>2. CASE k # m
        <5>1. k \in 0..m - 1 /\ h[k] = g[k]
          BY <3>1, <4>2
        <5>2. g[k] = Step(g, k)
          BY <3>3, <5>1
        <5>3. k # 0 => k - 1 \in 0..m /\ k - 1 # m
          BY <3>1, <4>2
        <5>4. k # 0 => h[k - 1] = g[k - 1]
          BY <5>3
        <5> HIDE DEF h
        <5> QED BY <5>1, <5>2, <5>4
      <4> QED BY <4>1, <4>2
    <3>5. h = [k \in 0..m |-> h[k]]
      OBVIOUS
    <3> HIDE DEF h
    <3>6. Is(h, m)
      BY <3>4, <3>5
    <3> QED BY <2>3, <3>6
  <2> QED BY <2>4, <2>5
<1>3. Is(after, n)
  BY <1>2
<1>4. Received(c, lines, n) = CHOOSE d \in after[n] : TRUE
  BY DEF Received
<1> HIDE DEF after
<1>5. \A k \in 0..n : after[k] = Step(after, k)
  BY <1>3
<1> HIDE DEF Is
<1>6. Odd = {}
  <2> SUFFICES ASSUME Odd # {} PROVE FALSE
    OBVIOUS
  <2>1. Odd \in SUBSET Nat
    BY <1>1
  <2>2. PICK k \in Odd : \A u \in Odd : k <= u
    <3> HIDE DEF Odd
    <3> QED BY <2>1, LeastNumber
  <2>3. k \in 0..n /\ ~Right(k)
    BY <2>2
  <2>4. CASE k = 0
    <3>1. after[0] = {c}
      BY <1>5, <2>3, <2>4
    <3> QED BY <2>3, <2>4, <3>1, NoLines
  <2>5. CASE k # 0
    <3>1. k \in Nat /\ k - 1 \in 0..n /\ k - 1 \in Nat /\ ~(k <= k - 1) /\ (k - 1) + 1 = k /\ k \in 1..Len(lines)
      BY <1>1, <2>3, <2>5
    <3>2. Right(k - 1)
      <4> HIDE DEF Right
      <4> QED BY <2>2, <3>1
    <3>3. PICK d : after[k - 1] = {d} /\ AfterLines(c, lines, k - 1, d)
      BY <3>2
    <3>4. after[k] = {ProcessHeaderLine(d, lines[k])}
      <4>1. after[k] = {ProcessHeaderLine(b, lines[k]) : b \in after[k - 1]}
        BY <1>5, <2>3, <2>5
      <4> QED BY <3>3, <4>1
    <3>5. AfterLines(c, lines, k, ProcessHeaderLine(d, lines[k]))
      BY <3>1, <3>3, LineKeeps
    <3> QED BY <2>3, <3>4, <3>5
  <2> QED BY <2>4, <2>5
<1>7. PICK d : after[n] = {d} /\ AfterLines(c, lines, n, d)
  BY <1>1, <1>6
<1> QED BY <1>4, <1>7

\* The members are there, and cleared as long as a transfer is on.
CurlOK == IsCurl(curl) /\ (worker = "get" => Cleared(curl))

LEMMA ResetClears == ASSUME IsCurl(curl) PROVE Cleared(Reset)
<1> DEFINE c == [curl EXCEPT !.etag = NoText, !.receivedData = <<>>, !.hdrState = "start",
                             !.statusCode = 0, !.permanentRedirectUrl = NoText]
<1>1. Cleared(c)
  BY DEF IsCurl, CurlMembers, Cleared
<1> QED BY <1>1 DEF Reset

LEMMA ResponseIsCurl ==
  ASSUME Cleared(curl), NEW a \in Answer
  PROVE  /\ IsCurl(Succeeded(a))
         /\ \A c \in Failed(a) : IsCurl(c)
         /\ Succeeded(a).receivedData = <<a.body>> /\ Succeeded(a).etag = a.etag
         /\ Succeeded(a).permanentRedirectUrl = RedirectOf(a.lines)
<1> DEFINE lines == a.lines
           all == Received(curl, lines, Len(lines))
<1>1. lines \in Seq(Line) /\ EachEnds(lines)
  BY AnswerAssumption
<1> HIDE DEF lines
<1>2. \A n \in 0..Len(lines) : AfterLines(curl, lines, n, Received(curl, lines, n))
  BY <1>1, ReceivedIs
<1>3. Len(lines) \in 0..Len(lines) /\ DOMAIN lines = 1..Len(lines)
  BY <1>1
<1>4. /\ IsCurl(all) /\ all.receivedData = <<>> /\ all.etag = NoText
      /\ all.permanentRedirectUrl =
           IF Moved(lines, Len(lines)) = {} THEN NoText ELSE lines[LastOf(Moved(lines, Len(lines)))].url
  BY <1>2, <1>3 DEF AfterLines, Cleared
<1>5. Moved(lines, Len(lines)) =
        {k \in DOMAIN lines : lines[k].kind = "location" /\ HeaderOf(lines, k, Permanent)}
  BY <1>3 DEF Moved
<1>6. all.permanentRedirectUrl = RedirectOf(lines)
  BY <1>4, <1>5 DEF RedirectOf
<1>7. \A n \in 0..Len(lines) : IsCurl(Received(curl, lines, n))
  BY <1>2 DEF AfterLines
<1> HIDE DEF all
<1>8. Append(all.receivedData, a.body) = <<a.body>>
  BY <1>4
<1>9. Succeeded(a) = [all EXCEPT !.receivedData = Append(all.receivedData, a.body),
                                 !.etag = IF a.etag = NoText THEN all.etag ELSE a.etag,
                                 !.contentType = IF a.type = NoText THEN all.contentType ELSE a.type]
  BY DEF Succeeded, all, lines
<1>10. /\ IsCurl(Succeeded(a))
       /\ Succeeded(a).receivedData = <<a.body>> /\ Succeeded(a).etag = a.etag
       /\ Succeeded(a).permanentRedirectUrl = RedirectOf(lines)
  BY <1>4, <1>6, <1>8, <1>9 DEF IsCurl, CurlMembers
<1>11. ASSUME NEW c \in Failed(a) PROVE IsCurl(c)
  <2>1. CASE \E n \in 0..Len(lines) : c = Received(curl, lines, n)
    BY <1>7, <2>1
  <2>2. CASE c = [all EXCEPT !.receivedData = Append(@, "part")]
    BY <1>4, <2>2 DEF IsCurl, CurlMembers
  <2> QED BY <1>11, <2>1, <2>2 DEF Failed, all, lines
<1> QED BY <1>10, <1>11 DEF lines

\* What is stored is the answer to the request for that very object, with its own
\* entity tag and the last permanent redirect on the way to it: get() clears what
\* it must, and trailers and temporary redirects are not taken for permanent ones
\* (Curl.cc:71-131, 193-261).
THEOREM StoredIsServed == Spec => []StoredAsServed
<1>1. Init => CurlOK /\ StoredAsServed
  <2> SUFFICES ASSUME Init PROVE CurlOK /\ StoredAsServed
    OBVIOUS
  <2>1. IsCurl(CurlNew)
    BY DEF CurlNew, IsCurl, CurlMembers
  <2> QED BY <2>1 DEF Init, CurlOK, StoredAsServed
<1>2. CurlOK /\ StoredAsServed /\ [Next]_vars => (CurlOK /\ StoredAsServed)'
  <2> SUFFICES ASSUME CurlOK, StoredAsServed, [Next]_vars PROVE (CurlOK /\ StoredAsServed)'
    OBVIOUS
  <2>1. CASE GetItem
    <3>1. Cleared(Reset)
      BY ResetClears DEF CurlOK
    <3> QED BY <2>1, <3>1 DEF GetItem, CurlOK, Cleared, StoredAsServed
  <2>2. ASSUME NEW a \in Answer, GetSucceeds(a) PROVE (CurlOK /\ StoredAsServed)'
    <3>1. Cleared(curl)
      BY <2>2 DEF GetSucceeds, CurlOK
    <3>2. /\ IsCurl(Succeeded(a))
          /\ Succeeded(a).receivedData = <<a.body>> /\ Succeeded(a).etag = a.etag
          /\ Succeeded(a).permanentRedirectUrl = RedirectOf(a.lines)
      BY <3>1, ResponseIsCurl
    <3>3. IsCurl([Succeeded(a) EXCEPT !.receivedData = <<>>])
      BY <3>2 DEF IsCurl, CurlMembers
    <3>4. CurlOK'
      BY <2>2, <3>3 DEF GetSucceeds, CurlOK
    <3>5. /\ Entry(a).data = Succeeded(a).receivedData /\ Entry(a).etag = Succeeded(a).etag
          /\ Entry(a).redirect = Succeeded(a).permanentRedirectUrl /\ Entry(a).answer = a
      BY DEF Entry
    <3>6. last' = <<Entry(a)>>
      BY <2>2 DEF GetSucceeds
    <3>7. last'[1] = Entry(a)
      BY <3>6
    <3> QED BY <3>2, <3>4, <3>5, <3>7 DEF StoredAsServed
  <2>3. ASSUME NEW a \in Answer, GetFails(a) PROVE (CurlOK /\ StoredAsServed)'
    <3>1. IsCurl(curl')
      BY <2>3, ResponseIsCurl DEF GetFails, CurlOK
    <3> QED BY <2>3, <3>1 DEF GetFails, CurlOK, StoredAsServed
  <2>4. ASSUME UNCHANGED curl, worker' = "get" => worker = "get", UNCHANGED last \/ last' = <<>>
        PROVE  (CurlOK /\ StoredAsServed)'
    BY <2>4 DEF CurlOK, Cleared, StoredAsServed
  <2>5. CASE LoopAgain \/ WaitInVain \/ TakeItem \/ DropItem
    BY <2>4, <2>5 DEF LoopAgain, WaitInVain, TakeItem, DropItem
  <2>6. CASE Abort \/ JoinWorker \/ Tick \/ UNCHANGED vars
    BY <2>4, <2>6 DEF Abort, JoinWorker, Tick, vars, workerVars
  <2>7. CASE \E o \in Object, d \in Deadline : Fetch(o, d) \/ FetchWaiting(o, d) \/ FetchAgain(o, d)
    BY <2>4, <2>7 DEF Fetch, FetchWaiting, FetchAgain, workerVars
  <2> QED BY <2>1, <2>2, <2>3, <2>5, <2>6, <2>7 DEF Next, Worker
<1> QED BY <1>1, <1>2, PTL DEF Spec
=============================================================================
