---------------------- MODULE SubscriptionServiceProofs ----------------------
(***************************************************************************)
(* Proofs about SubscriptionService, for every set of subscribers, event   *)
(* names and threads.                                                      *)
(***************************************************************************)
EXTENDS SubscriptionService, WellFoundedInduction, TLAPS

USE DEF Calling, Active, Idle

(***************************************************************************)
(* The iterator: the least element of a non-empty set of addresses.        *)
(***************************************************************************)
LEMMA LeastIsLeast ==
  ASSUME NEW S, S \subseteq Nat, S # {}
  PROVE  Least(S) \in S /\ \A t \in S : Least(S) <= t
<1> DEFINE R == {ss \in Nat \X Nat : ss[1] < ss[2]}
<1>1. IsWellFoundedOn(R, Nat)
  BY NatLessThanWellFounded DEF OpToRel
<1>2. \E x \in S : \A y \in S : <<y, x>> \notin R
  <2> HIDE DEF R
  <2> QED BY <1>1, WFMin
<1>3. PICK x \in S : \A y \in S : <<y, x>> \notin R
  BY <1>2
<1>4. \A y \in S : x <= y
  <2> SUFFICES ASSUME NEW y \in S PROVE x <= y
    OBVIOUS
  <2>1. x \in Nat /\ y \in Nat
    OBVIOUS
  <2>2. <<y, x>> \notin R
    BY <1>3
  <2>3. ~ (y < x)
    BY <2>1, <2>2
  <2> QED BY <2>1, <2>3
<1>5. QED
  <2> HIDE DEF R
  <2> QED BY <1>4 DEF Least

USE SubscriberAssumption, EventNameAssumption, MaxPostsAssumption, ThreadAssumption

(***************************************************************************)
(* Type correctness.                                                       *)
(***************************************************************************)
LEMMA NoDispatchType == NoDispatch \in Dispatches
  BY DEF NoDispatch, AnyName, Dispatches

\* every registry change rewrites the dispatches this way
LEMMA StillOwedType ==
  ASSUME dispatch \in [Dispatcher -> Dispatches], StillOwed
  PROVE  dispatch' \in [Dispatcher -> Dispatches]
<1> SUFFICES ASSUME NEW d \in Dispatcher PROVE dispatch'[d] \in Dispatches
  BY DEF StillOwed
<1>1. dispatch[d] \in Dispatches
  OBVIOUS
<1>2. QED
  BY <1>1 DEF StillOwed, Dispatches

LEMMA EmptyQueueType == <<>> \in Seq(AsyncEvent)
  OBVIOUS

LEMMA InitType == Init => TypeOK
<1> SUFFICES ASSUME Init PROVE TypeOK
  OBVIOUS
<1>1. queue \in Seq(AsyncEvent)
  BY EmptyQueueType DEF Init
<1>2. posted \in 0..MaxPosts
  BY DEF Init
<1>3. named \in [EventName -> SUBSET Subscriber]
  BY DEF Init
<1>4. QED
  BY <1>1, <1>2, <1>3, NoDispatchType DEF Init, TypeOK

LEMMA RegisterType == TypeOK /\ Register => TypeOK'
<1> SUFFICES ASSUME TypeOK, Register PROVE TypeOK'
  OBVIOUS
<1> USE DEF TypeOK
<1>1. ASSUME NEW s \in Subscriber, NewSubscriber(s) PROVE TypeOK'
  BY <1>1 DEF NewSubscriber
<1>2. ASSUME NEW s \in Subscriber, DestroySubscriber(s) PROVE TypeOK'
  BY <1>2, StillOwedType DEF DestroySubscriber, RemoveFrom
<1>3. ASSUME NEW c \in Caller, NEW s \in Subscriber, SubscribeAll(c, s) PROVE TypeOK'
  BY <1>3, StillOwedType DEF SubscribeAll
<1>4. ASSUME NEW c \in Caller, NEW s \in Subscriber, NEW names \in SUBSET EventName \ {{}},
             SubscribeNamedCheck(c, s, names)
      PROVE  TypeOK'
  BY <1>4 DEF SubscribeNamedCheck
<1>5. ASSUME NEW p \in checked, SubscribeNamedInsert(p) PROVE TypeOK'
  <2>1. p.sub \in Subscriber
    OBVIOUS
  <2>2. QED
    BY <1>5, <2>1, StillOwedType DEF SubscribeNamedInsert
<1>6. QED
  BY <1>1, <1>2, <1>3, <1>4, <1>5 DEF Register

LEMMA SendType == TypeOK /\ (Send \/ AsyncPop) => TypeOK'
<1> SUFFICES ASSUME TypeOK, Send \/ AsyncPop PROVE TypeOK'
  OBVIOUS
<1> USE DEF TypeOK, registry
<1>1. ASSUME NEW n \in EventName, Post(n) PROVE TypeOK'
  <2>1. posted' \in 0..MaxPosts /\ [id |-> posted + 1, name |-> n] \in AsyncEvent
    BY <1>1 DEF Post, AsyncEvent
  <2>2. QED
    BY <1>1, <2>1 DEF Post
<1>2. ASSUME NEW d \in SyncThread, NEW n \in EventName, SyncSend(d, n) PROVE TypeOK'
  <2>1. Started(n, 0) \in Dispatches
    BY DEF Started, Dispatches
  <2>2. QED
    BY <1>2, <2>1 DEF SyncSend, Dispatcher
<1>3. CASE AsyncPop
  <2>1. Head(queue) \in AsyncEvent /\ Tail(queue) \in Seq(AsyncEvent)
    BY <1>3 DEF AsyncPop
  <2>2. Started(Head(queue).name, Head(queue).id) \in Dispatches
    BY <2>1 DEF Started, Dispatches, AsyncEvent
  <2>3. QED
    BY <1>3, <2>1, <2>2 DEF AsyncPop, Dispatcher
<1>4. QED
  BY <1>1, <1>2, <1>3 DEF Send

LEMMA DeliverType == TypeOK /\ (\E d \in Dispatcher : Deliver(d)) => TypeOK'
<1> SUFFICES ASSUME TypeOK, NEW d \in Dispatcher, Deliver(d) PROVE TypeOK'
  OBVIOUS
<1> USE DEF TypeOK, registry
<1>0. dispatch[d] \in Dispatches
  OBVIOUS
<1>1. SUFFICES dispatch' \in [Dispatcher -> Dispatches]
  BY DEF Deliver, Begin, Return, ReturnStopped, Finish
<1>a. ASSUME NEW S, S \subseteq Subscriber, S # {} PROVE Least(S) \in Subscriber /\ Least(S) \in Nat
  <2>1. S \subseteq Nat
    BY <1>a
  <2>2. QED
    BY <1>a, <2>1, LeastIsLeast
<1>2. CASE Begin(d)
  <2> DEFINE n == dispatch[d].name
             first == IF named[n] # {} THEN named[n] ELSE allSubs
  <2>1. n \in EventName /\ named[n] \subseteq Subscriber
    BY <1>0 DEF Dispatches
  <2>2. first \subseteq Subscriber
    BY <2>1
  <2>3. first # {} => Least(first) \in Subscriber /\ Least(first) \in Nat
    BY <2>2, <1>a
  <2>4. Interested(n) \subseteq Subscriber
    BY <2>1 DEF Interested
  <2>5. dispatch[d].id \in 0..MaxPosts
    BY <1>0 DEF Dispatches
  <2> DEFINE r == [phase |-> IF named[n] # {} THEN "named" ELSE IF allSubs # {} THEN "all" ELSE "sent",
                   id |-> dispatch[d].id, name |-> n,
                   cur |-> IF first = {} THEN 0 ELSE Least(first),
                   called |-> IF first = {} THEN {} ELSE {Least(first)},
                   owed |-> Interested(n)]
  <2>6. dispatch' = [dispatch EXCEPT ![d] = r]
    BY <1>2 DEF Begin
  <2>7. r \in Dispatches
    <3> HIDE DEF first, n
    <3> QED BY <2>1, <2>3, <2>4, <2>5 DEF Dispatches
  <2> HIDE DEF r
  <2> QED BY <2>6, <2>7
<1>3. CASE Return(d)
  <2>1. ASSUME NEW S, S \subseteq Subscriber, S # {}, CallNamed(d, S) \/ CallAll(d, S)
        PROVE  dispatch' \in [Dispatcher -> Dispatches]
    <3>1. Least(S) \in Subscriber /\ Least(S) \in Nat
      BY <2>1, <1>a
    <3>2. PICK p \in Calling :
            dispatch' = [dispatch EXCEPT ![d].phase = p, ![d].cur = Least(S),
                                         ![d].called = @ \cup {Least(S)}]
      BY <2>1 DEF CallNamed, CallAll
    <3>3. [dispatch[d] EXCEPT !.phase = p, !.cur = Least(S), !.called = @ \cup {Least(S)}] \in Dispatches
      BY <1>0, <3>1 DEF Dispatches
    <3>4. QED
      BY <3>2, <3>3
  <2>2. ASSUME Sent(d) PROVE dispatch' \in [Dispatcher -> Dispatches]
    BY <2>2, <1>0 DEF Sent, Dispatches
  <2>3. dispatch[d].name \in EventName
    BY <1>0 DEF Dispatches
  <2>4. /\ After(named[dispatch[d].name], dispatch[d].cur) \subseteq Subscriber
        /\ After(allSubs, dispatch[d].cur) \subseteq Subscriber
    BY <2>3 DEF After
  <2>5. QED
    BY <1>3, <2>1, <2>2, <2>4 DEF Return, StartAllPass
<1>4. CASE ReturnStopped(d) \/ Finish(d)
  BY <1>4, NoDispatchType DEF ReturnStopped, Finish, ToIdle
<1>5. QED
  BY <1>2, <1>3, <1>4 DEF Deliver

LEMMA ServiceType == TypeOK /\ (AsyncExit \/ BeginDestroy \/ FinishDestroy) => TypeOK'
<1> USE DEF TypeOK, registry
<1>1. TypeOK /\ AsyncExit => TypeOK'
  BY DEF AsyncExit
<1>2. TypeOK /\ BeginDestroy => TypeOK'
  BY DEF BeginDestroy
<1>3. TypeOK /\ FinishDestroy => TypeOK'
  <2> SUFFICES ASSUME TypeOK, FinishDestroy PROVE TypeOK'
    OBVIOUS
  <2>1. queue' \in Seq(AsyncEvent)
    BY EmptyQueueType DEF FinishDestroy
  <2>2. named' \in [EventName -> SUBSET Subscriber]
    BY DEF FinishDestroy
  <2>3. linked' \subseteq Subscriber /\ allSubs' \subseteq Subscriber
    BY DEF FinishDestroy
  <2>4. QED
    BY <2>1, <2>2, <2>3 DEF FinishDestroy
<1>4. QED
  BY <1>1, <1>2, <1>3

\* The state of the service keeps its types, whatever the subscribers, event
\* names and threads.
THEOREM TypeCorrect == Spec => []TypeOK
<1>1. TypeOK /\ [Next]_vars => TypeOK'
  <2>1. TypeOK /\ UNCHANGED vars => TypeOK'
    BY DEF TypeOK, vars, registry
  <2>2. QED
    BY <2>1, RegisterType, SendType, DeliverType, ServiceType DEF Next
<1>2. QED
  BY <1>1, InitType, PTL DEF Spec

(***************************************************************************)
(* Registries.  ~Subscriber() unsubscribes through m_subscriptions, and    *)
(* unsubscribe() looks at the named registrations only when there is no    *)
(* all-events one: both facts below are needed for a destroyed subscriber  *)
(* to leave nothing behind.  With a single registering thread nothing can  *)
(* come between the unlocked check and the insertion of subscribe(names).  *)
(***************************************************************************)
OneCaller == \A c, d \in Caller : c = d

RegistryInv == RegistriesAgree /\ ExclusiveRegistration

LEMMA RegistryInit == Init => RegistryInv
  BY DEF Init, RegistryInv, RegistriesAgree, ExclusiveRegistration, Registered

LEMMA RegistryStep ==
  ASSUME OneCaller, TypeOK, RegistryInv, [Next]_vars
  PROVE  RegistryInv'
<1> USE DEF RegistryInv, RegistriesAgree, ExclusiveRegistration, Registered, TypeOK
<1>1. ASSUME NEW s \in Subscriber, NewSubscriber(s) PROVE RegistryInv'
  BY <1>1 DEF NewSubscriber
<1>2. ASSUME NEW s \in Subscriber, DestroySubscriber(s) PROVE RegistryInv'
  <2>1. Registered' = Registered \ {s}
    <3>1. CASE s \in allSubs
      BY <1>2, <3>1 DEF DestroySubscriber, RemoveFrom
    <3>2. CASE s \notin allSubs /\ s \in linked
      BY <1>2, <3>2 DEF DestroySubscriber, RemoveFrom
    <3>3. CASE s \notin linked
      BY <1>2, <3>3 DEF DestroySubscriber
    <3>4. QED
      BY <3>1, <3>2, <3>3
  <2>2. ExclusiveRegistration'
    BY <1>2 DEF DestroySubscriber, RemoveFrom
  <2>3. allSubs' \subseteq allSubs
    BY <1>2 DEF DestroySubscriber, RemoveFrom
  <2>4. \A p \in checked' : p.sub \in alive' \ allSubs' /\ service' = "up"
    BY <1>2, <2>3 DEF DestroySubscriber, Registering
  <2>5. QED
    BY <1>2, <2>1, <2>2, <2>4 DEF DestroySubscriber
<1>3. ASSUME NEW c \in Caller, NEW s \in Subscriber, SubscribeAll(c, s) PROVE RegistryInv'
  <2>1. checked = {}
    <3>1. \A p \in checked : p.caller = c
      BY OneCaller DEF OneCaller
    <3>2. QED
      BY <1>3, <3>1 DEF SubscribeAll, Busy
  <2>2. Registered' = Registered \cup {s}
    BY <1>3 DEF SubscribeAll
  <2>3. linked' = linked \cup {s}
    BY <1>3 DEF SubscribeAll
  <2>4. ExclusiveRegistration'
    BY <1>3 DEF SubscribeAll
  <2>5. QED
    BY <1>3, <2>1, <2>2, <2>3, <2>4 DEF SubscribeAll
<1>4. ASSUME NEW c \in Caller, NEW s \in Subscriber, NEW names \in SUBSET EventName \ {{}},
             SubscribeNamedCheck(c, s, names)
      PROVE  RegistryInv'
  BY <1>4 DEF SubscribeNamedCheck
<1>5. ASSUME NEW p \in checked, SubscribeNamedInsert(p) PROVE RegistryInv'
  <2>0. p.names \subseteq EventName /\ p.sub \in Subscriber /\ p.sub \in alive \ allSubs
    OBVIOUS
  <2>1. linked' = Registered'
    <3>1. CASE \E n \in p.names : p.sub \notin named[n]
      BY <1>5, <2>0, <3>1 DEF SubscribeNamedInsert
    <3>2. CASE \A n \in p.names : p.sub \in named[n]
      <4>1. named' = named
        BY <1>5, <3>2 DEF SubscribeNamedInsert
      <4>2. QED
        BY <1>5, <3>2, <4>1 DEF SubscribeNamedInsert
    <3>3. QED
      BY <3>1, <3>2
  <2>2. linked' \subseteq linked \cup {p.sub}
    BY <1>5 DEF SubscribeNamedInsert
  <2>3. ExclusiveRegistration'
    BY <1>5, <2>0 DEF SubscribeNamedInsert
  <2>4. QED
    BY <1>5, <2>0, <2>1, <2>2, <2>3 DEF SubscribeNamedInsert
<1>6. CASE Send \/ AsyncPop \/ AsyncExit \/ UNCHANGED vars
  <2>1. UNCHANGED <<alive, linked, allSubs, named, checked, service>>
    <3>1. ASSUME NEW n \in EventName, Post(n) PROVE UNCHANGED <<registry, service>>
      BY <3>1 DEF Post
    <3>2. ASSUME NEW d \in SyncThread, NEW n \in EventName, SyncSend(d, n)
          PROVE  UNCHANGED <<registry, service>>
      BY <3>2 DEF SyncSend
    <3>3. CASE AsyncPop \/ AsyncExit \/ UNCHANGED vars
      BY <3>3 DEF AsyncPop, AsyncExit, vars, registry
    <3>4. QED
      BY <1>6, <3>1, <3>2, <3>3 DEF Send, registry
  <2>2. QED
    BY <2>1
<1>7. ASSUME NEW d \in Dispatcher, Deliver(d) PROVE RegistryInv'
  BY <1>7 DEF Deliver, Begin, Return, ReturnStopped, Finish, registry
<1>8. CASE BeginDestroy
  <2>1. UNCHANGED registry /\ checked = {} /\ service' = "stopping"
    BY <1>8 DEF BeginDestroy
  <2>2. QED
    BY <2>1 DEF registry
<1>9. CASE FinishDestroy
  <2>1. allSubs' = {} /\ named' = [n \in EventName |-> {}] /\ linked' = {}
    BY <1>9 DEF FinishDestroy
  <2>2. Registered' = {} /\ ExclusiveRegistration'
    BY <2>1
  <2>3. checked = {}
    BY <1>9 DEF FinishDestroy
  <2>4. QED
    BY <1>9, <2>1, <2>2, <2>3 DEF FinishDestroy
<1>10. QED
  BY <1>1, <1>2, <1>3, <1>4, <1>5, <1>6, <1>7, <1>8, <1>9 DEF Next, Register

LEMMA RegistryInvariant == ASSUME OneCaller PROVE Spec => []RegistryInv
<1>1. TypeOK /\ RegistryInv /\ [Next]_vars => RegistryInv'
  BY OneCaller, RegistryStep
<1>2. QED
  BY <1>1, RegistryInit, TypeCorrect, PTL DEF Spec

\* When one thread registers subscribers, nothing registered with the service is
\* ever a destroyed subscriber, and no subscriber keeps a service that is gone: each
\* destructor finds every registration.
THEOREM NothingDangles == ASSUME OneCaller PROVE Spec => []NoDangling
<1>1. RegistryInv => NoDangling
  BY DEF RegistryInv, RegistriesAgree, NoDangling, NoDanglingSubscriber, NoDanglingService
<1>2. QED
  BY <1>1, RegistryInvariant, PTL

\* A subscriber to all events is in no named registration, though subscribe(names)
\* looks for an all-events registration before it takes the mutex.
THEOREM NobodyIsRegisteredTwice == ASSUME OneCaller PROVE Spec => []ExclusiveRegistration
<1>1. RegistryInv => ExclusiveRegistration
  BY DEF RegistryInv
<1>2. QED
  BY <1>1, RegistryInvariant, PTL

(***************************************************************************)
(* The iterator skips nobody.  Between two calls the audience may change   *)
(* in any way; a subscriber that stays in it and has not been called is    *)
(* still ahead, because the named pass comes first and an upgrade only     *)
(* moves a subscriber to the later pass.                                   *)
(***************************************************************************)
LEMMA OwedInit == Init => OwedIsAhead
  BY DEF Init, OwedIsAhead, NoDispatch

\* A registry change that takes subscribers out of an audience or moves them
\* from a named registration to the all-events one keeps OwedIsAhead.
LEMMA OwedUnderRegistryChange ==
  ASSUME TypeOK, OwedIsAhead, StillOwed,
         allSubs' \subseteq Subscriber,
         named' \in [EventName -> SUBSET Subscriber],
         \A s \in allSubs : s \in allSubs' \/ \A n \in EventName : s \notin named'[n],
         \A n \in EventName : \A s \in named[n] : s \in named'[n] \cup allSubs'
                                                  \/ s \notin allSubs' \cup named'[n]
  PROVE  OwedIsAhead'
<1> SUFFICES ASSUME NEW d \in Dispatcher, dispatch'[d].phase \in Active,
                    NEW s \in dispatch'[d].owed, s \notin dispatch'[d].called
             PROVE  s \in Ahead(d)'
  BY DEF OwedIsAhead
<1>0. dispatch[d] \in Dispatches /\ dispatch[d].name \in EventName
  BY DEF TypeOK, Dispatches
<1>1. /\ dispatch'[d].phase = dispatch[d].phase
      /\ dispatch'[d].name = dispatch[d].name
      /\ dispatch'[d].cur = dispatch[d].cur
      /\ dispatch'[d].called = dispatch[d].called
      /\ s \in dispatch[d].owed
      /\ s \in allSubs' \cup named'[dispatch[d].name]
  BY <1>0 DEF StillOwed, Dispatches
<1>2. s \in Ahead(d)
  BY <1>1 DEF OwedIsAhead
<1>3. CASE dispatch[d].phase = "named"
  BY <1>0, <1>1, <1>2, <1>3 DEF Ahead, After
<1>4. CASE dispatch[d].phase = "all"
  BY <1>0, <1>1, <1>2, <1>4 DEF Ahead, After
<1>5. CASE dispatch[d].phase = "sent"
  BY <1>2, <1>5 DEF Ahead
<1>6. QED
  BY <1>1, <1>3, <1>4, <1>5

LEMMA OwedRegister ==
  ASSUME TypeOK, RegistryInv, OwedIsAhead, Register
  PROVE  OwedIsAhead'
<1> USE DEF TypeOK
<1>1. ASSUME NEW s \in Subscriber, NewSubscriber(s) PROVE OwedIsAhead'
  BY <1>1 DEF NewSubscriber, OwedIsAhead, Ahead
<1>2. ASSUME NEW s \in Subscriber, DestroySubscriber(s) PROVE OwedIsAhead'
  <2>1. /\ allSubs' \subseteq Subscriber
        /\ named' \in [EventName -> SUBSET Subscriber]
        /\ \A n \in EventName : named'[n] \subseteq named[n] /\ named[n] \subseteq named'[n] \cup {s}
        /\ allSubs' \subseteq allSubs /\ allSubs \subseteq allSubs' \cup {s}
    BY <1>2 DEF DestroySubscriber, RemoveFrom
  <2>2. s \notin allSubs' /\ \A n \in EventName : s \notin named'[n]
    BY <1>2 DEF DestroySubscriber, RemoveFrom, RegistryInv, RegistriesAgree, Registered,
                ExclusiveRegistration
  <2>3. \A t \in allSubs : t \in allSubs' \/ \A n \in EventName : t \notin named'[n]
    BY <2>1, <2>2
  <2>4. \A n \in EventName : \A t \in named[n] :
          t \in named'[n] \cup allSubs' \/ t \notin allSubs' \cup named'[n]
    OBVIOUS
  <2>5. StillOwed
    BY <1>2 DEF DestroySubscriber
  <2>6. QED
    BY <2>1, <2>3, <2>4, <2>5, OwedUnderRegistryChange
<1>3. ASSUME NEW c \in Caller, NEW s \in Subscriber, SubscribeAll(c, s) PROVE OwedIsAhead'
  <2>1. allSubs' = allSubs \cup {s} /\ named' = [n \in EventName |-> named[n] \ {s}] /\ StillOwed
    BY <1>3 DEF SubscribeAll
  <2>2. QED
    BY <2>1, OwedUnderRegistryChange
<1>4. ASSUME NEW c \in Caller, NEW s \in Subscriber, NEW names \in SUBSET EventName \ {{}},
             SubscribeNamedCheck(c, s, names)
      PROVE  OwedIsAhead'
  BY <1>4 DEF SubscribeNamedCheck, OwedIsAhead, Ahead
<1>5. ASSUME NEW p \in checked, SubscribeNamedInsert(p) PROVE OwedIsAhead'
  <2>0. p.sub \in Subscriber
    OBVIOUS
  <2>1. /\ allSubs' = allSubs /\ StillOwed
        /\ named' = [n \in EventName |-> IF n \in p.names THEN named[n] \cup {p.sub} ELSE named[n]]
    BY <1>5 DEF SubscribeNamedInsert
  <2>2. named' \in [EventName -> SUBSET Subscriber]
    BY <2>0, <2>1
  <2>3. \A n \in EventName : named[n] \subseteq named'[n]
    BY <2>1
  <2>4. QED
    BY <2>1, <2>2, <2>3, OwedUnderRegistryChange
<1>6. QED
  BY <1>1, <1>2, <1>3, <1>4, <1>5 DEF Register

\* Standing on the least element leaves the rest of the set ahead.
LEMMA FirstThenRest ==
  ASSUME NEW S, S \subseteq Nat, S # {}
  PROVE  S \subseteq {Least(S)} \cup After(S, Least(S))
<1> SUFFICES ASSUME NEW t \in S, t # Least(S) PROVE t \in After(S, Least(S))
  OBVIOUS
<1>1. Least(S) \in Nat /\ t \in Nat /\ Least(S) <= t
  BY LeastIsLeast
<1>2. t > Least(S)
  BY <1>1
<1>3. QED
  BY <1>2 DEF After

LEMMA NextThenRest ==
  ASSUME NEW S, S \subseteq Nat, NEW c \in Nat, After(S, c) # {}
  PROVE  After(S, c) \subseteq {Least(After(S, c))} \cup After(S, Least(After(S, c)))
<1>1. After(S, c) \subseteq S
  BY DEF After
<1>2. After(S, c) \subseteq {Least(After(S, c))} \cup After(After(S, c), Least(After(S, c)))
  BY <1>1, FirstThenRest
<1>3. QED
  BY <1>1, <1>2 DEF After

\* What moving the iterator changes in the dispatch, and what it leaves.
LEMMA CallNamedEffect ==
  ASSUME NEW d \in Dispatcher, dispatch \in [Dispatcher -> Dispatches], NEW S, CallNamed(d, S)
  PROVE  /\ dispatch'[d].phase = "named" /\ dispatch'[d].cur = Least(S)
         /\ dispatch'[d].called = dispatch[d].called \cup {Least(S)}
         /\ dispatch'[d].name = dispatch[d].name /\ dispatch'[d].owed = dispatch[d].owed
<1>1. dispatch[d] \in Dispatches
  OBVIOUS
<1>2. QED
  BY <1>1 DEF Dispatches, CallNamed

LEMMA CallAllEffect ==
  ASSUME NEW d \in Dispatcher, dispatch \in [Dispatcher -> Dispatches], NEW S, CallAll(d, S)
  PROVE  /\ dispatch'[d].phase = "all" /\ dispatch'[d].cur = Least(S)
         /\ dispatch'[d].called = dispatch[d].called \cup {Least(S)}
         /\ dispatch'[d].name = dispatch[d].name /\ dispatch'[d].owed = dispatch[d].owed
<1>1. dispatch[d] \in Dispatches
  OBVIOUS
<1>2. QED
  BY <1>1 DEF Dispatches, CallAll

LEMMA SentEffect ==
  ASSUME NEW d \in Dispatcher, dispatch \in [Dispatcher -> Dispatches], Sent(d)
  PROVE  /\ dispatch'[d].phase = "sent" /\ dispatch'[d].called = dispatch[d].called
         /\ dispatch'[d].name = dispatch[d].name /\ dispatch'[d].owed = dispatch[d].owed
  BY DEF Dispatches, Sent

LEMMA OwedDeliver ==
  ASSUME TypeOK, OwedIsAhead, NEW d \in Dispatcher, Deliver(d)
  PROVE  OwedIsAhead'
<1> USE DEF TypeOK, registry
<1>0. dispatch[d] \in Dispatches /\ dispatch[d].name \in EventName
  BY DEF Dispatches
<1>1. UNCHANGED <<allSubs, named>>
  BY DEF Deliver, Begin, Return, ReturnStopped, Finish
<1>2. \A e \in Dispatcher \ {d} : dispatch'[e] = dispatch[e]
  BY DEF Deliver, Begin, Return, ReturnStopped, Finish, StartAllPass, CallNamed, CallAll, Sent, ToIdle
\* the other dispatches are as they were; what is left is d's own
<1>3. SUFFICES ASSUME dispatch'[d].phase \in Active
               PROVE  dispatch'[d].owed \subseteq dispatch'[d].called \cup Ahead(d)'
  BY <1>1, <1>2 DEF OwedIsAhead, Ahead
<1>4. CASE Begin(d)
  <2> DEFINE n == dispatch[d].name
  <2>1. /\ dispatch'[d].phase = IF named[n] # {} THEN "named" ELSE IF allSubs # {} THEN "all" ELSE "sent"
        /\ dispatch'[d].name = n
        /\ dispatch'[d].owed = allSubs \cup named[n]
    BY <1>4 DEF Begin, Interested
  <2>2. named[n] \subseteq Nat /\ allSubs \subseteq Nat
    BY <1>0
  <2>3. CASE named[n] # {}
    <3>1. dispatch'[d].cur = Least(named[n]) /\ dispatch'[d].called = {Least(named[n])}
      BY <1>4, <2>3 DEF Begin
    <3>3. named[n] \subseteq {Least(named[n])} \cup After(named[n], Least(named[n]))
      BY <2>2, <2>3, FirstThenRest
    <3>4. QED
      BY <1>1, <2>1, <2>3, <3>1, <3>3 DEF Ahead
  <2>4. CASE named[n] = {} /\ allSubs # {}
    <3>1. dispatch'[d].cur = Least(allSubs) /\ dispatch'[d].called = {Least(allSubs)}
      BY <1>4, <2>4 DEF Begin
    <3>3. allSubs \subseteq {Least(allSubs)} \cup After(allSubs, Least(allSubs))
      BY <2>2, <2>4, FirstThenRest
    <3>4. QED
      BY <1>1, <2>1, <2>4, <3>1, <3>3 DEF Ahead
  <2>5. CASE named[n] = {} /\ allSubs = {}
    BY <2>1, <2>5
  <2>6. QED
    BY <2>3, <2>4, <2>5
<1>5. CASE Return(d)
  <2>1. dispatch[d].owed \subseteq dispatch[d].called \cup Ahead(d)
    BY <1>5 DEF Return, OwedIsAhead
  <2>2. dispatch[d].cur \in Nat
    BY <1>0 DEF Dispatches
  <2> DEFINE n == dispatch[d].name
             nextNamed == After(named[n], dispatch[d].cur)
             nextAll == After(allSubs, dispatch[d].cur)
  <2>3. named[n] \subseteq Nat /\ allSubs \subseteq Nat
    BY <1>0
  <2>4. CASE dispatch[d].phase = "named" /\ nextNamed # {}
    <3>1. CallNamed(d, nextNamed)
      BY <1>5, <2>4 DEF Return
    <3>2. /\ dispatch'[d].phase = "named" /\ dispatch'[d].cur = Least(nextNamed)
          /\ dispatch'[d].called = dispatch[d].called \cup {Least(nextNamed)}
          /\ dispatch'[d].name = n /\ dispatch'[d].owed = dispatch[d].owed
      BY <3>1, CallNamedEffect
    <3>3. nextNamed \subseteq {Least(nextNamed)} \cup After(named[n], Least(nextNamed))
      BY <2>2, <2>3, <2>4, NextThenRest
    <3>4. QED
      BY <1>1, <2>1, <2>4, <3>2, <3>3 DEF Ahead
  <2>5. CASE dispatch[d].phase = "named" /\ nextNamed = {} /\ allSubs # {}
    <3>1. CallAll(d, allSubs)
      BY <1>5, <2>5 DEF Return, StartAllPass
    <3>2. /\ dispatch'[d].phase = "all" /\ dispatch'[d].cur = Least(allSubs)
          /\ dispatch'[d].called = dispatch[d].called \cup {Least(allSubs)}
          /\ dispatch'[d].name = n /\ dispatch'[d].owed = dispatch[d].owed
      BY <3>1, CallAllEffect
    <3>3. allSubs \subseteq {Least(allSubs)} \cup After(allSubs, Least(allSubs))
      BY <2>3, <2>5, FirstThenRest
    <3>4. QED
      BY <1>1, <2>1, <2>5, <3>2, <3>3 DEF Ahead
  <2>6. CASE dispatch[d].phase = "named" /\ nextNamed = {} /\ allSubs = {}
    <3>1. Sent(d)
      BY <1>5, <2>6 DEF Return, StartAllPass
    <3>2. QED
      BY <2>1, <2>6, <3>1, SentEffect DEF Ahead
  <2>7. CASE dispatch[d].phase = "all" /\ nextAll # {}
    <3>1. CallAll(d, nextAll)
      BY <1>5, <2>7 DEF Return
    <3>2. /\ dispatch'[d].phase = "all" /\ dispatch'[d].cur = Least(nextAll)
          /\ dispatch'[d].called = dispatch[d].called \cup {Least(nextAll)}
          /\ dispatch'[d].name = n /\ dispatch'[d].owed = dispatch[d].owed
      BY <3>1, CallAllEffect
    <3>3. nextAll \subseteq {Least(nextAll)} \cup After(allSubs, Least(nextAll))
      BY <2>2, <2>3, <2>7, NextThenRest
    <3>4. QED
      BY <1>1, <2>1, <2>7, <3>2, <3>3 DEF Ahead
  <2>8. CASE dispatch[d].phase = "all" /\ nextAll = {}
    <3>1. Sent(d)
      BY <1>5, <2>8 DEF Return
    <3>2. QED
      BY <2>1, <2>8, <3>1, SentEffect DEF Ahead
  <2>9. QED
    BY <1>5, <2>4, <2>5, <2>6, <2>7, <2>8 DEF Return
<1>6. CASE ReturnStopped(d) \/ Finish(d)
  BY <1>6, <1>3 DEF ReturnStopped, Finish, ToIdle, NoDispatch
<1>7. QED
  BY <1>4, <1>5, <1>6 DEF Deliver

\* Posting touches no dispatch; popping and a synchronous send start one
\* that has not read the registries yet; the destructor finds none active.
LEMMA OwedOther ==
  ASSUME TypeOK, OwedIsAhead, ThreadsAgree,
         Send \/ AsyncPop \/ AsyncExit \/ BeginDestroy \/ FinishDestroy \/ UNCHANGED vars
  PROVE  OwedIsAhead'
<1> USE DEF TypeOK, registry
<1>1. ASSUME NEW n \in EventName, Post(n) PROVE OwedIsAhead'
  BY <1>1 DEF Post, OwedIsAhead, Ahead
<1>2. ASSUME NEW d \in SyncThread, NEW n \in EventName, SyncSend(d, n) PROVE OwedIsAhead'
  BY <1>2 DEF SyncSend, Started, OwedIsAhead, Ahead
<1>3. CASE AsyncPop
  BY <1>3 DEF AsyncPop, Started, OwedIsAhead, Ahead
<1>4. CASE AsyncExit
  BY <1>4 DEF AsyncExit, OwedIsAhead, Ahead
<1>5. CASE BeginDestroy
  BY <1>5 DEF BeginDestroy, OwedIsAhead, Ahead
<1>6. CASE FinishDestroy
  <2>1. \A d \in Dispatcher : Idle(d)
    BY <1>6 DEF FinishDestroy, ThreadsAgree, Dispatcher
  <2>2. dispatch' = dispatch
    BY <1>6 DEF FinishDestroy
  <2>3. QED
    BY <2>1, <2>2 DEF OwedIsAhead
<1>7. CASE UNCHANGED vars
  BY <1>7 DEF vars, OwedIsAhead, Ahead
<1>8. QED
  BY <1>1, <1>2, <1>3, <1>4, <1>5, <1>6, <1>7 DEF Send

(***************************************************************************)
(* Threads.                                                                *)
(***************************************************************************)
LEMMA ThreadsInit == Init => ThreadsAgree
<1> SUFFICES ASSUME Init PROVE ThreadsAgree
  OBVIOUS
<1>1. \A d \in Dispatcher : Idle(d)
  BY DEF Init, NoDispatch
<1>2. QED
  BY <1>1 DEF Init, ThreadsAgree, Dispatcher

LEMMA ThreadsStep ==
  ASSUME TypeOK, ThreadsAgree, [Next]_vars
  PROVE  ThreadsAgree'
<1> USE DEF TypeOK, ThreadsAgree, registry, Dispatcher
<1>1. CASE Register
  <2>1. UNCHANGED <<thread, service>> /\ \A d \in Dispatcher : dispatch'[d].phase = dispatch[d].phase
    <3>1. ASSUME StillOwed
          PROVE  \A d \in Dispatcher : dispatch'[d].phase = dispatch[d].phase
      BY <3>1 DEF StillOwed, Dispatches
    <3>2. QED
      BY <1>1, <3>1 DEF Register, NewSubscriber, DestroySubscriber, SubscribeAll,
                        SubscribeNamedCheck, SubscribeNamedInsert
  <2>2. QED
    BY <2>1
<1>2. ASSUME NEW n \in EventName, Post(n) PROVE ThreadsAgree'
  BY <1>2 DEF Post
<1>3. ASSUME NEW d \in SyncThread, NEW n \in EventName, SyncSend(d, n) PROVE ThreadsAgree'
  BY <1>3 DEF SyncSend
<1>4. CASE AsyncPop
  BY <1>4 DEF AsyncPop
<1>5. ASSUME NEW d \in Dispatcher, Deliver(d) PROVE ThreadsAgree'
  <2>1. ~Idle(d) /\ UNCHANGED <<thread, service>>
    BY <1>5 DEF Deliver, Begin, Return, ReturnStopped, Finish
  <2>2. \A e \in Dispatcher \ {d} : dispatch'[e] = dispatch[e]
    BY <1>5 DEF Deliver, Begin, Return, ReturnStopped, Finish, StartAllPass, CallNamed, CallAll,
                Sent, ToIdle
  <2>3. QED
    BY <2>1, <2>2
<1>6. CASE AsyncExit
  BY <1>6 DEF AsyncExit
<1>7. CASE BeginDestroy
  BY <1>7 DEF BeginDestroy
<1>8. CASE FinishDestroy
  BY <1>8 DEF FinishDestroy
<1>9. CASE UNCHANGED vars
  BY <1>9 DEF vars
<1>10. QED
  BY <1>1, <1>2, <1>3, <1>4, <1>5, <1>6, <1>7, <1>8, <1>9 DEF Next, Send

\* Once the destructor has returned, no thread of the service is left and no
\* dispatch is under way.
THEOREM DestroyedIsQuiet == Spec => []QuietWhenGone
<1>1. TypeOK /\ ThreadsAgree => QuietWhenGone
  BY DEF ThreadsAgree, QuietWhenGone, Dispatcher
<1>2. TypeOK /\ ThreadsAgree /\ [Next]_vars => ThreadsAgree'
  BY ThreadsStep
<1>3. QED
  BY <1>1, <1>2, ThreadsInit, TypeCorrect, PTL DEF Spec

\* A dispatch that runs to its end has called everyone who was in the event's
\* audience throughout.
THEOREM NobodyIsSkipped == ASSUME OneCaller PROVE Spec => []NobodySkipped
<1>1. OwedIsAhead => NobodySkipped
  BY DEF OwedIsAhead, NobodySkipped, Ahead
<1>2. TypeOK /\ RegistryInv /\ ThreadsAgree /\ OwedIsAhead /\ [Next]_vars => OwedIsAhead'
  BY OwedRegister, OwedDeliver, OwedOther DEF Next
<1>3. TypeOK /\ ThreadsAgree /\ [Next]_vars => ThreadsAgree'
  BY ThreadsStep
<1>4. QED
  BY <1>1, <1>2, <1>3, OwedInit, RegistryInvariant, ThreadsInit, TypeCorrect, PTL DEF Spec

(***************************************************************************)
(* The service is an EventChannel.  While it closes, no event is taken any *)
(* more: a thread that runs has been told to stop, and one that does not   *)
(* run has nothing in hand, so that no handler can post and start it.      *)
(***************************************************************************)
ClosingStops == service # "up" => cancel \/ thread # "running"

LEMMA ClosingInit == Init => ClosingStops
  BY DEF Init, ClosingStops

LEMMA ClosingStep ==
  ASSUME ThreadsAgree, ClosingStops, [Next]_vars
  PROVE  ClosingStops'
<1> USE DEF ClosingStops
<1>1. CASE Register \/ UNCHANGED vars
  <2>1. UNCHANGED <<service, cancel, thread>>
    BY <1>1 DEF Register, NewSubscriber, DestroySubscriber, SubscribeAll, SubscribeNamedCheck,
                SubscribeNamedInsert, vars
  <2> QED BY <2>1
<1>2. ASSUME NEW n \in EventName, Post(n) PROVE ClosingStops'
  <2>1. CASE service = "up"
    BY <1>2, <2>1 DEF Post
  <2>2. CASE dispatch["async"].phase \in Calling
    <3>1. thread = "running"
      BY <2>2 DEF ThreadsAgree
    <3> QED BY <1>2, <3>1 DEF Post
  <2> QED BY <1>2, <2>1, <2>2 DEF Post
<1>3. ASSUME NEW d \in SyncThread, NEW n \in EventName, SyncSend(d, n) PROVE ClosingStops'
  BY <1>3 DEF SyncSend
<1>4. CASE AsyncPop \/ AsyncExit
  BY <1>4 DEF AsyncPop, AsyncExit
<1>5. ASSUME NEW d \in Dispatcher, Deliver(d) PROVE ClosingStops'
  BY <1>5 DEF Deliver, Begin, Return, ReturnStopped, Finish
<1>6. CASE BeginDestroy \/ FinishDestroy
  BY <1>6 DEF BeginDestroy, FinishDestroy
<1>7. QED
  BY <1>1, <1>2, <1>3, <1>4, <1>5, <1>6 DEF Next, Send

\* what the channel has in hand
InHand == IF Idle("async") THEN <<>>
          ELSE <<[id |-> dispatch["async"].id, name |-> dispatch["async"].name]>>

\* a step that the channel does not see
LEMMA ChannelStutters ==
  ASSUME UNCHANGED <<queue, service>>, InHand' = InHand
  PROVE  UNCHANGED Channel!vars
  BY DEF Channel!vars, InHand

\* the dispatches that are in progress keep their event
LEMMA RegisterStutters ==
  ASSUME TypeOK, Register
  PROVE  UNCHANGED Channel!vars
<1>1. ASSUME StillOwed PROVE InHand' = InHand
  <2>1. "async" \in Dispatcher /\ dispatch["async"] \in Dispatches
    BY DEF TypeOK, Dispatcher
  <2>2. /\ dispatch'["async"].phase = dispatch["async"].phase
        /\ dispatch'["async"].id = dispatch["async"].id
        /\ dispatch'["async"].name = dispatch["async"].name
    BY <1>1, <2>1 DEF StillOwed, Dispatches
  <2> QED BY <2>2 DEF InHand
<1>2. InHand' = InHand
  <2>1. CASE UNCHANGED dispatch
    BY <2>1 DEF InHand
  <2> QED BY <1>1, <2>1 DEF Register, NewSubscriber, DestroySubscriber, SubscribeAll,
                            SubscribeNamedCheck, SubscribeNamedInsert
<1>3. UNCHANGED <<queue, service>>
  BY DEF Register, NewSubscriber, DestroySubscriber, SubscribeAll, SubscribeNamedCheck,
         SubscribeNamedInsert
<1> QED BY <1>2, <1>3, ChannelStutters

LEMMA PostIsPost ==
  ASSUME TypeOK, ThreadsAgree, NEW n \in EventName, Post(n)
  PROVE  Channel!Next
<1> DEFINE e == [id |-> posted + 1, name |-> n]
<1>1. e \in AsyncEvent
  BY DEF Post, TypeOK, AsyncEvent
<1>2. queue' = Append(queue, e) /\ UNCHANGED <<service, dispatch>>
  BY DEF Post
<1>3. service = "stopping" => InHand # <<>>
  BY DEF Post, InHand
<1>4. service # "gone"
  BY DEF Post
<1> HIDE DEF e
<1>5. Channel!Post(e)
  BY <1>2, <1>3, <1>4 DEF Channel!Post, InHand, TypeOK
<1> QED BY <1>1, <1>5 DEF Channel!Next

LEMMA PopIsTake ==
  ASSUME TypeOK, ClosingStops, AsyncPop
  PROVE  Channel!Next
<1> USE DEF AsyncPop
<1>1. "async" \in Dispatcher
  BY DEF Dispatcher
<1>2. service = "up"
  BY DEF ClosingStops
<1>3. Head(queue) \in AsyncEvent
  BY DEF TypeOK
<1>4. Head(queue) = [id |-> Head(queue).id, name |-> Head(queue).name]
  BY <1>3 DEF AsyncEvent
<1>5. /\ dispatch'["async"].phase = "start"
      /\ dispatch'["async"].id = Head(queue).id
      /\ dispatch'["async"].name = Head(queue).name
  BY <1>1 DEF TypeOK, Started
<1>6. InHand = <<>> /\ InHand' = <<Head(queue)>>
  BY <1>4, <1>5 DEF InHand
<1>7. Channel!Take
  BY <1>2, <1>6 DEF Channel!Take, InHand
<1> QED BY <1>7 DEF Channel!Next

\* the thread's own dispatch goes on with its event or ends; the others do not count
LEMMA DeliverIsDone ==
  ASSUME TypeOK, NEW d \in Dispatcher, Deliver(d)
  PROVE  Channel!Next \/ UNCHANGED Channel!vars
<1>1. UNCHANGED <<queue, service>>
  BY DEF Deliver, Begin, Return, ReturnStopped, Finish
<1>2. dispatch[d] \in Dispatches /\ "async" \in Dispatcher
  BY DEF TypeOK, Dispatcher
<1>3. CASE d # "async"
  <2>1. dispatch'["async"] = dispatch["async"]
    BY <1>2, <1>3 DEF Deliver, Begin, Return, ReturnStopped, Finish, StartAllPass, CallNamed, CallAll,
                      Sent, ToIdle, TypeOK
  <2>2. InHand' = InHand
    BY <2>1 DEF InHand
  <2> QED BY <1>1, <2>2, ChannelStutters
<1>4. CASE Begin(d) \/ Return(d)
  <2>1. /\ dispatch'[d].phase # "idle" /\ dispatch[d].phase # "idle"
        /\ dispatch'[d].id = dispatch[d].id
        /\ dispatch'[d].name = dispatch[d].name
    <3>1. ASSUME NEW S, CallNamed(d, S) \/ CallAll(d, S) \/ Sent(d), dispatch[d].phase \in Calling
          PROVE  /\ dispatch'[d].phase # "idle" /\ dispatch[d].phase # "idle"
                 /\ dispatch'[d].id = dispatch[d].id
                 /\ dispatch'[d].name = dispatch[d].name
      BY <1>2, <3>1 DEF CallNamed, CallAll, Sent, TypeOK, Dispatches
    <3>2. CASE Begin(d)
      BY <1>2, <3>2 DEF Begin, TypeOK, Dispatches
    <3>3. CASE Return(d)
      BY <3>1, <3>3 DEF Return, StartAllPass
    <3> QED BY <1>4, <3>2, <3>3
  <2>2. InHand' = InHand
    <3>1. CASE d = "async"
      BY <2>1, <3>1 DEF InHand
    <3> QED BY <3>1, <1>3, <1>4, <1>2 DEF InHand, Begin, Return, StartAllPass, CallNamed, CallAll, Sent, TypeOK
  <2> QED BY <1>1, <2>2, ChannelStutters
<1>5. CASE (ReturnStopped(d) \/ Finish(d)) /\ d = "async"
  <2>1. InHand # <<>>
    BY <1>5 DEF InHand, ReturnStopped, Finish
  <2>2. dispatch'["async"].phase = "idle"
    BY <1>2, <1>5 DEF ReturnStopped, Finish, ToIdle, NoDispatch, TypeOK
  <2>3. InHand' = <<>>
    BY <2>2 DEF InHand
  <2>4. Channel!Done
    BY <1>1, <2>1, <2>3 DEF Channel!Done, InHand
  <2> QED BY <2>4 DEF Channel!Next
<1> QED BY <1>3, <1>4, <1>5 DEF Deliver

LEMMA DestroyIsClose ==
  ASSUME TypeOK, ThreadsAgree, BeginDestroy \/ FinishDestroy
  PROVE  Channel!Next
<1>1. CASE BeginDestroy
  <2>1. Channel!RequestClose
    BY <1>1 DEF BeginDestroy, Channel!RequestClose
  <2> QED BY <2>1 DEF Channel!Next
<1>2. CASE FinishDestroy
  <2>1. InHand = <<>> /\ InHand' = <<>>
    BY <1>2 DEF FinishDestroy, ThreadsAgree, InHand
  <2>2. Channel!Close
    BY <1>2, <2>1 DEF FinishDestroy, Channel!Close, InHand
  <2> QED BY <2>2 DEF Channel!Next
<1> QED BY <1>1, <1>2

LEMMA InitIsChannelInit == Init => Channel!Init
<1> SUFFICES ASSUME Init PROVE Channel!Init
  OBVIOUS
<1>1. Idle("async")
  BY DEF Init, NoDispatch, Dispatcher
<1> QED BY <1>1 DEF Init, Channel!Init

LEMMA NextIsChannelNext ==
  TypeOK /\ ThreadsAgree /\ ClosingStops /\ [Next]_vars => [Channel!Next]_(Channel!vars)
<1> SUFFICES ASSUME TypeOK, ThreadsAgree, ClosingStops, [Next]_vars
             PROVE  Channel!Next \/ UNCHANGED Channel!vars
  OBVIOUS
<1>1. ASSUME NEW d \in SyncThread, NEW n \in EventName, SyncSend(d, n)
      PROVE  UNCHANGED Channel!vars
  <2>1. dispatch'["async"] = dispatch["async"] /\ UNCHANGED <<queue, service>>
    BY <1>1 DEF SyncSend, TypeOK, Dispatcher
  <2>2. InHand' = InHand
    BY <2>1 DEF InHand
  <2> QED BY <2>1, <2>2, ChannelStutters
<1>2. CASE AsyncExit \/ UNCHANGED vars
  <2>1. UNCHANGED <<queue, service, dispatch>>
    BY <1>2 DEF AsyncExit, vars
  <2>2. InHand' = InHand
    BY <2>1 DEF InHand
  <2> QED BY <2>1, <2>2, ChannelStutters
<1> QED BY <1>1, <1>2, RegisterStutters, PostIsPost, PopIsTake, DeliverIsDone, DestroyIsClose
           DEF Next, Send

\* Every behaviour of the service is one of EventChannel, its fairness apart:
\* whatever is registered, unregistered and called meanwhile, asynchronous events
\* are taken once and in the order they were posted, one at a time, and the
\* destructor waits for the one in hand and drops the others.
THEOREM IsEventChannel == Spec => Channel!Init /\ [][Channel!Next]_(Channel!vars)
<1>1. TypeOK /\ ThreadsAgree /\ [Next]_vars => ThreadsAgree'
  BY ThreadsStep
<1>2. ThreadsAgree /\ ClosingStops /\ [Next]_vars => ClosingStops'
  BY ClosingStep
<1> QED BY <1>1, <1>2, TypeCorrect, ThreadsInit, ClosingInit, InitIsChannelInit, NextIsChannelNext, PTL DEF Spec
=============================================================================
