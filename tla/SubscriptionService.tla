------------------------ MODULE SubscriptionService ------------------------
(***************************************************************************)
(* One SubscriptionService and the Subscribers that register with it       *)
(* (SubscriptionService.cc, Subscriber.cc).  The service keeps two         *)
(* registries (subscribers to all events, subscribers to named events), a  *)
(* queue of asynchronous events and the thread that drains it.  A          *)
(* subscriber keeps the set of services it believes it is registered with; *)
(* with one service that set is a bit, here membership of "linked".        *)
(*                                                                         *)
(* A dispatch walks the live std::set with an iterator and releases the    *)
(* mutex around every processEvent() call, so registries may change while  *)
(* a dispatch is under way.  One dispatch step is therefore what happens   *)
(* between two calls out of the service.                                   *)
(***************************************************************************)
EXTENDS Naturals, Sequences, FiniteSets

CONSTANTS
  Subscriber,   \* addresses of subscriber objects: std::set<Subscriber*> is ordered by them
  EventName,    \* event names
  SyncThread,   \* threads that call sendEventSynchronous()
  Caller,       \* threads that register and unregister subscribers
  MaxPosts      \* bound: asynchronous events posted in a behaviour

ASSUME SubscriberAssumption == Subscriber \subseteq Nat \ {0}
ASSUME EventNameAssumption == EventName # {}
ASSUME MaxPostsAssumption == MaxPosts \in Nat
ASSUME ThreadAssumption == "async" \notin SyncThread

VARIABLES
  alive,        \* subscribers constructed and not yet destroyed
  linked,       \* subscribers whose m_subscriptions holds this service
  allSubs,      \* m_allEventSubscriptions
  named,        \* m_namedEventSubscriptions; an absent key is an empty set
  checked,      \* subscribe(names) calls between the unlocked check and the insertion
  queue,        \* m_asyncEventQueue
  posted,       \* asynchronous events posted so far (identifies events)
  thread,       \* m_asyncThread: "none", "running" or "ended" (left its loop)
  cancel,       \* m_asyncCancel
  service,      \* "up", "stopping" (destructor in stopAsyncLoop) or "gone"
  dispatch      \* sendEventSynchronous() in progress, per thread

registry == <<alive, linked, allSubs, named, checked>>
vars == <<registry, queue, posted, thread, cancel, service, dispatch>>

Dispatcher == SyncThread \cup {"async"}
Calling == {"named", "all"}      \* phases in which a subscriber is being called
Active == Calling \cup {"sent"}  \* phases in which the registries have been read

AsyncEvent == [id : 1..MaxPosts, name : EventName]

\* A dispatch: the event, the element the set iterator stands on, and two
\* history fields: who has been called, and who was subscribed to the event
\* when the dispatch began and has been ever since.
Dispatches == [phase : {"idle", "start"} \cup Active,
               id : 0..MaxPosts,
               name : EventName,
               cur : Nat,
               called : SUBSET Subscriber,
               owed : SUBSET Subscriber]

AnyName == CHOOSE n \in EventName : TRUE
NoDispatch == [phase |-> "idle", id |-> 0, name |-> AnyName, cur |-> 0, called |-> {}, owed |-> {}]

Idle(d) == dispatch[d].phase = "idle"

\* An iterator of some dispatch stands on s: its processEvent() is running.
InCall(s) == \E d \in Dispatcher : dispatch[d].phase \in Calling /\ dispatch[d].cur = s

Interested(n) == allSubs \cup named[n]

After(S, n) == {s \in S : s > n}
Least(S) == CHOOSE s \in S : \A t \in S : s <= t

\* Every registry change: a subscriber that leaves an event's audience is no
\* longer owed that event by the dispatches in progress.
StillOwed ==
  dispatch' = [d \in Dispatcher |->
    [dispatch[d] EXCEPT !.owed = @ \cap (allSubs' \cup named'[dispatch[d].name])]]

-----------------------------------------------------------------------------
Init ==
  /\ alive = {}
  /\ linked = {}
  /\ allSubs = {}
  /\ named = [n \in EventName |-> {}]
  /\ checked = {}
  /\ queue = <<>>
  /\ posted = 0
  /\ thread = "none"
  /\ cancel = FALSE
  /\ service = "up"
  /\ dispatch = [d \in Dispatcher |-> NoDispatch]

-----------------------------------------------------------------------------
(* Registration.  The callers' contract, met by every caller in src/: a    *)
(* subscriber is not taken out of the set a dispatch is walking, and not   *)
(* destroyed, while its own processEvent() runs; calls for a subscriber    *)
(* end before it is destroyed, and calls on the service before it is.      *)

Busy(c) == \E p \in checked : p.caller = c
Registering(s) == \E p \in checked : p.sub = s

NewSubscriber(s) ==
  /\ s \notin alive
  /\ alive' = alive \cup {s}
  /\ UNCHANGED <<linked, allSubs, named, checked, queue, posted, thread, cancel, service, dispatch>>

\* faulty: the named registrations stay
SubscribeAllKeepingNamed(c, s) ==
  /\ service = "up" /\ s \in alive
  /\ ~Busy(c)
  /\ allSubs' = allSubs \cup {s}
  /\ linked' = linked \cup {s}
  /\ UNCHANGED named
  /\ StillOwed
  /\ UNCHANGED <<alive, checked, queue, posted, thread, cancel, service>>

\* Subscriber::subscribeTo(service) with SubscriptionService::subscribe(subscriber):
\* the named registrations go, the all-events one is added, and the
\* subscriber notes the service if the insertion was new.
SubscribeAll(c, s) ==
  /\ service = "up" /\ s \in alive
  /\ ~Busy(c)
  /\ ~(\E d \in Dispatcher : dispatch[d].phase = "named" /\ dispatch[d].cur = s)
  /\ named' = [n \in EventName |-> named[n] \ {s}]
  /\ allSubs' = allSubs \cup {s}
  /\ linked' = IF s \in allSubs THEN linked ELSE linked \cup {s}
  /\ StillOwed
  /\ UNCHANGED <<alive, checked, queue, posted, thread, cancel, service>>

\* subscribe(names, subscriber), first half: the test for an existing
\* all-events registration is made before the mutex is taken.
SubscribeNamedCheck(c, s, names) ==
  /\ service = "up" /\ s \in alive
  /\ ~Busy(c)
  /\ s \notin allSubs
  /\ checked' = checked \cup {[caller |-> c, sub |-> s, names |-> names]}
  /\ UNCHANGED <<alive, linked, allSubs, named, queue, posted, thread, cancel, service, dispatch>>

\* second half, under the mutex, and the subscriber's note of the service
SubscribeNamedInsert(p) ==
  /\ p \in checked
  /\ checked' = checked \ {p}
  /\ named' = [n \in EventName |-> IF n \in p.names THEN named[n] \cup {p.sub} ELSE named[n]]
  /\ linked' = IF \E n \in p.names : p.sub \notin named[n] THEN linked \cup {p.sub} ELSE linked
  /\ UNCHANGED allSubs
  /\ StillOwed
  /\ UNCHANGED <<alive, queue, posted, thread, cancel, service>>

\* faulty: the named registrations are never looked at
RemoveFromAllOnly(s) ==
  /\ allSubs' = allSubs \ {s}
  /\ UNCHANGED named

\* SubscriptionService::unsubscribe(subscriber): the named registrations are
\* looked at only when there was no all-events one.
RemoveFrom(s) ==
  /\ allSubs' = allSubs \ {s}
  /\ named' = IF s \in allSubs THEN named ELSE [n \in EventName |-> named[n] \ {s}]

\* ~Subscriber(): unsubscribes from every service in m_subscriptions
DestroySubscriber(s) ==
  /\ s \in alive
  /\ ~InCall(s) /\ ~Registering(s)
  /\ alive' = alive \ {s}
  /\ linked' = linked \ {s}
  /\ IF s \in linked THEN RemoveFrom(s) ELSE UNCHANGED <<allSubs, named>>
  /\ StillOwed
  /\ UNCHANGED <<checked, queue, posted, thread, cancel, service>>

-----------------------------------------------------------------------------
(* Posting and dispatching events.                                         *)

\* sendEventAsynchronous() and startAsyncLoop(): the thread is started by
\* the first event and never again.  Once the destructor runs, only a
\* processEvent() still running on the service's own thread can post.
Post(n) ==
  /\ service = "up" \/ (service = "stopping" /\ dispatch["async"].phase \in Calling)
  /\ posted < MaxPosts
  /\ posted' = posted + 1
  /\ queue' = Append(queue, [id |-> posted + 1, name |-> n])
  /\ thread' = IF thread = "none" /\ ~cancel THEN "running" ELSE thread
  /\ UNCHANGED <<registry, cancel, service, dispatch>>

Started(n, i) == [phase |-> "start", id |-> i, name |-> n, cur |-> 0, called |-> {}, owed |-> {}]

\* faulty: the newest event first
AsyncPopNewest ==
  /\ thread = "running" /\ ~cancel
  /\ Idle("async")
  /\ queue # <<>>
  /\ queue' = SubSeq(queue, 1, Len(queue) - 1)
  /\ dispatch' = [dispatch EXCEPT !["async"] = Started(queue[Len(queue)].name, queue[Len(queue)].id)]
  /\ UNCHANGED <<registry, posted, thread, cancel, service>>

\* asyncEventsLoop(): the event leaves the queue, the mutex is released
AsyncPop ==
  /\ thread = "running" /\ ~cancel
  /\ Idle("async")
  /\ queue # <<>>
  /\ queue' = Tail(queue)
  /\ dispatch' = [dispatch EXCEPT !["async"] = Started(Head(queue).name, Head(queue).id)]
  /\ UNCHANGED <<registry, posted, thread, cancel, service>>

SyncSend(d, n) ==
  /\ service = "up" /\ d \in SyncThread
  /\ Idle(d)
  /\ dispatch' = [dispatch EXCEPT ![d] = Started(n, 0)]
  /\ UNCHANGED <<registry, queue, posted, thread, cancel, service>>

\* The named pass moves to its next subscriber, or gives way to the
\* all-events pass, or the dispatch is over.
CallNamed(d, S) ==
  dispatch' = [dispatch EXCEPT ![d].phase = "named", ![d].cur = Least(S),
                               ![d].called = @ \cup {Least(S)}]
CallAll(d, S) ==
  dispatch' = [dispatch EXCEPT ![d].phase = "all", ![d].cur = Least(S),
                               ![d].called = @ \cup {Least(S)}]
Sent(d) == dispatch' = [dispatch EXCEPT ![d].phase = "sent", ![d].cur = 0]

\* faulty: subscribers to all events are called only when there is no named one
SkipAllPass(d) == Sent(d)

StartAllPass(d) == IF allSubs # {} THEN CallAll(d, allSubs) ELSE Sent(d)

\* sendEventSynchronous() up to its first call out
Begin(d) ==
  /\ dispatch[d].phase = "start"
  /\ LET n == dispatch[d].name
         first == IF named[n] # {} THEN named[n] ELSE allSubs
     IN dispatch' =
          [dispatch EXCEPT ![d] =
             [phase |-> IF named[n] # {} THEN "named" ELSE IF allSubs # {} THEN "all" ELSE "sent",
              id |-> @.id, name |-> n,
              cur |-> IF first = {} THEN 0 ELSE Least(first),
              called |-> IF first = {} THEN {} ELSE {Least(first)},
              owed |-> Interested(n)]]
  /\ UNCHANGED <<registry, queue, posted, thread, cancel, service>>

\* processEvent() returned without stopProcessing: the iterator is advanced
\* over the registry as it is now
Return(d) ==
  /\ dispatch[d].phase \in Calling
  /\ LET nextNamed == After(named[dispatch[d].name], dispatch[d].cur)
         nextAll == After(allSubs, dispatch[d].cur)
     IN IF dispatch[d].phase = "named"
        THEN IF nextNamed # {} THEN CallNamed(d, nextNamed) ELSE StartAllPass(d)
        ELSE IF nextAll # {} THEN CallAll(d, nextAll) ELSE Sent(d)
  /\ UNCHANGED <<registry, queue, posted, thread, cancel, service>>

ToIdle(d) == dispatch' = [dispatch EXCEPT ![d] = NoDispatch]

\* processEvent() set the stopProcessing flag, or threw (swallowed by the
\* async loop, propagated to a synchronous sender): no one else is called
ReturnStopped(d) ==
  /\ dispatch[d].phase \in Calling
  /\ ToIdle(d)
  /\ UNCHANGED <<registry, queue, posted, thread, cancel, service>>

\* sendEventSynchronous() returns
Finish(d) ==
  /\ dispatch[d].phase = "sent"
  /\ ToIdle(d)
  /\ UNCHANGED <<registry, queue, posted, thread, cancel, service>>

\* asyncEventsLoop() sees m_asyncCancel
AsyncExit ==
  /\ thread = "running" /\ cancel
  /\ Idle("async")
  /\ thread' = "ended"
  /\ UNCHANGED <<registry, queue, posted, cancel, service, dispatch>>

\* ~SubscriptionService(), stopAsyncLoop() up to the join
BeginDestroy ==
  /\ service = "up"
  /\ checked = {}
  /\ \A d \in SyncThread : Idle(d)
  /\ service' = "stopping"
  /\ cancel' = IF thread = "none" THEN cancel ELSE TRUE
  /\ UNCHANGED <<registry, queue, posted, thread, dispatch>>

\* faulty: only the subscribers to all events are told
FinishDestroyAllOnly ==
  /\ service = "stopping"
  /\ thread \in {"none", "ended"}
  /\ service' = "gone"
  /\ linked' = linked \ allSubs
  /\ allSubs' = {}
  /\ named' = [n \in EventName |-> {}]
  /\ queue' = <<>>
  /\ UNCHANGED <<alive, checked, posted, thread, cancel, dispatch>>

\* faulty: no join
FinishDestroyUnjoined ==
  /\ service = "stopping"
  /\ service' = "gone"
  /\ linked' = {}
  /\ allSubs' = {}
  /\ named' = [n \in EventName |-> {}]
  /\ queue' = <<>>
  /\ UNCHANGED <<alive, checked, posted, thread, cancel, dispatch>>

\* the join has returned (or there was no thread): every registered
\* subscriber forgets the service
FinishDestroy ==
  /\ service = "stopping"
  /\ thread \in {"none", "ended"}
  /\ service' = "gone"
  /\ linked' = linked \ (allSubs \cup UNION {named[n] : n \in EventName})
  /\ allSubs' = {}
  /\ named' = [n \in EventName |-> {}]
  /\ queue' = <<>>
  /\ UNCHANGED <<alive, checked, posted, thread, cancel, dispatch>>

-----------------------------------------------------------------------------
Register ==
  \/ \E s \in Subscriber : NewSubscriber(s) \/ DestroySubscriber(s)
  \/ \E c \in Caller, s \in Subscriber : SubscribeAll(c, s)
  \/ \E c \in Caller, s \in Subscriber, names \in SUBSET EventName \ {{}} :
       SubscribeNamedCheck(c, s, names)
  \/ \E p \in checked : SubscribeNamedInsert(p)

Send ==
  \/ \E n \in EventName : Post(n)
  \/ \E d \in SyncThread, n \in EventName : SyncSend(d, n)

Deliver(d) == Begin(d) \/ Return(d) \/ ReturnStopped(d) \/ Finish(d)

Next ==
  \/ Register
  \/ Send
  \/ AsyncPop
  \/ \E d \in Dispatcher : Deliver(d)
  \/ AsyncExit
  \/ BeginDestroy
  \/ FinishDestroy

\* The async thread runs whenever it can, its handlers return, and a
\* destructor that can go on does.
Fairness ==
  /\ WF_vars(AsyncPop)
  /\ WF_vars(Deliver("async"))
  /\ WF_vars(AsyncExit)
  /\ WF_vars(FinishDestroy)

Spec == Init /\ [][Next]_vars /\ Fairness

-----------------------------------------------------------------------------
(* Properties *)

Registered == allSubs \cup UNION {named[n] : n \in EventName}

TypeOK ==
  /\ alive \subseteq Subscriber
  /\ linked \subseteq Subscriber
  /\ allSubs \subseteq Subscriber
  /\ named \in [EventName -> SUBSET Subscriber]
  /\ checked \subseteq [caller : Caller, sub : Subscriber, names : SUBSET EventName]
  /\ queue \in Seq(AsyncEvent)
  /\ posted \in 0..MaxPosts
  /\ thread \in {"none", "running", "ended"}
  /\ cancel \in BOOLEAN
  /\ service \in {"up", "stopping", "gone"}
  /\ dispatch \in [Dispatcher -> Dispatches]

\* The service never holds the address of a destroyed subscriber, so no
\* dispatch calls one: whoever is registered is alive and will be found
\* through its own m_subscriptions when it is destroyed (~Subscriber()).
NoDanglingSubscriber == Registered \subseteq alive

\* No subscriber outlives a service while still noting it in
\* m_subscriptions, where ~Subscriber() would call unsubscribe() on it.
NoDanglingService == service = "gone" => linked = {}

\* Subscribers and services can be destroyed in any order, while registrations and
\* dispatches go on: neither side keeps a pointer to the other that has gone
\* (SubscriptionService.cc ~SubscriptionService(), Subscriber.cc ~Subscriber()).
NoDangling == NoDanglingSubscriber /\ NoDanglingService

\* A subscriber to all events has no named registration left (subscribe()
\* removes them), so a dispatch does not find it in both passes.
ExclusiveRegistration == \A n \in EventName : allSubs \cap named[n] = {}

\* A dispatch that ran to its end has called every subscriber that was in
\* the event's audience when it began and stayed in it, whatever was
\* registered, unregistered or upgraded to all events between the calls.
NobodySkipped ==
  \A d \in Dispatcher : dispatch[d].phase = "sent" => dispatch[d].owed \subseteq dispatch[d].called

\* Once the destructor has returned nothing runs in the service any more.
QuietWhenGone ==
  service = "gone" => thread # "running" /\ \A d \in Dispatcher : Idle(d)

\* The same facts as they hold between any two steps: what the proofs induct on.

\* A subscriber notes the service exactly while it is registered; calls past
\* the unlocked check are for living subscribers of a service that is up.
RegistriesAgree ==
  /\ linked = Registered
  /\ linked \subseteq alive
  /\ service = "gone" => linked = {}
  /\ \A p \in checked : p.sub \in alive \ allSubs /\ service = "up"

\* Whoever is owed the event has been called or is still ahead of the iterator.
Ahead(d) ==
  IF dispatch[d].phase = "named" THEN After(named[dispatch[d].name], dispatch[d].cur) \cup allSubs
  ELSE IF dispatch[d].phase = "all" THEN After(allSubs, dispatch[d].cur)
  ELSE {}
OwedIsAhead ==
  \A d \in Dispatcher :
    dispatch[d].phase \in Active => dispatch[d].owed \subseteq dispatch[d].called \cup Ahead(d)

\* Who may be active while the service goes away.
ThreadsAgree ==
  /\ thread # "running" => Idle("async")
  /\ service # "up" => \A d \in SyncThread : Idle(d)
  /\ service = "gone" => thread # "running"

\* The service is an EventChannel: asynchronous events are handled one at a
\* time, in order, once; the destructor waits for the one in hand, drops the
\* others, and both handling and destruction always end.
Channel == INSTANCE EventChannel WITH
  Event <- AsyncEvent,
  pending <- queue,
  inHand <- IF Idle("async") THEN <<>>
            ELSE <<[id |-> dispatch["async"].id, name |-> dispatch["async"].name]>>,
  closing <- service # "up",
  closed <- service = "gone"
ImplementsChannel == Channel!Spec
=============================================================================
