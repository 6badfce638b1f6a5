------------------------- MODULE ObjectListPackager -------------------------
(***************************************************************************)
(* The ObjectListPackager: a list of package items ordered by deadline, a  *)
(* worker thread that hands the first one to the FLUTE transmitter, and    *)
(* the transmitter's completion callback (ObjectListPackager.cc,           *)
(* ObjectPackager.hh).                                                     *)
(*                                                                         *)
(* doObjectPackage() releases the list mutex after taking a reference to   *)
(* the first item and takes it again only to pop the list, so add() can    *)
(* reorder the list in between.  The worker's program counter names these  *)
(* points.  The transmitter (rt-libflute) and the io_service it posts its  *)
(* handlers to are external: run_one() either completes a transmission or  *)
(* runs a handler that the packager does not see.                          *)
(***************************************************************************)
EXTENDS Naturals, Sequences

CONSTANTS
  Object,          \* object identifiers
  NoDeadline,      \* an item without a deadline sorts after every deadline
  HasDestination   \* whether a destination address is configured, and the
                   \* transmitter can be made for it

ASSUME DeadlineAssumption == NoDeadline \in Nat
ASSUME DestinationAssumption == HasDestination \in BOOLEAN

VARIABLES
  store,         \* the objects the ObjectStore holds
  items,         \* m_packageItems
  worker,        \* where the worker thread is, see WorkerAt
  cancel,        \* m_workerCancel
  held,          \* <<>> or the item doObjectPackage() took a reference to
  queued,        \* m_queued
  queuedToi,     \* m_queuedToi
  queuedObject,  \* <<>> or m_queuedObjectId
  sends,         \* objects handed to the transmitter so far; numbers the TOIs
  onAir,         \* transmissions in progress in the transmitter
  completions    \* ObjectSendCompleted events posted and not yet handled

packagerVars == <<items, worker, cancel, held, queued, queuedToi, queuedObject, sends, onAir, completions>>
vars == <<store, packagerVars>>

Item == [object : Object, deadline : 1..NoDeadline]
Transmission == [toi : Nat, object : Object]
WorkerAt == {"top",     \* start of doObjectPackage()
             "front",   \* holds the first item, mutex released
             "read",    \* holds references to the object's data and metadata
             "sent",    \* the transmitter has the object, list not yet popped
             "io",      \* in m_io.run_one()
             "ended"}   \* left workerLoop()

-----------------------------------------------------------------------------
Init ==
  /\ items = <<>>
  /\ worker = "top"
  /\ cancel = FALSE
  /\ held = <<>>
  /\ queued = FALSE
  /\ queuedToi = 0
  /\ queuedObject = <<>>
  /\ sends = 0
  /\ onAir = {}
  /\ completions = <<>>

\* a controller constructs a packager in place of another: Init, primed
New ==
  /\ items' = <<>>
  /\ worker' = "top"
  /\ cancel' = FALSE
  /\ held' = <<>>
  /\ queued' = FALSE
  /\ queuedToi' = 0
  /\ queuedObject' = <<>>
  /\ sends' = 0
  /\ onAir' = {}
  /\ completions' = <<>>

\* how many items of a sorted list stay before a new one with this deadline:
\* the sort is stable, so those that compare equal to it do
Before(s, deadline) ==
  CHOOSE n \in 0..Len(s) :
    /\ \A k \in 1..n : s[k].deadline <= deadline
    /\ \A k \in (n + 1)..Len(s) : s[k].deadline > deadline

\* sortListByPolicy() of a sorted list with one item appended
SortedInsert(s, i) ==
  LET n == Before(s, i.deadline)
  IN [k \in 1..(Len(s) + 1) |->
        IF k <= n THEN s[k] ELSE IF k = n + 1 THEN i ELSE s[k - 1]]

\* faulty: add() does not sort
AddUnsorted(i) ==
  /\ items' = Append(items, i)
  /\ UNCHANGED <<worker, cancel, held, queued, queuedToi, queuedObject, sends, onAir, completions>>

\* add(), called by the controller's event handlers
Add(i) ==
  /\ items' = SortedInsert(items, i)
  /\ UNCHANGED <<worker, cancel, held, queued, queuedToi, queuedObject, sends, onAir, completions>>

\* faulty: m_queued is not looked at
TakeFrontWhileQueued ==
  /\ worker = "top" /\ ~cancel /\ HasDestination
  /\ items # <<>>
  /\ held' = <<Head(items)>>
  /\ queuedObject' = <<Head(items).object>>
  /\ worker' = "front"
  /\ UNCHANGED <<items, cancel, queued, queuedToi, sends, onAir, completions>>

\* faulty: the list is popped before the reference is used
TakeFrontOff ==
  /\ worker = "top" /\ ~cancel /\ HasDestination
  /\ items # <<>> /\ ~queued
  /\ held' = <<Head(items)>>
  /\ items' = Tail(items)
  /\ queuedObject' = <<Head(items).object>>
  /\ worker' = "front"
  /\ UNCHANGED <<cancel, queued, queuedToi, sends, onAir, completions>>

\* the worker takes a reference to the first item and releases the mutex
TakeFront ==
  /\ worker = "top" /\ ~cancel /\ HasDestination
  /\ items # <<>> /\ ~queued
  /\ held' = <<Head(items)>>
  /\ queuedObject' = <<Head(items).object>>
  /\ worker' = "front"
  /\ UNCHANGED <<items, cancel, queued, queuedToi, sends, onAir, completions>>

\* nothing to send, or something still on air
NothingToSend ==
  /\ worker = "top" /\ ~cancel /\ HasDestination
  /\ items = <<>> \/ queued
  /\ worker' = "io"
  /\ UNCHANGED <<items, cancel, held, queued, queuedToi, queuedObject, sends, onAir, completions>>

\* getObjectData() and getMetadata()
ReadObject ==
  /\ worker = "front"
  /\ held[1].object \in store
  /\ worker' = "read"
  /\ UNCHANGED <<items, cancel, held, queued, queuedToi, queuedObject, sends, onAir, completions>>

\* both throw std::out_of_range when the store has no such object; the item
\* stays first in the list
ReadFails ==
  /\ worker = "front"
  /\ held[1].object \notin store
  /\ worker' = "top"
  /\ held' = <<>>
  /\ UNCHANGED <<items, cancel, queued, queuedToi, queuedObject, sends, onAir, completions>>

\* Transmitter::send() keeps a pointer to the object's data in the store
Send ==
  /\ worker = "read"
  /\ queued' = TRUE
  /\ sends' = sends + 1
  /\ queuedToi' = sends + 1
  /\ onAir' = onAir \cup {[toi |-> sends + 1, object |-> held[1].object]}
  /\ worker' = "sent"
  /\ UNCHANGED <<items, cancel, held, queuedObject, completions>>

\* Transmitter::send() throws: m_queued, set before the call, stays set.  Here and in
\* ReadFails the lock_guard unlocks a mutex that the thread no longer holds, which a
\* recursive mutex refuses.
SendFails ==
  /\ worker = "read"
  /\ queued' = TRUE
  /\ worker' = "top"
  /\ held' = <<>>
  /\ UNCHANGED <<items, cancel, queuedToi, queuedObject, sends, onAir, completions>>

Pop ==
  /\ worker = "sent"
  /\ items' = Tail(items)
  /\ held' = <<>>
  /\ worker' = "io"
  /\ UNCHANGED <<cancel, queued, queuedToi, queuedObject, sends, onAir, completions>>

\* faulty: m_queued stays set
CompleteStillQueued(t) ==
  /\ worker = "io"
  /\ t \in onAir
  /\ onAir' = onAir \ {t}
  /\ completions' = completions \o queuedObject
  /\ worker' = "top"
  /\ UNCHANGED <<items, cancel, held, queued, queuedToi, queuedObject, sends>>

\* run_one() runs the handler that ends a transmission: the completion
\* callback checks the TOI and reports m_queuedObjectId
Complete(t) ==
  /\ worker = "io"
  /\ t \in onAir
  /\ onAir' = onAir \ {t}
  /\ IF t.toi = queuedToi
     THEN /\ queued' = FALSE
          /\ completions' = completions \o queuedObject
     ELSE UNCHANGED <<queued, completions>>
  /\ worker' = "top"
  /\ UNCHANGED <<items, cancel, held, queuedToi, queuedObject, sends>>

\* run_one() runs any other handler: a packet, the FDT, a timer
RunOther ==
  /\ worker = "io"
  /\ worker' = "top"
  /\ UNCHANGED <<items, cancel, held, queued, queuedToi, queuedObject, sends, onAir, completions>>

\* abort(), up to the join
Abort ==
  /\ ~cancel
  /\ cancel' = TRUE
  /\ UNCHANGED <<items, worker, held, queued, queuedToi, queuedObject, sends, onAir, completions>>

\* workerLoop() sees m_workerCancel
WorkerEnds ==
  /\ worker = "top" /\ cancel
  /\ worker' = "ended"
  /\ UNCHANGED <<items, cancel, held, queued, queuedToi, queuedObject, sends, onAir, completions>>

\* a step of the worker thread
Work ==
  \/ TakeFront
  \/ NothingToSend
  \/ ReadObject
  \/ ReadFails
  \/ Send \/ SendFails
  \/ Pop
  \/ RunOther
  \/ WorkerEnds

CompleteAny == \E t \in onAir : Complete(t)

-----------------------------------------------------------------------------
(* The packager by itself: a controller stores objects, adds each one once *)
(* and deletes those reported sent.                                        *)

CONSTANTS
  Deadline,  \* deadlines given to items
  MaxAdds    \* bound: calls of add(); each Send is followed by one Pop

ASSUME DeadlinesAssumption == Deadline \subseteq 1..NoDeadline
ASSUME MaxAddsAssumption == MaxAdds \in Nat

Added == {items[k].object : k \in DOMAIN items}

Provide(o, d) ==
  /\ sends + Len(items) < MaxAdds
  /\ o \notin store \cup Added
  /\ store' = store \cup {o}
  /\ Add([object |-> o, deadline |-> d])

Collect ==
  /\ completions # <<>>
  /\ store' = store \ {Head(completions)}
  /\ completions' = Tail(completions)
  /\ UNCHANGED <<items, worker, cancel, held, queued, queuedToi, queuedObject, sends, onAir>>

InitAlone == store = {} /\ Init

Next ==
  \/ \E o \in Object, d \in Deadline : Provide(o, d)
  \/ Work /\ UNCHANGED store
  \/ CompleteAny /\ UNCHANGED store
  \/ Collect
  \/ Abort /\ UNCHANGED store

\* The worker thread runs, and a transmission ends after finitely many other
\* handlers of the io_service.
Fairness ==
  /\ WF_vars(Work /\ UNCHANGED store)
  /\ SF_vars(CompleteAny /\ UNCHANGED store)

Spec == InitAlone /\ [][Next]_vars /\ Fairness

-----------------------------------------------------------------------------
(* Properties *)

TypeOK ==
  /\ store \subseteq Object
  /\ items \in Seq(Item)
  /\ worker \in WorkerAt
  /\ cancel \in BOOLEAN
  /\ held \in {<<>>} \cup {<<i>> : i \in Item}
  /\ queued \in BOOLEAN
  /\ queuedToi \in Nat
  /\ queuedObject \in {<<>>} \cup {<<o>> : o \in Object}
  /\ sends \in Nat
  /\ onAir \subseteq Transmission
  /\ completions \in Seq(Object)

\* What the completion callback will report is what was sent: there is at most
\* one transmission, its TOI is m_queuedToi and its object m_queuedObjectId,
\* and m_queued keeps the worker from replacing either (lines 138-152, 159-187).
CompletionNamesSentObject ==
  \A t \in onAir :
    /\ queued
    /\ t.toi = queuedToi
    /\ queuedObject = <<t.object>>

\* The reference to the first item that doObjectPackage() uses after it has
\* released the mutex (lines 161-166) stays a reference to an element of the
\* list, whatever add() does to the list's order meanwhile.
HeldItemStaysListed ==
  worker \in {"front", "read", "sent"} => \E k \in DOMAIN items : <<items[k]>> = held

\* sortListByPolicy(): the item the worker takes next has no later deadline
\* than any other, items without a deadline last.
SortedByDeadline ==
  \A j, k \in DOMAIN items : j < k => items[j].deadline <= items[k].deadline

\* m_queued is set and nothing is on air that could clear it: after a send() that threw
\* the packager sends no more.
Jammed == queued /\ onAir = {}

\* so it was a send() that threw: the object that was handed over is still listed
SendThrew == Jammed /\ \E k \in DOMAIN items : <<items[k].object>> = queuedObject

\* With no deadlines the packager sends each object once, in the order they were
\* added, one at a time, and reports each when it is done, until it is stopped: by
\* abort(), or by a send() that throws (lines 159-199).  An item leaves the queue when
\* it is handed to the transmitter, before it leaves the list.
Waiting == IF worker = "sent" THEN Tail(items) ELSE items
Queue == INSTANCE SendQueue WITH
  waiting <- [k \in DOMAIN Waiting |-> Waiting[k].object],
  onAir <- IF onAir = {} THEN <<>> ELSE queuedObject,
  reported <- completions,
  stopped <- worker = "ended" \/ Jammed

ImplementsQueue == Queue!Spec
=============================================================================
