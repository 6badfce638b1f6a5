-------------------------- MODULE ObjectController --------------------------
(***************************************************************************)
(* What every ObjectController has: an object store that ingesters fill    *)
(* and that posts ObjectAdded and ObjectDeleted events, a packager that    *)
(* may be replaced or removed, and the handler of ObjectSendCompleted      *)
(* events (ObjectController.cc/.hh, ObjectStore.cc).                       *)
(*                                                                         *)
(* ObjectListController and ObjectStreamingController extend this module   *)
(* with their constructors and their handlers of ObjectAdded.  An event    *)
(* service is a queue here: SubscriptionService is shown to be one.        *)
(***************************************************************************)
EXTENDS Naturals, Sequences, SequencesExt

CONSTANT Object  \* object identifiers, each given out once by nextObjectId()

VARIABLES
  store,        \* the objects in m_store
  keep,         \* objects whose metadata says keepAfterSend
  storeEvents,  \* the store's asynchronous event queue
  packager,     \* m_packager is set
  followed,     \* the controller is subscribed to the packager it has now
  ingested,     \* history: objects in the order they were stored
  aired,        \* history: objects in the order they were handed to a transmitter
  items, worker, cancel, held, queued, queuedToi, queuedObject, sends, onAir,
  completions   \* the state of the packager, see ObjectListPackager

storeVars == <<store, keep, storeEvents>>
packagerVars == <<items, worker, cancel, held, queued, queuedToi, queuedObject, sends, onAir, completions>>
controllerVars == <<storeVars, packager, followed, ingested, aired, packagerVars>>

\* no caller gives an item a deadline, and a destination is configured
Packager == INSTANCE ObjectListPackager WITH
  NoDeadline <- 1, HasDestination <- TRUE, Deadline <- {1}, MaxAdds <- 0

StoreEvent == [name : {"ObjectAdded", "ObjectDeleted"}, object : Object]

ControllerInit ==
  /\ store = {}
  /\ keep = {}
  /\ storeEvents = <<>>
  /\ packager = FALSE
  /\ followed = FALSE
  /\ ingested = <<>>
  /\ aired = <<>>
  /\ Packager!Init

-----------------------------------------------------------------------------
(* The object store *)

\* faulty: the newest event is put first
AddObjectNewestFirst(o) ==
  /\ o \notin Range(ingested)
  /\ store' = store \cup {o}
  /\ storeEvents' = <<[name |-> "ObjectAdded", object |-> o]>> \o storeEvents
  /\ ingested' = Append(ingested, o)
  /\ UNCHANGED <<keep, packager, followed, aired, packagerVars>>

\* addObject(), called by an ingester with an id from nextObjectId()
AddObject(o) ==
  /\ o \notin Range(ingested)
  /\ store' = store \cup {o}
  /\ storeEvents' = Append(storeEvents, [name |-> "ObjectAdded", object |-> o])
  /\ ingested' = Append(ingested, o)
  /\ UNCHANGED <<keep, packager, followed, aired, packagerVars>>

\* deleteObject()
DeleteObject(o) ==
  /\ store' = store \ {o}
  /\ storeEvents' = Append(storeEvents, [name |-> "ObjectDeleted", object |-> o])

-----------------------------------------------------------------------------
(* The packager *)

\* setPackager(new ObjectListPackager(...)): the packager it replaces is
\* destroyed with its list, its transmitter and its undelivered events
SetPackager ==
  /\ packager' = TRUE
  /\ followed' = FALSE
  /\ Packager!New

\* unsetObjectListPackager()
UnsetPackager ==
  /\ packager' = FALSE
  /\ followed' = FALSE
  /\ Packager!New

\* faulty: the item is added twice
AddPackageItemTwice(o) ==
  /\ packager
  /\ items' = items \o <<[object |-> o, deadline |-> 1], [object |-> o, deadline |-> 1]>>
  /\ UNCHANGED <<worker, cancel, held, queued, queuedToi, queuedObject, sends, onAir, completions>>

AddPackageItem(o) == packager /\ Packager!Add([object |-> o, deadline |-> 1])

\* a step of the packager's worker; send() hands the object over
PackagerWorks ==
  /\ packager
  /\ Packager!Work
  /\ aired' = IF sends' # sends THEN Append(aired, held[1].object) ELSE aired
  /\ UNCHANGED <<storeVars, packager, followed, ingested>>

CompleteObject ==
  /\ packager
  /\ Packager!CompleteAny
  /\ UNCHANGED <<storeVars, packager, followed, ingested, aired>>

\* faulty: keepAfterSend is not looked at
DeleteKeptToo ==
  /\ completions # <<>>
  /\ completions' = Tail(completions)
  /\ IF followed THEN DeleteObject(Head(completions)) ELSE UNCHANGED <<store, storeEvents>>
  /\ UNCHANGED <<keep, packager, followed, ingested, aired, items, worker, cancel, held,
                 queued, queuedToi, queuedObject, sends, onAir>>

\* faulty: nothing is deleted
DeleteNothing ==
  /\ completions # <<>>
  /\ completions' = Tail(completions)
  /\ UNCHANGED <<storeVars, packager, followed, ingested, aired, items, worker, cancel, held,
                 queued, queuedToi, queuedObject, sends, onAir>>

\* processEvent(ObjectSendCompleted) on the packager's event thread.
\* getMetadata() throws when the object is gone.
ObjectSendCompleted ==
  /\ completions # <<>>
  /\ completions' = Tail(completions)
  /\ LET o == Head(completions)
     IN IF followed /\ o \in store \ keep
        THEN DeleteObject(o)
        ELSE UNCHANGED <<store, storeEvents>>
  /\ UNCHANGED <<keep, packager, followed, ingested, aired, items, worker, cancel, held,
                 queued, queuedToi, queuedObject, sends, onAir>>

ControllerNext ==
  \/ PackagerWorks
  \/ CompleteObject
  \/ ObjectSendCompleted

-----------------------------------------------------------------------------
(* Properties of every controller *)

Listed == {items[k].object : k \in DOMAIN items}
OnAir == {t.object : t \in onAir}

\* LibFlute::Transmitter keeps the pointer to the object's data that
\* doObjectPackage() took from the store, so an object must not be deleted while it
\* is being transmitted; and getObjectData() throws for an object the store does not
\* have, leaving the item first in the list with every other item waiting behind it
\* for ever.  So what is listed and not sent is stored, and so is what is on air
\* (ObjectListPackager.cc:159-166, 187-199).
TransmissionsHaveData ==
  /\ OnAir \subseteq store
  /\ worker # "sent" => Listed \subseteq store

\* Objects go on air in the order in which they were ingested and never twice,
\* however packagers are created, replaced and dropped in between.
SentInOrder ==
  \A j, k \in DOMAIN aired : j < k =>
    \E m, n \in DOMAIN ingested :
      m < n /\ aired[j] = ingested[m] /\ aired[k] = ingested[n]

\* An object leaves the store only when its transmission is over, and never when
\* it is marked keepAfterSend (ObjectController.cc:48-62).
OnlySentObjectsLeave ==
  \A o \in Range(ingested) \ store :
    o \in Range(aired) \ (OnAir \cup keep \cup Listed \cup Range(completions))

\* the object's ObjectAdded event waits in the store's queue
Pending == {e.object : e \in {x \in Range(storeEvents) : x.name = "ObjectAdded"}}
=============================================================================
