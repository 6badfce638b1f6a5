------------------------ MODULE ObjectListController ------------------------
(***************************************************************************)
(* The controller of SINGLE sessions (ObjectListController.cc).  Its       *)
(* constructor subscribes to the store, starts the ingesters and then      *)
(* creates the packager; the store's event thread runs from the first      *)
(* object on.  It never subscribes to the packager.                        *)
(***************************************************************************)
EXTENDS ObjectController

VARIABLE phase  \* how far the constructor is

vars == <<phase, controllerVars>>

Phase == {"begin", "subscribed", "ingesting", "ready"}

Init == ControllerInit /\ phase = "begin"

\* subscribeToService(objectStore())
SubscribeToStore ==
  /\ phase = "begin"
  /\ phase' = "subscribed"
  /\ UNCHANGED controllerVars

\* initObjectIngester()
InitObjectIngester ==
  /\ phase = "subscribed"
  /\ phase' = "ingesting"
  /\ UNCHANGED controllerVars

\* setObjectListPackager()
SetObjectListPackager ==
  /\ phase = "ingesting"
  /\ phase' = "ready"
  /\ SetPackager
  /\ UNCHANGED <<storeVars, ingested, aired>>

\* an ingester stores an object
Ingest(o) ==
  /\ phase \in {"ingesting", "ready"}
  /\ AddObject(o)
  /\ UNCHANGED phase

\* processEvent() on the store's event thread: an object is added to the packager
\* if there is one
ProcessStoreEvent ==
  /\ storeEvents # <<>>
  /\ storeEvents' = Tail(storeEvents)
  /\ IF packager /\ Head(storeEvents).name = "ObjectAdded"
     THEN AddPackageItem(Head(storeEvents).object)
     ELSE UNCHANGED packagerVars
  /\ UNCHANGED <<phase, store, keep, packager, followed, ingested, aired>>

Construct ==
  \/ SubscribeToStore
  \/ InitObjectIngester
  \/ SetObjectListPackager

Next ==
  \/ Construct
  \/ \E o \in Object : Ingest(o)
  \/ ProcessStoreEvent
  \/ ControllerNext /\ UNCHANGED phase

\* Each thread runs: the constructor's, the store's event thread, the packager's
\* worker and the packager's event thread; a transmission ends.
Fairness ==
  /\ WF_vars(Construct)
  /\ WF_vars(ProcessStoreEvent)
  /\ WF_vars(PackagerWorks /\ UNCHANGED phase)
  /\ SF_vars(CompleteObject /\ UNCHANGED phase)
  /\ WF_vars(ObjectSendCompleted /\ UNCHANGED phase)

Spec == Init /\ [][Next]_vars /\ Fairness

-----------------------------------------------------------------------------
(* Properties *)

TypeOK ==
  /\ phase \in Phase
  /\ keep = {}
  /\ storeEvents \in Seq(StoreEvent)
  /\ followed = FALSE
  /\ packager = (phase = "ready")
  /\ ingested \in Seq(Object)
  /\ aired \in Seq(Object)
  /\ Packager!TypeOK

\* Once the session is constructed, an object whose ObjectAdded event has not been
\* handled yet, or that is in the packager's list, is transmitted: no item blocks
\* the list, no completion is lost (lines 82-94).  Only a send() that throws stops
\* the packager (ObjectListPackager.cc:179).
EventuallySent ==
  \A o \in Object :
    phase = "ready" /\ o \in Pending \cup Listed
      ~> o \in Range(aired) \/ Packager!SendThrew
=============================================================================
