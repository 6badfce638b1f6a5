--------------------- MODULE ObjectStreamingController ---------------------
(***************************************************************************)
(* The controller of STREAMING sessions (ObjectStreamingController.cc,     *)
(* ObjectManifestController.cc).  The base class's constructor starts the  *)
(* ingesters; only then does this one subscribe to the store, create the   *)
(* packager and subscribe to it.  The store's event thread meanwhile       *)
(* handles ObjectAdded events and creates a packager whenever it finds     *)
(* none, so the two threads race for m_packager.                           *)
(*                                                                         *)
(* A manifest is an object whose URL is the session's manifest URL.  The   *)
(* manifest handlers (libmpd++) are external: a manifest parses or not.    *)
(***************************************************************************)
EXTENDS ObjectController

CONSTANTS
  Manifest,   \* the objects that are manifests
  Unreadable  \* the manifests that no manifest handler can be made from

ASSUME ManifestAssumption == Unreadable \subseteq Manifest /\ Manifest \subseteq Object

VARIABLES
  phase,            \* how far the constructor is
  manifestHandler,  \* m_manifestHandler is set
  adding            \* <<>> or the ObjectAdded event that the store's event
                    \* thread is handling, see Adding

vars == <<phase, manifestHandler, adding, controllerVars>>

Phase == {"begin", "subscribed", "packager", "ready",
          "crashed"}  \* null pointer used in the constructor

\* the object, and whether the thread saw no packager and will make one
Adding == [object : Object, make : BOOLEAN]

Init ==
  /\ ControllerInit
  /\ phase = "begin"
  /\ manifestHandler = FALSE
  /\ adding = <<>>

-----------------------------------------------------------------------------
(* The constructor *)

SubscribeToStore ==
  /\ phase = "begin"
  /\ phase' = "subscribed"
  /\ UNCHANGED <<manifestHandler, adding, controllerVars>>

SetObjectListPackager ==
  /\ phase = "subscribed"
  /\ phase' = "packager"
  /\ SetPackager
  /\ UNCHANGED <<manifestHandler, adding, storeVars, ingested, aired>>

\* subscribeToService(*getObjectListPackager()); the event thread may have
\* unset the packager
SubscribeToPackager ==
  /\ phase = "packager"
  /\ phase' = IF packager THEN "ready" ELSE "crashed"
  /\ followed' = packager
  /\ UNCHANGED <<manifestHandler, adding, storeVars, packager, ingested, aired, packagerVars>>

-----------------------------------------------------------------------------
(* The ingesters run from the start. *)

Ingest(o) ==
  /\ AddObject(o)
  /\ UNCHANGED <<phase, manifestHandler, adding>>

-----------------------------------------------------------------------------
(* processEvent() on the store's event thread *)

TakeStoreEvent ==
  /\ adding = <<>>
  /\ storeEvents # <<>>
  /\ storeEvents' = Tail(storeEvents)
  /\ UNCHANGED <<phase, store, ingested, aired>>

\* an ObjectDeleted event, or one posted before the constructor has subscribed
IgnoreEvent ==
  /\ TakeStoreEvent
  /\ phase = "begin" \/ Head(storeEvents).name # "ObjectAdded"
  /\ UNCHANGED <<keep, manifestHandler, adding, packager, followed, packagerVars>>

\* faulty: the manifest is not marked to be kept
ObjectAddedUnkept(o) ==
  /\ TakeStoreEvent
  /\ phase # "begin"
  /\ Head(storeEvents) = [name |-> "ObjectAdded", object |-> o]
  /\ o \in Unreadable => ~manifestHandler
  /\ adding' = <<[object |-> o, make |-> ~packager]>>
  /\ manifestHandler' = (manifestHandler \/ o \in Manifest \ Unreadable)
  /\ UNCHANGED <<keep, packager, followed, packagerVars>>

\* The object is to be added to the packager, which is looked up without a lock.
\* The first manifest makes the handler, later ones update it, and all of them
\* are kept after they are sent.  One that no handler recognises makes none, and is
\* added all the same: makeManifestHandler() returns a null pointer.
ObjectAdded(o) ==
  /\ TakeStoreEvent
  /\ phase # "begin"
  /\ Head(storeEvents) = [name |-> "ObjectAdded", object |-> o]
  /\ o \in Unreadable => ~manifestHandler
  /\ adding' = <<[object |-> o, make |-> ~packager]>>
  /\ manifestHandler' = (manifestHandler \/ o \in Manifest \ Unreadable)
  /\ keep' = keep \cup ({o} \cap Manifest)
  /\ UNCHANGED <<packager, followed, packagerVars>>

\* update() fails: the packager goes until the next readable object.  Without a
\* handler, makeManifestHandler() has recognised the manifest and throws a
\* runtime_error, which the event loop drops.
UnreadableManifestAdded(o) ==
  /\ TakeStoreEvent
  /\ phase # "begin"
  /\ Head(storeEvents) = [name |-> "ObjectAdded", object |-> o]
  /\ o \in Unreadable
  /\ keep' = keep \cup {o}
  /\ IF manifestHandler
     THEN UnsetPackager
     ELSE UNCHANGED <<packager, followed, packagerVars>>
  /\ UNCHANGED <<manifestHandler, adding>>

\* if (!packager()) setObjectListPackager(): the constructor may have set one
\* since packager() was read
MakePackager ==
  /\ adding # <<>>
  /\ adding[1].make
  /\ SetPackager
  /\ adding' = <<[adding[1] EXCEPT !.make = FALSE]>>
  /\ UNCHANGED <<phase, manifestHandler, storeVars, ingested, aired>>

\* faulty: only a packager that the controller is subscribed to is used
AddToFollowedPackager ==
  /\ adding # <<>>
  /\ ~adding[1].make
  /\ IF followed THEN AddPackageItem(adding[1].object) ELSE UNCHANGED packagerVars
  /\ adding' = <<>>
  /\ UNCHANGED <<phase, manifestHandler, storeVars, packager, followed, ingested, aired>>

AddToPackager ==
  /\ adding # <<>>
  /\ ~adding[1].make
  /\ AddPackageItem(adding[1].object)
  /\ adding' = <<>>
  /\ UNCHANGED <<phase, manifestHandler, storeVars, packager, followed, ingested, aired>>

-----------------------------------------------------------------------------
Construct ==
  \/ SubscribeToStore
  \/ SetObjectListPackager
  \/ SubscribeToPackager

ProcessStoreEvent ==
  \/ IgnoreEvent
  \/ \E o \in Object : ObjectAdded(o) \/ UnreadableManifestAdded(o)
  \/ MakePackager
  \/ AddToPackager

Next ==
  /\ phase # "crashed"
  /\ \/ Construct
     \/ \E o \in Object : Ingest(o)
     \/ ProcessStoreEvent
     \/ ControllerNext /\ UNCHANGED <<phase, manifestHandler, adding>>

\* Each thread runs: the constructor's, the store's event thread, the packager's
\* worker and the packager's event thread; a transmission ends.
Rest(A) == phase # "crashed" /\ A /\ UNCHANGED <<phase, manifestHandler, adding>>
Fairness ==
  /\ WF_vars(phase # "crashed" /\ Construct)
  /\ WF_vars(phase # "crashed" /\ ProcessStoreEvent)
  /\ WF_vars(Rest(PackagerWorks))
  /\ SF_vars(Rest(CompleteObject))
  /\ WF_vars(Rest(ObjectSendCompleted))

Spec == Init /\ [][Next]_vars /\ Fairness

-----------------------------------------------------------------------------
(* Properties *)

TypeOK ==
  /\ phase \in Phase
  /\ manifestHandler \in BOOLEAN
  /\ adding \in {<<>>} \cup {<<a>> : a \in Adding}
  /\ keep \subseteq Object
  /\ storeEvents \in Seq(StoreEvent)
  /\ packager \in BOOLEAN
  /\ followed \in BOOLEAN
  /\ ingested \in Seq(Object)
  /\ aired \in Seq(Object)
  /\ Packager!TypeOK

\* Only objects that have been sent leave the store, and a manifest never does, so
\* that the manifest handler's reference to it stays good (lines 85-86, 171-175).
OnlySentOrdinaryObjectsLeave ==
  OnlySentObjectsLeave /\ Manifest \cap Range(ingested) \subseteq store

\* An object that the store's event thread still has to hand over once the
\* session is constructed, or that is in the list of the packager, is transmitted,
\* unless an unreadable manifest has taken the packager away or a send() that threw
\* has stopped it (ObjectStreamingController.cc:79-140, ObjectListPackager.cc:179).
EventuallySent ==
  \A o \in Object :
    phase = "ready" /\ o \in (Pending \ Unreadable) \cup Listed
      ~> o \in Range(aired) \/ ~packager \/ Packager!SendThrew

\* A transmitted object is deleted from the store as long as the controller is
\* subscribed to the packager, if it is not a manifest (ObjectController.cc:48-62).
EventuallyReclaimed ==
  \A o \in Object \ Manifest :
    o \in OnAir /\ followed ~> o \notin store \/ ~followed
=============================================================================
