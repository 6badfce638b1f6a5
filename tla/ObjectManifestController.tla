---------------------- MODULE ObjectManifestController ----------------------
(***************************************************************************)
(* The thread that fetches what a DASH manifest announces                  *)
(* (ObjectManifestController::workerLoop) and the manifest handler it asks *)
(* (DASHManifestHandler.cc, ManifestHandlerFactory.cc).                    *)
(*                                                                         *)
(* The store's event thread makes the handler from the first manifest and  *)
(* updates it with later ones, while this thread plans the next fetches,   *)
(* sleeps until they are due and hands them to the pull ingesters.  In a   *)
(* PULL session the manifest itself is one of the things to fetch: nothing *)
(* but the handler's list of extra objects remembers that it has to be.    *)
(*                                                                         *)
(* libmpd++ is external.  A manifest is known by what it announces, and    *)
(* asked at some time it gives, for each representation, the next media    *)
(* segment that becomes available: the code has no memory of the segments  *)
(* it has fetched.  Nothing guards the handler's members: each access to   *)
(* m_mpd and to m_extraPullObjects is taken to be atomic.                  *)
(***************************************************************************)
EXTENDS Naturals, Sequences, FiniteSets

CONSTANTS
  Manifest,        \* the manifests a session may be given
  Unreadable,      \* those that the manifest handler refuses
  Media,           \* media segments
  InitSegment,     \* initialization segments
  BadURL,          \* segments whose segmentURL() throws a domain_error
  ManifestURL,     \* the URL of the session's manifest
  Announced,       \* manifest |-> its media and initialization segments
  Representation,  \* media segment |-> its representation
  AvailableFrom,   \* segment |-> its availability start time
  UpdatePeriod,    \* manifest |-> its minimum update period, 0 if it has none
  Lifetime,        \* manifest |-> the cache lifetime of the response it came in
  MaxManifests,    \* bound: manifests that arrive
  MaxTime          \* bound on the clock while the thread does not sleep

Segment == Media \cup InitSegment
URL == Segment \cup {ManifestURL}

ASSUME ManifestSets ==
  /\ Unreadable \subseteq Manifest
  /\ BadURL \subseteq Segment
  /\ Media \cap InitSegment = {}
  /\ ManifestURL \notin Segment
ASSUME ManifestContents ==
  /\ Announced \in [Manifest -> SUBSET Segment]
  /\ \A m \in Manifest : IsFiniteSet(Announced[m])
  /\ AvailableFrom \in [Segment -> Nat]
  /\ UpdatePeriod \in [Manifest -> Nat]
  /\ Lifetime \in [Manifest -> Nat]
ASSUME TimeBounds == MaxManifests \in Nat /\ MaxTime \in Nat

VARIABLES
  pull,        \* the session's acquisition method is PULL
  moved,       \* the manifest's URL redirects permanently to another one
  now,         \* the clock
  events,      \* the store's ObjectAdded events for manifests, each with the
               \* manifest and the time it was received; one is here until it
               \* has been handled
  fetching,    \* how many fetches of the manifest the ingesters have to do
  handler,     \* <<>> or the manifest m_manifestHandler has in m_mpd
  first,       \* the manifest in m_manifest and its time, <<>> without a handler
  extras,      \* m_extraPullObjects
  updating,    \* where the event thread is in update()
  thread,      \* where workerLoop() is
  upcoming,    \* the first items of media_segments in nextIngestItems()
  fetchTime,   \* fetch_time
  batch,       \* next_ingest_items, as URLs
  ingesters,   \* size of the list of pull ingesters
  cancel,      \* m_scheduledPullCancel
  owner,       \* the controller: "using", "joining" in abort(), "gone"
  asked,       \* history: what was asked of the ingesters, and when
  arrived,     \* history: number of manifests that arrived
  planned,     \* history: media segments that were still to come when the thread
               \* last looked at the manifest, and those due before that
  lost         \* history: a fetch of the manifest brought none to use

handlerVars == <<handler, first, extras>>
threadVars == <<thread, upcoming, fetchTime, batch, ingesters, planned>>
sourceVars == <<events, fetching, arrived>>
rest == <<pull, moved, now, cancel, owner, asked>>
vars == <<rest, lost, updating, handlerVars, threadVars, sourceVars>>

ThreadAt == {"waiting",   \* lines 130-139, for a manifest handler
             "plan",      \* line 148: nextIngestItems()
             "choosing",  \* in it, before it looks at the list of extra objects
             "planned",   \* in it, before it removes what it has chosen
             "sleeping",  \* line 170
             "ended"}

UpdatingAt == {"no",
               "segments",  \* before DASHManifestHandler.cc:194, the new list
               "refresh"}   \* before line 195, the refresh

Received == [manifest : Manifest, time : Nat]
Extra == [url : URL, from : Nat]

Later(a, b) == IF a >= b THEN a ELSE b
Earliest(S) == CHOOSE t \in S : \A u \in S : t <= u

\* The ingester of a PULL session has the manifest in its list from the start.
Init ==
  /\ pull \in BOOLEAN /\ moved \in BOOLEAN
  /\ now = 0
  /\ events = <<>>
  /\ fetching = IF pull THEN 1 ELSE 0
  /\ handler = <<>> /\ first = <<>> /\ extras = {} /\ updating = "no"
  /\ thread = "waiting" /\ upcoming = {} /\ fetchTime = 0 /\ batch = {}
  /\ ingesters = IF pull THEN 1 ELSE 0
  /\ cancel = FALSE /\ owner = "using"
  /\ asked = {} /\ arrived = 0 /\ planned = {} /\ lost = FALSE

-----------------------------------------------------------------------------
(* Where manifests come from: the ingesters or, in a PUSH session, clients *)

\* the event is posted when the object is stored
ManifestStored(m) ==
  /\ arrived < MaxManifests
  /\ arrived' = arrived + 1
  /\ events' = Append(events, [manifest |-> m, time |-> now])
  /\ UNCHANGED <<rest, lost, updating, handlerVars, threadVars>>

PushManifest(m) ==
  /\ ~pull
  /\ ManifestStored(m)
  /\ UNCHANGED fetching

\* A refresh asks for the URL that the first fetch was redirected to.  If there
\* was a redirection the object has the session's manifest URL neither as its
\* original URL nor as the fetched one, and is not taken for a manifest.
FetchManifest(m) ==
  /\ fetching > 0
  /\ moved => handler = <<>>
  /\ fetching' = fetching - 1
  /\ ManifestStored(m)

RefreshNotRecognized ==
  /\ fetching > 0
  /\ moved /\ handler # <<>>
  /\ fetching' = fetching - 1
  /\ lost' = TRUE
  /\ UNCHANGED <<rest, updating, handlerVars, threadVars, events, arrived>>

\* an ingester does not try again
FetchFails ==
  /\ fetching > 0
  /\ fetching' = fetching - 1
  /\ lost' = TRUE
  /\ UNCHANGED <<rest, updating, handlerVars, threadVars, events, arrived>>

-----------------------------------------------------------------------------
(* The manifest handler, called on the store's event thread *)

\* faulty: the lifetime of the response is not looked at
RefreshEveryPeriod(m, r) ==
  IF pull /\ UpdatePeriod[m] > 0
  THEN {[url |-> ManifestURL, from |-> r.time + UpdatePeriod[m]]}
  ELSE {}

\* addMPDRefreshToExtraPullObjects(): m_manifest is still the first manifest
Refresh(m, r) ==
  IF pull /\ UpdatePeriod[m] > 0
  THEN {[url |-> ManifestURL,
         from |-> r.time + Later(UpdatePeriod[m], Lifetime[r.manifest])]}
  ELSE {}

InitSegments(m) == {[url |-> i, from |-> AvailableFrom[i]] : i \in Announced[m] \cap InitSegment}

\* ~ObjectStreamingController() aborts the thread while events still reach
\* processEvent(): until it is gone
HandlesEvents == events # <<>> /\ owner # "gone"

EventHandled ==
  /\ events' = Tail(events)
  /\ updating' = "no"
  /\ UNCHANGED <<rest, threadVars, fetching, arrived>>

\* makeManifestHandler(), and the constructor of the handler
MakeHandler ==
  /\ HandlesEvents /\ handler = <<>>
  /\ Head(events).manifest \notin Unreadable
  /\ handler' = <<Head(events).manifest>>
  /\ first' = <<Head(events)>>
  /\ extras' = InitSegments(Head(events).manifest) \cup Refresh(Head(events).manifest, Head(events))
  /\ EventHandled
  /\ UNCHANGED lost

\* ingest_manifest() throws: no handler is made, or the old manifest stays
RefuseManifest ==
  /\ HandlesEvents /\ updating = "no"
  /\ Head(events).manifest \in Unreadable
  /\ lost' = TRUE
  /\ EventHandled
  /\ UNCHANGED handlerVars

\* update(), lines 191-192: the new manifest
UpdateManifest ==
  /\ HandlesEvents /\ updating = "no" /\ handler # <<>>
  /\ Head(events).manifest \notin Unreadable
  /\ handler' = <<Head(events).manifest>>
  /\ updating' = "segments"
  /\ UNCHANGED <<rest, lost, first, extras, threadVars, sourceVars>>

\* line 194: its initialization segments replace the list
UpdateSegments ==
  /\ HandlesEvents /\ updating = "segments"
  /\ extras' = InitSegments(handler[1])
  /\ updating' = "refresh"
  /\ UNCHANGED <<rest, lost, handler, first, threadVars, sourceVars>>

\* faulty: the refresh is not added again
UpdateWithoutRefresh ==
  /\ HandlesEvents /\ updating = "refresh"
  /\ EventHandled
  /\ UNCHANGED <<lost, handlerVars>>

\* line 195, and startWorker(), which finds a thread even when that has ended
UpdateRefresh ==
  /\ HandlesEvents /\ updating = "refresh"
  /\ extras' = extras \cup Refresh(handler[1], first[1])
  /\ EventHandled
  /\ UNCHANGED <<lost, handler, first>>

-----------------------------------------------------------------------------
(* workerLoop(), which calls the handler without a lock *)

OnlyThread == UNCHANGED <<pull, moved, now, owner, lost, updating, handler, first, sourceVars>>

\* lines 130-141
WaitForHandler ==
  /\ thread = "waiting"
  /\ cancel \/ handler # <<>>
  /\ thread' = IF cancel THEN "ended" ELSE "plan"
  /\ UNCHANGED <<cancel, asked, extras, upcoming, fetchTime, batch, ingesters, planned>> /\ OnlyThread

ToCome(m) == {s \in Announced[m] \cap Media : AvailableFrom[s] > now}

\* selectedSegmentAvailability(): for each representation, the next segment
NextSegments(m) ==
  {s \in ToCome(m) : \A u \in ToCome(m) :
     Representation[u] = Representation[s] => AvailableFrom[s] <= AvailableFrom[u]}

\* those expected now that the manifest is m: what is due by now has to be done
Expected(m) == ToCome(m) \cup {s \in planned : AvailableFrom[s] <= now}

\* the media segments of the manifest as it is now
ReadSegments ==
  /\ thread = "plan"
  /\ planned' = Expected(handler[1])
  /\ upcoming' = NextSegments(handler[1])
  /\ thread' = "choosing"
  /\ UNCHANGED <<cancel, asked, extras, fetchTime, batch, ingesters>> /\ OnlyThread

\* and the extra objects
Choices == {[url |-> s, from |-> AvailableFrom[s]] : s \in upcoming} \cup extras
Due(c) == Later(c.from, now)

\* With nothing to fetch the thread ends (line 153).
NothingToFetch ==
  /\ thread = "choosing" /\ Choices = {}
  /\ thread' = "ended"
  /\ upcoming' = {}
  /\ UNCHANGED <<cancel, asked, extras, fetchTime, batch, ingesters, planned>> /\ OnlyThread

\* faulty: everything there is to fetch, at the first fetch time
ChooseEverything ==
  /\ thread = "choosing" /\ Choices # {}
  /\ fetchTime' = Earliest({Due(c) : c \in Choices})
  /\ batch' = {c.url : c \in Choices}
  /\ thread' = "planned"
  /\ upcoming' = {}
  /\ UNCHANGED <<cancel, asked, extras, ingesters, planned>> /\ OnlyThread

\* nextIngestItems(): all that is due first; what is overdue counts as due now.
Choose ==
  /\ thread = "choosing" /\ Choices # {}
  /\ fetchTime' = Earliest({Due(c) : c \in Choices})
  /\ batch' = {c.url : c \in {d \in Choices : Due(d) = fetchTime'}}
  /\ thread' = "planned"
  /\ upcoming' = {}
  /\ UNCHANGED <<cancel, asked, extras, ingesters, planned>> /\ OnlyThread

\* The list is searched for each item, so that segmentURL() is asked of its other
\* entries, too.  Only an initialization segment may be found before a bad one.
InvalidEntry == \E x \in extras : x.url \in BadURL
ItemsFound == batch \cap BadURL = {} /\ (InvalidEntry => batch \subseteq InitSegment)

\* faulty: what has been chosen stays in the list
TrimNothing ==
  /\ thread = "planned" /\ ItemsFound
  /\ thread' = "sleeping"
  /\ ingesters' = Later(ingesters, Cardinality(batch))
  /\ UNCHANGED <<cancel, asked, extras, upcoming, fetchTime, batch, planned>> /\ OnlyThread

\* faulty: no ingester is added to the list
TrimWithoutIngesters ==
  /\ thread = "planned" /\ ItemsFound
  /\ thread' = "sleeping"
  /\ extras' = {x \in extras : x.url \notin batch}
  /\ UNCHANGED <<cancel, asked, upcoming, fetchTime, batch, ingesters, planned>> /\ OnlyThread

\* removeExtraPullObjectsEntry() for each item: by then the event thread may have
\* put a new list in place.  There are as many ingesters as items (line 160).
Trim ==
  /\ thread = "planned" /\ ItemsFound
  /\ thread' = "sleeping"
  /\ extras' = {x \in extras : x.url \notin batch}
  /\ ingesters' = Later(ingesters, Cardinality(batch))
  /\ UNCHANGED <<cancel, asked, upcoming, fetchTime, batch, planned>> /\ OnlyThread

\* segmentURL() throws before all of the items, or some, have been removed
InvalidSegmentURL ==
  /\ thread = "planned"
  /\ batch \cap BadURL # {} \/ InvalidEntry
  /\ thread' = "ended"
  /\ \E done \in SUBSET batch : extras' = {x \in extras : x.url \notin done}
  /\ batch' = {}
  /\ UNCHANGED <<cancel, asked, upcoming, fetchTime, ingesters, planned>> /\ OnlyThread

\* Lines 170-182, also after a cancellation: one item for each ingester, as long
\* as there are ingesters.
Hand ==
  /\ thread = "sleeping"
  /\ now >= fetchTime
  /\ \E given \in SUBSET batch :
       /\ ingesters <= Cardinality(given) \/ given = batch
       /\ Cardinality(given) <= ingesters
       /\ asked' = asked \cup {[url |-> u, at |-> now] : u \in given}
       /\ fetching' = fetching + (IF ManifestURL \in given THEN 1 ELSE 0)
  /\ batch' = {}
  /\ thread' = IF cancel THEN "ended" ELSE "plan"
  /\ UNCHANGED <<pull, moved, now, cancel, owner, lost, updating, handlerVars, upcoming, fetchTime,
                 ingesters, planned, events, arrived>>

Worker ==
  \/ WaitForHandler \/ ReadSegments \/ NothingToFetch \/ Choose
  \/ Trim \/ InvalidSegmentURL \/ Hand

-----------------------------------------------------------------------------
(* The end of the controller, and time *)

\* faulty: the destructor joins without telling the thread
AbortUntold ==
  /\ owner = "using"
  /\ owner' = "joining"
  /\ UNCHANGED <<pull, moved, now, cancel, asked, lost, updating, handlerVars, threadVars, sourceVars>>

\* abort(), from the destructor
Abort ==
  /\ owner = "using"
  /\ owner' = "joining"
  /\ cancel' = TRUE
  /\ UNCHANGED <<pull, moved, now, asked, lost, updating, handlerVars, threadVars, sourceVars>>

Join ==
  /\ owner = "joining"
  /\ thread = "ended"
  /\ owner' = "gone"
  /\ UNCHANGED <<pull, moved, now, cancel, asked, lost, updating, handlerVars, threadVars, sourceVars>>

\* The unit of time is long compared with what the thread does between two sleeps.
Idle ==
  \/ thread = "ended" /\ now < MaxTime
  \/ thread = "waiting" /\ handler = <<>> /\ ~cancel /\ now < MaxTime
  \/ thread = "sleeping" /\ now < fetchTime

Tick ==
  /\ owner # "gone"
  /\ Idle
  /\ now' = now + 1
  /\ UNCHANGED <<pull, moved, cancel, owner, asked, lost, updating, handlerVars, threadVars, sourceVars>>

HandleEvent ==
  MakeHandler \/ RefuseManifest \/ UpdateManifest \/ UpdateSegments \/ UpdateRefresh

Next ==
  \/ \E m \in Manifest : PushManifest(m) \/ FetchManifest(m)
  \/ RefreshNotRecognized
  \/ FetchFails
  \/ HandleEvent
  \/ Worker
  \/ Abort
  \/ Join
  \/ Tick

\* The two threads run, the destructor's caller goes on when the thread has ended,
\* and time passes.  Manifests need not arrive and the session need not end.
Fairness ==
  /\ WF_vars(HandleEvent)
  /\ WF_vars(Worker)
  /\ WF_vars(Join)
  /\ WF_vars(Tick)

Spec == Init /\ [][Next]_vars /\ Fairness

-----------------------------------------------------------------------------
(* Properties *)

TypeOK ==
  /\ pull \in BOOLEAN /\ moved \in BOOLEAN
  /\ now \in Nat
  /\ events \in Seq(Received)
  /\ fetching \in Nat
  /\ handler \in Seq(Manifest) /\ Len(handler) = Len(first)
  /\ first \in Seq(Received) /\ Len(first) <= 1
  /\ extras \subseteq Extra /\ updating \in UpdatingAt
  /\ thread \in ThreadAt /\ upcoming \subseteq Media
  /\ fetchTime \in Nat
  /\ batch \subseteq URL
  /\ ingesters \in Nat
  /\ cancel \in BOOLEAN
  /\ owner \in {"using", "joining", "gone"}
  /\ asked \subseteq [url : URL, at : Nat]
  /\ arrived \in Nat
  /\ planned \subseteq Media
  /\ lost \in BOOLEAN

\* No segment is asked of the server before it is available there, whatever the
\* manifest updates that came while the thread was asleep: the server would
\* answer 404 and no ingester tries again (DASHManifestHandler.cc:97-134,
\* ObjectManifestController.cc:170).
NothingTooEarly ==
  \A a \in asked : a.url \in Segment => a.at >= AvailableFrom[a.url]

\* The refresh of a PULL session's manifest is in one place at a time: among the
\* extra objects, in the thread's hands, being fetched or being handled.  No
\* manifest is fetched twice at a time.
InHand == ManifestURL \in batch \/ \E x \in extras : x.url = ManifestURL
OneRefresh ==
  pull => /\ fetching + Len(events) <= 1
          /\ InHand => fetching = 0 /\ events = <<>>
          /\ \A x, y \in extras : x.url = ManifestURL /\ y.url = ManifestURL => x = y

\* Updating the handler while the thread is between choosing the objects and
\* removing them from the list never drops the next refresh: it is dropped only
\* by an ingester or a manifest that fails, or when the thread ends, at a bad URL or
\* because it found nothing to fetch.  Nothing would ever put it back
\* (DASHManifestHandler.cc:113, :140-149, :192-195).
RefreshGoesOn ==
  pull /\ handler # <<>> /\ UpdatePeriod[handler[1]] > 0 /\ ~lost /\ thread # "ended"
    => InHand \/ fetching > 0 \/ events # <<>>

\* The manifest is not asked for again while the response that the first one came
\* in is fresh, whatever updates and sleeps come in between.  The lifetimes of later
\* responses are not looked at: m_manifest stays the first manifest
\* (DASHManifestHandler.cc:140-149, :77-80).
RefreshHonoursCache ==
  \A a \in asked : a.url = ManifestURL =>
    first # <<>> /\ a.at >= first[1].time + Lifetime[first[1].manifest]

\* Whatever the thread slept on, what it asks for is not asked too early: segments
\* not before they are there, the manifest not while the first response is fresh
\* (DASHManifestHandler.cc:97-149).
NothingAskedEarly == NothingTooEarly /\ RefreshHonoursCache

\* The media segments that were still to come when the thread looked at the
\* manifest are asked for when they become available: it neither sleeps through
\* one nor finds too few ingesters (ObjectManifestController.cc:148-182).
NoSegmentMissed ==
  \A s \in planned :
    AvailableFrom[s] < now /\ thread # "ended"
      => \E a \in asked : a.url = s /\ a.at = AvailableFrom[s]

\* What is in the list of extra objects is fetched, or the session or the thread
\* ends first.
ExtrasFetched ==
  \A u \in InitSegment \cup {ManifestURL} :
    (\E x \in extras : x.url = u)
      ~> (\A x \in extras : x.url # u) \/ cancel \/ thread = "ended"

\* A session that is deleted ends, although its thread does not wake up for it:
\* it sleeps until its next fetch and hands over what it has
\* (ObjectManifestController.hh:47-53).
AbortEnds == owner = "joining" ~> owner = "gone"
=============================================================================
