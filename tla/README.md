# A TLA+ model of the 5G MBS Transport Function

The MBS Transport Function (MBSTF) receives objects over HTTP (it pulls them or
they are pushed to it), keeps them in a store and multicasts them with FLUTE.
One distribution session has one controller object, and the controller owns
everything else: store, ingesters and packager, each with a thread of its own,
wired together by an event bus. Most of what can go wrong is between those
threads, and that is what these modules are about.

Source paths below are relative to `src/src/mbstf/`.

## The system

| Component | State | Operations | Talks to | Hard behaviour | What makes it correct |
|---|---|---|---|---|---|
| `SubscriptionService`, `Subscriber` | two registries, an event queue, a thread; each subscriber the set of services it is registered with | subscribe (all / named), unsubscribe, send synchronously, post asynchronously, destroy either side | base class of store, packager, push ingester (services) and controllers (subscribers) | the mutex is released around every call of a subscriber; registries change during a dispatch; destructor joins the thread | no dangling pointer on either side, nobody skipped, events in order and once, silence after destruction |
| `ObjectStore` | map of objects to data and metadata | addObject, deleteObject, getters that return references | posts ObjectAdded, ObjectDeleted | references outlive the lock | data in use is not deleted |
| `ObjectListPackager` | list ordered by deadline, worker, the transmission in progress | add, worker loop, completion callback, abort | reads the store, drives `LibFlute::Transmitter`, posts ObjectSendCompleted | mutex released between reading and popping the first item | each object sent once, in order, completion reports name the right object |
| `ObjectController` | store, ingesters, packager | replace the packager, handle ObjectSendCompleted | all of the above | handlers run on the event threads of store and packager | objects are reclaimed when, and only when, they have been sent |
| `ObjectListController` | constructor progress | handle ObjectAdded, ObjectPushStart | " | the ingesters run before the packager exists | what is ingested is sent |
| `ObjectStreamingController` | manifest handler | the same, with manifests | " | constructor and event thread both create the packager; a bad manifest removes it | the same, manifests stay |
| `ObjectManifestController`, `DASHManifestHandler` | scheduling thread, manifest | compute and schedule the next fetches | pull ingesters | sleeps that nothing interrupts; handler replaced under it | segments are fetched in time, the thread ends |
| `PullObjectIngester`, `Curl` | fetch list ordered by deadline | fetch, refetch, worker | store | lock released during the download | every item fetched or dropped for its deadline |
| `PushObjectIngester` | HTTP daemon, requests in progress | handle a request, stop | store, controller (synchronous ObjectPushStart) | two threads and one mutex, stop against requests | no deadlock, only validated uploads stored |
| `DistributionSession`, `ControllerFactory`, `Context` | sessions, load | every request of the API, choice of a controller | controllers, Open5GS | partial failure of creation, exceptions as control flow, a deletion that blocks | answers tell what happened to the registry |
| `BitRate` | a number and a unit | parse | session, load | exceptions of the parser | rates of registered sessions can be parsed |
| `Context::parseConfig()`, `App::initialise()` | servers by kind, addresses of the NF service | read the configuration, announce | Open5GS | an address named twice, two address families | an address has one server, only servers of the API are announced |
| `App`, `MBSTFEventHandler`, `Open5GSNetworkFunction` | event queue, event thread, event handler | start, dispatch, terminate | everything above | termination against the event thread | requests are answered, termination ends |
| Open5GS wrappers, `NfServer`, utilities | none of their own | - | Open5GS | - | - |

libflute, libmicrohttpd, libcurl and libmpd++ are external: their sources are
not in the repository.

## Modules

    EventChannel                 abstract: a FIFO channel of events with a closing end
      ^ implemented by
    SubscriptionService          the event bus     -- SubscriptionServiceProofs
    SendQueue                    abstract: what a packager owes its controller
      ^ implemented by
    ObjectListPackager           the FLUTE sender  -- ObjectListPackagerProofs
      ^ INSTANCE
    ObjectController             store, packager and the handler they share
      ^ EXTENDS
    ObjectListController, ObjectStreamingController -- ObjectStreamingControllerProofs
    ObjectManifestController     the scheduling thread and the manifest handler
                                 -- ObjectManifestControllerProofs
    PushObjectIngester           the HTTP server   -- PushObjectIngesterProofs
    FetchQueue                   abstract: items served once, earliest deadline first
      ^ implemented by
    PullObjectIngester           the HTTP client's list and worker
                                 -- PullObjectIngesterProofs
      ^ EXTENDS
    Curl                         one HTTP client object over many downloads
    SessionRegistry              abstract: what the API promises its clients
      ^ implemented by
    App                          start, event thread, termination -- AppProofs
      ^ EXTENDS
    DistributionSession          requests, controllers' constructors, registry, load
    Configuration                from the configuration file to servers and NF service
                                 -- ConfigurationProofs
    MC*                          values of constants for TLC

Operators marked *faulty* in comments are deliberate mistakes, each a plausible
bug in the code it stands beside. Nothing uses them: substituted for the correct
definition, they show that a property would notice.

### SubscriptionService

`allSubs` and `named` are `m_allEventSubscriptions` and
`m_namedEventSubscriptions`; `linked` holds the subscribers whose
`m_subscriptions` names the service; `queue`, `thread`, `cancel` are
`m_asyncEventQueue`, `m_asyncThread`, `m_asyncCancel`. Subscribers are numbers,
because `std::set<Subscriber*>` is ordered by address and a dispatch's iterator
moves to the least greater element of the set *as it is then*.

A dispatch (`dispatch[d]`) is the program counter of `sendEventSynchronous()` in
one thread: `start` before the registries are read, `named` and `all` while a
subscriber of that pass is being called (`cur`), `sent` when the loops are done.
The code holds the mutex except during the call, so one step is what happens
between two calls; registration, posting and other dispatches interleave at the
calls. `called` and `owed` are history: who was called, and who was in the
audience when the dispatch began and has stayed. `SubscribeNamedCheck` and
`SubscribeNamedInsert` are the two halves of `subscribe(names)`: its test is made
before the mutex is taken. `BeginDestroy` and `FinishDestroy` are the destructor
on either side of the join.

Contract of the callers, met by every caller in `src/`, and written in guards: a
subscriber is not removed from the set a dispatch is walking, or destroyed,
during its own `processEvent()` (this invalidates the iterator); a service is not
used once its destruction has begun, except by its own thread.

### ObjectListPackager

`worker` is the program counter of `doObjectPackage()`. `front` to `sent` is the
stretch between `unlock()` and `lock()` (lines 162-192) during which `add()` may
run. `m_queued` is set there before `Transmitter::send()`, which may throw (`SendFails`):
it then stays set with nothing on air (`Jammed`), and nothing is sent any more. `io` is `run_one()`, in which the transmitter either ends a transmission
(`Complete`, the callback of lines 138-152) or does something else (`RunOther`).
The list is `items`, the reference taken before unlocking `held`. `Before` is
the place a stable sort gives an item appended to a sorted list. An item without
a deadline has the deadline `NoDeadline`, which sorts last, as in the comparison.
`Provide` and `Collect` close the module for checking it alone: a controller
stores an object, adds it, and deletes it when it is reported.

### ObjectController, ObjectListController, ObjectStreamingController

The store is a set of object identifiers and the queue of its events. Events of
store and packager are queues because `SubscriptionService` is shown to be one;
an event with no subscriber disappears when its turn comes. Identifiers are
never used twice (`nextObjectId()` makes UUIDs), so `ingested` is both history and
the generator. `SetPackager` replaces the packager as a single step: what the old
packager's threads do while it is destroyed can be ordered before the step,
because nothing else reads its state any more.

The constructors are sequences of steps (`phase`), since the store's event thread
runs between them. In `ObjectStreamingController` the event thread reads
`packager()` in `ObjectAdded` and acts on it in `MakePackager`: the constructor's
`SetObjectListPackager` may come between. (The two accesses to the `shared_ptr`
are a data race; each is taken to be atomic.) `crashed` is the constructor
dereferencing a packager that the event thread has unset. An unreadable manifest
makes `update()` throw, and the handler of the event unsets the packager. Before there is a
manifest handler it has two outcomes: when no handler recognises the manifest,
`makeManifestHandler()` returns a null pointer and the object is added to the packager
all the same (`ObjectAdded`); when one recognises but cannot parse it, the
`runtime_error` is dropped by the event loop and nothing is added
(`UnreadableManifestAdded`). Whether a manifest can be read is a property of the
object (`Unreadable`): libmpd++ decides.

### PushObjectIngester

Three threads and one mutex. `session` is the program counter of the thread that
constructs the ingester, publishes its address (`initPushObjectIngester()`) and at
last destroys it; `worker` that of `workerLoop()`, which starts the daemon and
ends; `http` that of libmicrohttpd's thread inside a callback, `select` between
two. `mtx` is who holds `m_mtx` across steps; sections that take and release it
within a step only test it. `handle` says whether `m_workerThread` has been
assigned: the worker can run before it is, so `abort()` in the worker is two steps
(`AbortSelf` reads `get_id()`, `JoinableSelf` reads `joinable()`), and `crashed` is
the thread that joins itself. `getIngestServerPrefix()` runs in the session's
thread and in the daemon's (`asking[t]`), without a lock after its wait; each
access to `m_sockaddr` and `m_urlPrefix` is taken to be atomic. Where the system does
not tell an address it returns the empty string (`PrefixFails`), which the session
publishes, and the daemon's thread asks again at each use (`UrlWithoutPrefix`). `http =
"crashed"` is `std::stoul()` leaving the first callback of a request with an exception
(`FirstCallThrows`): the process ends.

A connection carries one request. What the client has sent (`upload`, `ended`) and
what its `Request` has (`body`) are separate, and clients may leave at any time
(`CompleteRequest`). libmicrohttpd is external: from the way the code uses it, it
calls `handle_request()` first with headers, then with each block, then with none;
it closes all connections, with their completion callbacks, and ends its thread
before `MHD_stop_daemon()` returns. A block is a number; headers are left out,
except for whether the URL is valid, the method allowed and the lifetime a number.
Connections are numbered in the order in which the daemon first hears of them.

### Curl and PullObjectIngester

`Curl` has the members of the one `Curl` object an ingester uses (`curl`).
A download is a list of header lines as libcurl passes them on: one block for each
response on a chain of redirects, then trailers. `Received` is
`headerCallback()` on the first lines of it, so a download may break off after any
line (`Failed`). `RedirectOf` and `MaxAgeOf` say what the lines mean by definition,
not by a state machine; properties compare the two. Whether the status is an
error is not looked at by the code, nor here: a "not found" page is stored.

In `PullObjectIngester` the list is `fetchList`; `Sorted` is what a stable sort
with the code's comparison yields. `took` and `get` are the stretch without the
mutex, in which `Fetch`, `FetchWaiting` and `FetchAgain` change the list. Time is
`now`; libcurl's timeout is `until`, which `Tick` does not pass while a download
is on. Reading the clock and starting the download are one step, so an item whose
deadline is in the same tick is not told apart from one that is late.

### ObjectManifestController

Two threads without a lock between them. `thread` is the program counter of
`workerLoop()`; `plan` to `planned` are in the call of `nextIngestItems()`, which reads
`m_mpd` (`ReadSegments`), then the list of extra objects (`Choose`), and at last removes
the chosen ones from that list (`Trim`). `updating` is the program counter of
`update()` on the store's event thread: the new manifest (`UpdateManifest`), the new list
(`UpdateSegments`), the refresh (`UpdateRefresh`), in any order with the steps above. Each
access to `m_mpd` and to the list is taken to be atomic; in the code they are data
races. An event stays in `events` until it has been handled, and events are handled
until the destructor has joined the thread (`HandlesEvents`). Any entry of the list may
have a URL that `segmentURL()` throws at, and ends the thread when the search for an
item comes across it (`InvalidEntry`). `fetchTime` and `batch` are what the thread sleeps
for and holds;
`Hand` gives the items to the ingesters, one each. `extras` is `m_extraPullObjects`:
initialization segments and, in a PULL session, the refresh of the manifest, which
nothing else remembers. `first` is `m_manifest`, which stays the first manifest.

A manifest stands for what it announces (`Announced`, `AvailableFrom`), its update
period and the cache lifetime of its response; libmpd++ answers `NextSegments`. A
fetched manifest comes back as an event, fails, or, when its URL redirects
permanently (`moved`), is not recognized. `asked`, `planned` and `lost` are history.
A tick is long against what the thread does between two sleeps.

### DistributionSession and App

A request has the parts of its path and a body: a session, no JSON, or JSON the
generated classes refuse. `Post`, `Get`, `Delete` and `Options` give the status of the
answer as `processEvent()` does, in the order of its tests. A session consists of
what the constructors of the controllers look at; a constructor's result is `"made"`
or the kind of exception, and `makeController` tries them in the order of their
priorities. `Readable` and `Parse` are `BitRate::operator=`. `AddSession` is
`std::map::insert`, which does nothing for an identifier in use.

`App` has the two threads. `main` is where `app_initialize()` or `app_terminate()` is,
`thread` where the event thread is: in the poll, popping, between the test of
`m_eventHandler` and its call, in the handler, or in a destructor. There are three
ways to one, and in each `doomed` is the session: a DELETE, which is answered when the
destructor has returned (`destroying`); a POST with an identifier in use, whose session
nobody has when `processEvent()` returns, after the answer (`dropping`); and a POST that a
constructor refuses when its ingesters run (`refusing`, before the answer; `Unwinds`). Two
ingesters of two constructors are one wait. `dying` holds the sessions that the main thread
destroys with the `Context`. The constructor of a PUSH session waits for its HTTP daemon;
in `App` it returns, which `AddressPublished` says of it.

Termination takes the handler, then the `Context` with its sessions, then the queue from
under the event thread; `thread = "crashed"` is the use of what has gone. `ControllerCrashes`
(`"killed"`) is the end of the process in a controller, which the modules of the
controllers show: an ingester for uploads joins itself or throws in a callback
(`PushObjectIngester`), the constructor for STREAMING finds its packager gone
(`ObjectStreamingController`). In `App` it may happen to any session of that kind at any
time. `load` is added to as in `updateNFLoad()`.

### Configuration

One action for each kind of item in the section `mbstf`, read in order (`next`).
An item with addresses is the first node of each family that its names, addresses
or device resolve to; `CheckForAddr` compares first addresses. `ReadServers` does
both families' parts, of which the second works on the IPv4 node, as in the code,
and `UseMissingNode` is the case without one. A `serverResponseCacheControl` without
contents ends the reading of the whole section (`EmptyCacheControl`).

## Runs

| Run | Question | Bounds | Result |
|---|---|---|---|
| `event_bus` | are registries and dispatches right under every interleaving with registration and destruction, and is the service an `EventChannel`, with liveness? | 2 subscribers, 2 names, 3 events, one registering and one dispatching thread | five properties hold, 1,054,352 states |
| `packager` | list order, held reference and completion reports with deadlines | 3 objects, 3 deadlines, 4 adds | hold, 26,924 states |
| `packager_queue` | is the packager a `SendQueue`, with liveness? | 2 objects, 4 adds, no deadlines | holds, 585 states |
| `single_session` | does a SINGLE session send what it ingests? | 3 objects | holds, 1,544 states |
| `streaming_session` | safety and liveness of a STREAMING session | 4 objects, 2 manifests, one unreadable | hold, 126,394 states |
| `manifest` | are segments and refreshes fetched in time, without loss, refreshes not while the first response is fresh, and does the thread end? | 4 manifests (one unreadable, one without update period), 4 media segments and 2 initialization segments, one bad URL of each, 3 arrivals, clock up to 3 while idle | hold, 848,642 states |
| `push` | are uploads stored whole and answered truly, is the list of requests right, does the session get its address, how far do the races of the start reach? | 2 connections, the first request of 3 kinds, the second good, 1 block | hold, 419,441 states |
| `push_stop` | does the destructor end? "Then stop the HTTP daemon" | 1 connection | **violated** |
| `pull_queue` | is the ingester a `FetchQueue`, in time, with an abort that ends, and do data, tag and redirect come from an object's own response? | 3 objects, 2 deadlines, 3 items, 3 instants, 2 answers, lists of 0 or 2 at construction | holds, 349,662 states |
| `pull_headers` | do its cache lifetime and media type? | no deadlines | **violated** |
| `sessions` | is the program a `SessionRegistry`, does it answer, does it end, and does it use nothing of its own that has gone before that? | 2 identifiers, 8 sessions (5 refused), 13 kinds of request, 3 requests | hold, 401,182 states |
| `servers` | does every address get one server, and does the NF service announce the right ones? | 4 addresses, 10 items, sections of up to 3, room for 2 addresses | hold, 33,038 states |

Why the bounds are enough. Two subscribers let a dispatch stand on one while the
other, before or after it, changes; two names give a subscriber one name to keep
and one to lose; events only matter one at a time, and three are in the
queue, in hand and dropped. The proofs cover any number of each. Four adds over
three objects re-use an object that
was sent and let two items overtake a held one. Four objects in a streaming
session are a first manifest, a bad one and one ordinary object on either side.
The manifests are a first one, an update that withdraws a segment and adds an
earlier one, one that is refused, and one whose initialization segment has a bad URL; the two representations end at different
times, so that a choice has one segment, two, or none. Three requests are two that
compete for an identifier and one that observes them, with the termination anywhere
between. Sections of three items let an address be named by another kind of server
before or after the API's, and fill the NF service.
Two connections let one request be added, refused or removed while another is
open, with the shutdown before or after either; a second block repeats the first, and
the kinds of request that the second one is not only repeat what the first one does.
Three downloads let a response with every header be followed by one without, with
a failure in between. The answers are one with all headers behind a temporary
redirect, and one with none behind a permanent redirect, whose trailer looks like a
header. The artificial bounds are `MaxPosts`, `MaxAdds`, `MaxBlocks`, `MaxAsks`,
`MaxTime`, `MaxManifests`, `MaxRequests` and `MaxItems`; deadlock is checked in
`event_bus` and off where
the system stops by design (an aborted packager or ingester, a session with nothing
more to ingest, a program that has ended).

Fairness. Each thread runs when it can (weak fairness): the service's thread,
the packager's worker, the scheduling thread, the event thread, constructors and
destructors; nothing makes clients post, ingesters ingest or anyone destroy anything.
A transmission ends after finitely
many other handlers of the io_service: strong fairness of the completion, since
it is enabled only while the worker is in `run_one()`. The push ingester's worker
retries a daemon that does not start for ever; that some attempt succeeds is the
one assumption about the machine (strong fairness of `DaemonStarts`), and without
it `getIngestServerPrefix()` would wait for ever. Clients are not fair: they may
stop sending. A download ends because libcurl has a timeout, which is weak fairness
of the pull worker. Time passes (`Tick`) only where a thread sleeps until an instant,
and manifests need not arrive. Once `app_terminate()` has begun, the main thread goes
on; that it begins is not assumed. A session's destructor returns unless the session is a
PUSH session, because `push_stop` shows that those may not: on the event thread
(`EventThread /\ ~JoinsPushIngester`) and on the main thread (`ContextDestroys`).

What the runs say about the code:

- A dispatch never skips or repeats a subscriber within a pass, even though
  the iterator survives arbitrary changes of the set around it. A subscriber that
  changes from names to all events between the two passes is called twice.
- With deadlines the packager may pop an item other than the one it sent: the
  overtaken item goes out twice and the overtaking one never. No component gives
  an item a deadline, and without deadlines the packager is an exact queue, until a
  `send()` throws: then it sends nothing more, and the liveness properties except that
  (`SendThrew`).
- A streaming session reclaims objects only while it is subscribed to its current
  packager. A packager created by the event handler (after an unreadable
  manifest, or in the race with the constructor) is not subscribed to, and the
  objects it sends stay in the store; `EventuallyReclaimed` says `followed` for
  this reason. For the same reason `EventuallySent` starts at `ready`: a SINGLE
  session drops objects that arrive before its packager exists.
- A manifest update while the scheduling thread is between choosing and removing does
  not lose the refresh, whichever of the three writes of `update()` it falls between. What does
  lose it, for good, is a fetch that fails, an unreadable manifest, a
  refresh behind a permanent redirect (`lost`), and a segment with a bad URL or a moment
  with nothing to fetch, such as that between the last two of the writes when no segment is to
  come, which end the thread (`startWorker()` finds its handle set and
  does not start it again). The properties except these cases by name.
- The time of a refresh is counted from the first manifest, also after updates: it is
  never within the lifetime of the first response (`NothingAskedEarly`), and may be
  within that of a later one.
- The abort of a session waits until the thread's sleep is over and what it holds
  has been handed to the ingesters.
- Answers and registry agree, in the order of the requests. A second session with
  an identifier in use is answered with 201 and dropped (`SessionRegistry!Create` says
  so).
- A DELETE, a POST with an identifier in use and a POST that is refused when its ingesters
  run keep the event thread until the session's threads have ended. With a PUSH session
  this may be for ever: later requests are then not answered and termination does not end.
  `RequestsAnswered` and `TerminationEnds` allow for exactly this (`JoinsPushIngester`, and a
  PUSH session in `dying` for the main thread).
- `app_terminate()` resets what the event thread uses before it stops that
  thread: `CallResetHandler`, `UseResetContext` and `EndDeleteWithoutContext` are
  reachable. Else termination ends, with requests unanswered. Before the handler is
  taken, the event thread finds what `App` owns, and no rate in the registry is one that
  cannot be parsed (`NothingGoneInService`): the handler is registered after the `Context` and all it needs. That
  no request ends the program is not true: `ControllerCrashes` is in the model, and what the
  other properties say holds until then.
- An address that several sections name gets one server, of the kind named
  first; a distribution session API configured with the address of an earlier
  section has none and is not announced. Two sections that leave the port of one address to the
  system count as the same. IPv6 addresses never get a server, and a section with IPv6
  addresses only, or `no_ipv4`, is the null pointer of `UseMissingNode`.
- A push ingester that is destroyed while a request is in progress does not
  come back: `stop()` holds the mutex that the daemon's thread needs to end. Should
  it come back, `QuietWhenStopped` says, nothing is left running.
- Three races of the start are in the model, and it is stated how far they reach.
  Requests that start before the controller has subscribed are not validated, those
  that start later are (`CheckedOnceSubscribed`). The session publishes the wildcard
  address (`baseUrl = "any"`) if an upload is processed before its first caller reads
  `m_sockaddr`, since that calls `getIngestServerPrefix()` again; without such an upload it
  never does (`AddressHasRoute`). And the worker joins itself (`worker = "crashed"`) if
  `m_workerThread` is assigned between the two reads in its `abort()`, and only then: this
  (`JoinsOthersOnly`) is proved and not in a run, where it would add much to the time.
- One `Curl` object leaves cache lifetime and media type of a response to the
  next; data, entity tag and redirect it does not.

The two violated runs are listed as findings with the comments they
contradict. One more thing nobody does: a subscriber
registered by two threads at once can end in both registries (hence `OneCaller`
below).

## Proofs

`SubscriptionServiceProofs` (any subscribers, names, threads, numbers of events):

- `TypeCorrect`: `Spec => []TypeOK`.
- `NothingDangles` and `NobodyIsRegisteredTwice`: `NoDangling` (of subscribers and of
  services) and `ExclusiveRegistration`, assuming
  one registering thread (`OneCaller`), which
  is necessary: TLC violates `ExclusiveRegistration` with two. Neither is inductive: the
  induction is on `RegistriesAgree` (a subscriber notes the service exactly when
  it is registered, and calls past the unlocked test are for living subscribers
  that are not in the all-events registry) with `ExclusiveRegistration`.
- `DestroyedIsQuiet`: `QuietWhenGone`, by `ThreadsAgree`.
- `NobodyIsSkipped`: `NobodySkipped`, by `OwedIsAhead`: whoever is owed the event
  has been called or is ahead of the iterator. It needs `ExclusiveRegistration`
  because an upgrade moves a subscriber from one pass to the other.
- `IsEventChannel`: the safety part of the refinement of `EventChannel`. The step that
  takes an event maps to a channel's only with `ClosingStops`: while the destructor
  waits, the thread has been told to stop or is not running, so that it takes no event
  after the one in hand.

`ObjectListPackagerProofs` (any objects, deadlines, list length): `PackagerTypes`,
`CompletionsAreRight`, `HeldReferenceIsValid` and `ListStaysSorted`, all from one
inductive invariant. Its `Holding` conjunct ties the worker's position to what it
holds: the list keeps the held item, and until it is sent nothing is on air and
`m_queuedObjectId` names it. `SortedInsertSorts` is the lemma about `add()`; that
an insertion place exists (`BeforeExists`) is a least-element argument. `IsSendQueue` is
the safety part of the refinement of `SendQueue`, for items without deadlines
(`NoDeadlinesGiven`, which holds of every caller in `src/` and without which TLC violates it):
then what `add()` inserts goes last, so the held item is still the first of the list when it
is popped (`FirstHeld`).

`ObjectStreamingControllerProofs` (any objects, manifests, unreadable or not):
`TypeCorrect`, `DataIsThere`, `SentAsIngested` and `OnlySentObjectsGo`, all from one
inductive invariant, which follows an object through its stages: an event of the store, the
hand of the event thread, the packager's list, on air. `InOrder` says that what the later
stages have was ingested before what the earlier ones have, and each is in order, so that a
packager that is replaced with its whole list loses objects and never repeats or reorders
them. `Sending` ties the packager's worker to what it holds, as above. `Reporting` says
that completions wait in order, behind none that is still on air; `Keeping` that a
manifest is marked `keepAfterSend` before it is on its way; `Leaving` that what has left
the store was sent, is not on air, and has no completion still to be handled.

`PushObjectIngesterProofs` (any number of connections, any requests, block counts): the type
invariant, `AllOrNothing`, `ActiveRequestsAgree` and
`QuietWhenStopped`. The first two of these safety properties need `Requests` beside them (what
is stored, answered or refused is so for a connection in the matching state, and the
body never exceeds the upload); the last needs `Threads`: who holds the mutex at
each point of the session and the worker, and that a session past the join has a
worker that has ended. `PublishedAddressHasRoute` needs `Routes`: before an upload is
ready nobody but the session asks for the prefix, and it asks only when the daemon runs, so
that no new attempt of the worker to start one comes after it. `ChecksAfterSubscription` and
`NeverJoinsItself` are of the form `[](P => []Q)`; each is proved from a fact that, once
true, stays true (`Checked`, `Safe`).

`PullObjectIngesterProofs` (any objects, deadlines, lists and bounds) first shows
that `Sorted`, which counts the items ahead of each item, is a stable sort:
`Ahead` is a strict total order, so `Place` is an injection of the list's places into
themselves, and an injection of a finite set into itself is a surjection. The
operations on the list then keep `Numbered`, `FirstCome` and `Ordered`. From these
and `WorkerOK` (a download with a deadline ends by it) follow `TypeCorrect`,
`FetchedInOrder`, `StoredBeforeDeadline`, and `IsFetchQueue`, the safety part of the
refinement. The last needs that no two waiting items are equal, which the numbers
`ask` give, or removing one of them from the list would not remove it from the set.
`StoredIsServed` is `StoredAsServed` for any answers. What `headerCallback()` leaves after n lines
is a recursive function; that it exists (no number of lines is the least without one)
and keeps `AfterLines` (none is the least for which it fails) is `ReceivedIs`. `AfterLines`
relates the parser's state to the lines: it is in the headers exactly when a block is
open, has that block's status, and has the last permanent redirect so far. It needs what libcurl
guarantees, that the headers of a response end before the next response begins
(`EachEnds`, in `AnswerAssumption`).

`ObjectManifestControllerProofs` (any manifests, segments, availability times,
update periods): `TypeCorrect`, `NeverTooEarly`, `RefreshIsUnique`, `RefreshIsKept` and
`SegmentsInTime`. Both parts of `NothingAskedEarly` need more than themselves. That of the
segments needs `Batch` (nothing the thread holds becomes available after `fetchTime`, the
clock has not passed `fetchTime` while the thread sleeps, there are ingesters for the whole
batch); that of the refresh needs `Fresh`, which says the same of the refresh in the list and
of the one in hand. `OneRefresh` needs `Moving`: a refresh the thread sleeps on is no longer
in the list. `NoSegmentMissed` is
strengthened to `Segments`: every planned segment was asked for at its time or waits,
behind one of the `upcoming`, in the batch or for a later one. `Listed` says of `update()` that
its event stays in `events` while it runs, so that between two of its writes `OneRefresh`
counts the refresh once and `RefreshIsKept` does not miss it. That `Choose` finds a least time is `EarliestIsLeast`, a
least-element argument.

`AppProofs` (any sessions, requests and number of them): `TypeCorrect`,
`CreatedWhenServable`, `IsRegistry`, the whole refinement of `SessionRegistry` (which has no
fairness), and `OwnObjectsInService`: `NothingGoneInService` by `InService` (the handler is
there only while the main thread runs the program, and then the `Context` is) and
`RatesReadable`, which a constructor's refusal keeps; controllers that end the process are
not its subject. `FactoryIsRight` and `StatusTruthful` are the
lemmas about the pure part: what the constructors accept is `Servable`, and what a
status says. The induction is on `Held` (which request the event thread has where),
`Orders` (numbers grow from the answers over the current request to the queue, hence
answers come in order) and `Erasing` (a session is in the map under its
identifier, and not while it is being deleted).

`ConfigurationProofs` (any addresses, items and bounds): `TypeCorrect`, `FirstServes` and
`AnnouncesItsOwn`. Neither property is inductive; the induction follows the items of the
section. `Serving` says that exactly the addresses read have a server, none two, and each of the
kind of its first item, so that `checkForAddr()` tells whether an item is the first
(`CheckTellsFirst`). `APIServersInOrder` says that the servers of the API are the nodes
of the items in `APIItems` in the order of the file. `FlattenSeqType` is the lemma about
what is announced.

Only model-checked: everything about liveness (`EventuallySent`, `EventuallyReclaimed`,
`AddressPublished`, `UploadAnswered`, `ExtrasFetched`, the two `AbortEnds`,
`RequestsAnswered`, `TerminationEnds`, and the fairness in `ImplementsChannel`,
`ImplementsQueue` and `ImplementsFetchQueue`), which the prover cannot do: fairness and ENABLED are
outside it. Every safety property that a passing run checks is proved, and the safety part of each
refinement. `TypeOK` of
`ObjectListController` states its types and is not a property of a run.

## Not modelled

- The destruction of a controller's members one by one: `~ObjectController()` destroys
  packager, ingesters and the store's objects while the store's event thread may be in
  a handler that uses them. `App` has the destruction as one wait, which may take for ever;
  `ObjectManifestController` has the events that are handled while the scheduling thread is
  joined.
- The constructor of a controller in `App`: it is one step, between whose beginning and end the
  process may end; that an ingester for uploads gets its address there is `AddressPublished`.
- `ObjectStore`'s `isStale`, `getStale`, `removeObject(s)`: they have no caller.
- Events of the NRF client and of Open5GS's timers, whose state machines are Open5GS's;
  comparison and formatting of bit rates, which have no caller.
- Copying and moving of subscribers and services, and unsubscribing by name at the
  service: nothing in `src/` does it.
- `load` only grows; the repository states no bound that could be checked.
- Open5GS wrappers, `NfServer` and the utilities (no state of their own, or formatting),
  and generated API code.
