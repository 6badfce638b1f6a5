------------------------- MODULE PullObjectIngester -------------------------
(***************************************************************************)
(* The PullObjectIngester: a list of items ordered by deadline and a       *)
(* worker that downloads the first one (PullObjectIngester.cc/.hh,         *)
(* ObjectIngester.cc/.hh).  The list's mutex is released while it does;    *)
(* a download ends before the deadline of its item or after ten seconds.   *)
(*                                                                         *)
(* Time is a number that ticks.  Nothing is told apart that happens in     *)
(* one tick, so the worker's reading of the clock and the start of the     *)
(* transfer are one step.                                                  *)
(***************************************************************************)
EXTENDS Curl, FiniteSets

CONSTANTS
  Object,          \* object identifiers, each given out once by nextObjectId()
  Deadline,        \* deadlines that callers give
  NoDeadline,      \* an item without a deadline sorts after every deadline
  DefaultTimeout,  \* the timeout of an item without a deadline
  Initial,         \* lists that an ingester is constructed with
  MaxAsks,         \* bound: items ever put in the list
  MaxTime          \* bound: the last instant

ASSUME DeadlineAssumption ==
  /\ NoDeadline \in Nat /\ DefaultTimeout \in Nat \ {0}
  /\ Deadline \subseteq 0..NoDeadline /\ NoDeadline \in Deadline
ASSUME BoundAssumption == MaxAsks \in Nat /\ MaxTime \in Nat /\ MaxTime < NoDeadline

VARIABLES
  fetchList,  \* m_fetchList
  worker,     \* where the worker is
  item,       \* <<>> or the item it took from the list
  until,      \* when the transfer in progress times out, 0 if there is none
  now,        \* the time
  cancel,     \* m_workerCancel
  owner,      \* the owner's thread: "using", "joining" or "gone"
  asks,       \* items put in the list so far; numbers them
  asked,      \* objects that have been asked for
  stored,     \* objects the store has
  last        \* <<>> or the addObject() just done, with the answer it came from

workerVars == <<worker, item, until, curl, stored, last>>
ownerVars == <<cancel, owner>>
vars == <<fetchList, workerVars, ownerVars, now, asks, asked>>

Item == [object : Object, deadline : Deadline, ask : 1..MaxAsks]

\* items are numbered as they are given
ASSUME InitialAssumption ==
  \A l \in Initial :
    /\ l \in Seq(Item) /\ Len(l) <= MaxAsks
    /\ \A k \in DOMAIN l : l[k].ask = k
WorkerAt == {"loop", "wait", "took", "get", "ended"}

-----------------------------------------------------------------------------
(* sortListByPolicy(): std::list::sort() is stable *)

Ahead(s, k, j) ==
  \/ s[k].deadline < s[j].deadline
  \/ s[k].deadline = s[j].deadline /\ k < j
Place(s, j) == 1 + Cardinality({k \in DOMAIN s : Ahead(s, k, j)})

\* faulty: the list is left as it is
Unsorted(s) == s

\* faulty: equal deadlines are not kept in order
SortedAnyhow(s) ==
  LET before(k, j) == \/ s[k].deadline < s[j].deadline
                      \/ s[k].deadline = s[j].deadline /\ k > j
  IN [p \in DOMAIN s |-> s[CHOOSE j \in DOMAIN s : p = 1 + Cardinality({k \in DOMAIN s : before(k, j)})]]

Sorted(s) == [p \in DOMAIN s |-> s[CHOOSE j \in DOMAIN s : Place(s, j) = p]]

-----------------------------------------------------------------------------
Init ==
  /\ \E l \in Initial :
       /\ fetchList = Sorted(l)
       /\ asks = Len(l)
       /\ asked = {l[k].object : k \in DOMAIN l}
  /\ worker = "loop" /\ item = <<>> /\ until = 0
  /\ curl = CurlNew
  /\ cancel = FALSE /\ owner = "using"
  /\ now = 0
  /\ stored = {} /\ last = <<>>

\* fetch(item), for an object with a new identifier
Fetch(o, d) ==
  /\ owner = "using" /\ asks < MaxAsks
  /\ o \notin asked
  /\ fetchList' = Sorted(Append(fetchList, [object |-> o, deadline |-> d, ask |-> asks + 1]))
  /\ asks' = asks + 1
  /\ asked' = asked \cup {o}
  /\ UNCHANGED <<workerVars, ownerVars, now>>

\* places in the list that are for object o
Waiting(o) == {k \in DOMAIN fetchList : fetchList[k].object = o}

\* fetch(object_id, deadline), the object waits already: it gets the deadline
FetchWaiting(o, d) ==
  /\ owner = "using" /\ Waiting(o) # {}
  /\ d # NoDeadline
  /\ LET k == CHOOSE k \in Waiting(o) : \A j \in Waiting(o) : k <= j
     IN fetchList' = Sorted([fetchList EXCEPT ![k].deadline = d])
  /\ UNCHANGED <<workerVars, ownerVars, now, asks, asked>>

\* fetch(object_id, deadline), it does not wait: a new item from its metadata.
\* getMetadata() throws if the store has no such object, and nothing happens.
FetchAgain(o, d) ==
  /\ owner = "using" /\ asks < MaxAsks
  /\ Waiting(o) = {} /\ o \in stored
  /\ fetchList' = Sorted(Append(fetchList, [object |-> o, deadline |-> d, ask |-> asks + 1]))
  /\ asks' = asks + 1
  /\ UNCHANGED <<workerVars, ownerVars, now, asked>>

-----------------------------------------------------------------------------
(* The worker: doObjectIngest() until m_workerCancel *)

\* faulty: m_workerCancel is not looked at
LoopForever ==
  /\ worker = "loop"
  /\ worker' = "wait"
  /\ last' = <<>>
  /\ UNCHANGED <<fetchList, item, until, curl, stored, ownerVars, now, asks, asked>>

LoopAgain ==
  /\ worker = "loop"
  /\ worker' = IF cancel THEN "ended" ELSE "wait"
  /\ last' = <<>>
  /\ UNCHANGED <<fetchList, item, until, curl, stored, ownerVars, now, asks, asked>>

\* wait_for() ends with the list still empty
WaitInVain ==
  /\ worker = "wait" /\ fetchList = <<>>
  /\ worker' = "loop"
  /\ UNCHANGED <<fetchList, item, until, curl, stored, last, ownerVars, now, asks, asked>>

\* the first item leaves the list and the mutex is released
TakeItem ==
  /\ worker = "wait" /\ fetchList # <<>>
  /\ item' = <<Head(fetchList)>>
  /\ fetchList' = Tail(fetchList)
  /\ worker' = "took"
  /\ UNCHANGED <<until, curl, stored, last, ownerVars, now, asks, asked>>

\* faulty: a timeout that is not positive is given to libcurl, where 0 is none
GetWhatever ==
  LET deadline == item[1].deadline
  IN /\ worker = "took"
     /\ until' = IF deadline = NoDeadline THEN now + DefaultTimeout
                 ELSE IF deadline > now THEN deadline
                 ELSE MaxTime
     /\ curl' = Reset
     /\ worker' = "get"
     /\ UNCHANGED <<fetchList, item, stored, last, ownerVars, now, asks, asked>>

\* there is time: curl->get() begins
GetItem ==
  LET deadline == item[1].deadline
  IN /\ worker = "took" /\ deadline > now
     /\ until' = IF deadline = NoDeadline THEN now + DefaultTimeout ELSE deadline
     /\ curl' = Reset
     /\ worker' = "get"
     /\ UNCHANGED <<fetchList, item, stored, last, ownerVars, now, asks, asked>>

\* the deadline has passed: no download
DropItem ==
  /\ worker = "took" /\ item[1].deadline <= now
  /\ item' = <<>>
  /\ worker' = "loop"
  /\ UNCHANGED <<fetchList, until, curl, stored, last, ownerVars, now, asks, asked>>

\* what addObject() is given
Entry(a) ==
  LET c == Succeeded(a)
  IN [item |-> item[1], at |-> now, answer |-> a,
      data |-> c.receivedData, etag |-> c.etag, mediaType |-> c.contentType,
      redirect |-> c.permanentRedirectUrl, maxAge |-> c.cacheControlMaxAge]

\* the response is complete, whatever its status: addObject() takes the data
GetSucceeds(a) ==
  /\ worker = "get"
  /\ last' = <<Entry(a)>>
  /\ stored' = stored \cup {item[1].object}
  /\ curl' = [Succeeded(a) EXCEPT !.receivedData = <<>>]
  /\ item' = <<>> /\ until' = 0
  /\ worker' = "loop"
  /\ UNCHANGED <<fetchList, ownerVars, now, asks, asked>>

\* get() returns -1 or -2: logged, and the item is gone
GetFails(a) ==
  /\ worker = "get"
  /\ curl' \in Failed(a)
  /\ item' = <<>> /\ until' = 0
  /\ worker' = "loop"
  /\ UNCHANGED <<fetchList, stored, last, ownerVars, now, asks, asked>>

-----------------------------------------------------------------------------
\* ~PullObjectIngester(): abort()
Abort ==
  /\ owner = "using"
  /\ cancel' = TRUE
  /\ owner' = "joining"
  /\ UNCHANGED <<fetchList, workerVars, now, asks, asked>>

JoinWorker ==
  /\ owner = "joining" /\ worker = "ended"
  /\ owner' = "gone"
  /\ UNCHANGED <<fetchList, workerVars, cancel, now, asks, asked>>

\* libcurl ends a transfer when its time is up
Tick ==
  /\ now < MaxTime
  /\ worker = "get" => now < until
  /\ now' = now + 1
  /\ UNCHANGED <<fetchList, workerVars, ownerVars, asks, asked>>

Worker ==
  \/ LoopAgain \/ WaitInVain \/ TakeItem \/ GetItem \/ DropItem
  \/ \E a \in Answer : GetSucceeds(a) \/ GetFails(a)

Next ==
  \/ Worker \/ Abort \/ JoinWorker \/ Tick
  \/ \E o \in Object, d \in Deadline : Fetch(o, d) \/ FetchWaiting(o, d) \/ FetchAgain(o, d)

Spec == Init /\ [][Next]_vars /\ WF_vars(Worker) /\ WF_vars(JoinWorker)

-----------------------------------------------------------------------------
(* Properties *)

\* The list holds items of PullObjectIngester.hh, the worker is at one of its
\* points and has an item exactly between taking it and being done with it.
TypeOK ==
  /\ fetchList \in Seq(Item) /\ Len(fetchList) <= asks
  /\ worker \in WorkerAt
  /\ item \in {<<>>} \cup {<<i>> : i \in Item}
  /\ item = <<>> <=> worker \notin {"took", "get"}
  /\ now \in 0..MaxTime /\ until \in Nat
  /\ cancel \in BOOLEAN /\ owner \in {"using", "joining", "gone"}
  /\ asks \in 0..MaxAsks /\ asked \subseteq Object /\ stored \subseteq asked

\* Items without a deadline are fetched in the order they were asked for: the
\* sorts after each fetch() and each change of another item's deadline keep it.
FirstComeFirstServed ==
  \A j, k \in DOMAIN fetchList :
    j < k /\ fetchList[j].deadline = NoDeadline /\ fetchList[k].deadline = NoDeadline
      => fetchList[j].ask < fetchList[k].ask

\* No object is stored after the deadline of its item, though the deadline may
\* pass while the item waits, and while it is downloaded.
StoredInTime == last # <<>> => last[1].at <= last[1].item.deadline

\* What is stored is what was answered for that very object: the data whole and
\* alone, its entity tag, and the last permanent redirect on the way to it, and
\* nothing that an earlier or an interrupted response left in the Curl object.
StoredAsServed ==
  last # <<>> =>
    LET e == last[1]
    IN /\ e.data = <<e.answer.body>>
       /\ e.etag = e.answer.etag
       /\ e.redirect = RedirectOf(e.answer.lines)

\* The ingester is a FetchQueue: each item is downloaded or dropped once, the
\* earliest deadline first, while items are added and hurried.
Queue == INSTANCE FetchQueue WITH
  pending <- {fetchList[k] : k \in DOMAIN fetchList},
  serving <- item,
  stopped <- (worker = "ended")
ImplementsFetchQueue == Queue!Spec

\* abort() returns: the worker leaves its loop though it may be waiting or
\* downloading.
AbortEnds == owner = "joining" ~> owner = "gone"

\* "Reset values collected during redirects": the cache lifetime and the media
\* type of an object are those of its own response, or none.
HeadersAsServed ==
  last # <<>> =>
    LET e == last[1]
    IN /\ e.maxAge = MaxAgeOf(e.answer.lines)
       /\ e.mediaType = e.answer.type
=============================================================================
