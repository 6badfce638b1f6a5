------------------- MODULE ObjectManifestControllerProofs -------------------
(***************************************************************************)
(* Theorems about ObjectManifestController, for any manifests, segments    *)
(* and times.  A refresh or a segment passes from the extra objects or the *)
(* manifest to the thread's batch and from there to an ingester: Batch and *)
(* Moving say what the thread holds at each place of its loop, Segments    *)
(* where each media segment is that it has planned for.                    *)
(***************************************************************************)
EXTENDS ObjectManifestController, TLAPS, FiniteSetTheorems, WellFoundedInduction

USE ManifestSets, ManifestContents, TimeBounds

\* the extra objects are initialization segments, each with its time, or the
\* refresh; update() works on the handler with a manifest that was received
Listed ==
  /\ IsFiniteSet(extras)
  /\ \A x \in extras :
       /\ x.url \in InitSegment \cup {ManifestURL}
       /\ x.url \in InitSegment => x.from = AvailableFrom[x.url]
  /\ updating # "no" => handler # <<>> /\ events # <<>>

\* what the thread holds, and why its time has not passed
Batch ==
  /\ thread = "waiting" => planned = {}
  /\ thread \in {"waiting", "plan", "choosing"} => batch = {}
  /\ thread \in {"plan", "choosing", "planned", "sleeping"} => handler # <<>>
  /\ thread = "choosing" => IsFiniteSet(upcoming) /\ \A n \in upcoming : AvailableFrom[n] > now
  /\ thread \in {"planned", "sleeping"} => now <= fetchTime
  /\ \A u \in batch \cap Segment : AvailableFrom[u] <= fetchTime
  /\ IsFiniteSet(batch)
  /\ thread = "sleeping" => Cardinality(batch) <= ingesters

\* the refresh is not in two places at a time
Moving ==
  pull /\ thread = "sleeping" /\ ManifestURL \in batch
    => \A x \in extras : x.url # ManifestURL

Waits(s) ==
  \/ thread = "plan" /\ AvailableFrom[s] > now
  \/ /\ thread = "choosing" /\ AvailableFrom[s] > now
     /\ \E n \in upcoming :
          /\ AvailableFrom[n] <= AvailableFrom[s]
          /\ AvailableFrom[n] = AvailableFrom[s] => s \in upcoming
  \/ /\ thread \in {"planned", "sleeping"}
     /\ AvailableFrom[s] >= fetchTime
     /\ AvailableFrom[s] = fetchTime => s \in batch

\* each planned segment was asked for in time or waits for it
Segments ==
  thread # "ended" =>
    \A s \in planned : [url |-> s, at |-> AvailableFrom[s]] \in asked \/ Waits(s)

\* the time until which the response the first manifest came in is fresh
FreshUntil == first[1].time + Lifetime[first[1].manifest]

\* the refresh waits for it, in the list and in the thread's hands
Fresh ==
  /\ \A x \in extras : x.url = ManifestURL => x.from >= FreshUntil
  /\ ManifestURL \in batch => first # <<>> /\ fetchTime >= FreshUntil
  /\ RefreshHonoursCache

Inv ==
  TypeOK /\ Listed /\ Batch /\ NothingTooEarly /\ OneRefresh /\ Moving /\ RefreshGoesOn /\ Fresh /\ Segments

-----------------------------------------------------------------------------
(* Lists, times and choices *)

LEMMA EarliestIsLeast ==
  ASSUME NEW S, S \subseteq Nat, S # {}
  PROVE  Earliest(S) \in S /\ \A u \in S : Earliest(S) <= u
<1> DEFINE R == {ss \in Nat \X Nat : ss[1] < ss[2]}
<1>1. IsWellFoundedOn(R, Nat)
  BY NatLessThanWellFounded DEF OpToRel
<1>2. \E t \in S : \A u \in S : <<u, t>> \notin R
  <2> HIDE DEF R
  <2> QED BY <1>1, WFMin
<1>3. PICK t \in S : \A u \in S : <<u, t>> \notin R
  BY <1>2
<1>4. ASSUME NEW u \in S PROVE t <= u
  <2>1. t \in Nat /\ u \in Nat /\ <<u, t>> \notin R
    BY <1>3
  <2> QED BY <2>1
<1> QED BY <1>3, <1>4 DEF Earliest

LEMMA InitSegmentsOf ==
  ASSUME NEW m \in Manifest
  PROVE  /\ InitSegments(m) \subseteq Extra /\ IsFiniteSet(InitSegments(m))
         /\ \A x \in InitSegments(m) :
              x.url \in InitSegment /\ x.url # ManifestURL /\ x.from = AvailableFrom[x.url]
<1> DEFINE f(i) == [url |-> i, from |-> AvailableFrom[i]]
<1>1. \A i \in Announced[m] \cap InitSegment :
        AvailableFrom[i] \in Nat /\ i \in URL /\ i # ManifestURL /\ i \in InitSegment
  BY DEF Segment, URL
<1>2. \A x \in InitSegments(m) : \E i \in Announced[m] \cap InitSegment : x = f(i)
  BY DEF InitSegments
<1>3. \A x \in InitSegments(m) :
        x \in Extra /\ x.url \in InitSegment /\ x.url # ManifestURL /\ x.from = AvailableFrom[x.url]
  BY <1>1, <1>2 DEF Extra
<1>4. IsFiniteSet(Announced[m] \cap InitSegment)
  BY FS_Intersection
<1>5. IsFiniteSet({f(i) : i \in Announced[m] \cap InitSegment})
  <2> DEFINE S == Announced[m] \cap InitSegment
             g == [i \in S |-> f(i)]
             T == {f(i) : i \in S}
  <2>1. g \in Surjection(S, T)
    BY DEF Surjection
  <2> QED BY <1>4, <2>1, FS_Surjection
<1> QED BY <1>3, <1>5 DEF InitSegments

LEMMA RefreshOf ==
  ASSUME NEW m \in Manifest, NEW r \in Received
  PROVE  /\ Refresh(m, r) \subseteq Extra /\ IsFiniteSet(Refresh(m, r))
         /\ \A x \in Refresh(m, r) :
              /\ x.url = ManifestURL /\ ManifestURL \notin InitSegment
              /\ x.from >= r.time + Lifetime[r.manifest]
         /\ \A x, y \in Refresh(m, r) : x = y
         /\ pull /\ UpdatePeriod[m] > 0 => \E x \in Refresh(m, r) : x.url = ManifestURL
<1> DEFINE time == r.time + Later(UpdatePeriod[m], Lifetime[r.manifest])
           next == [url |-> ManifestURL, from |-> time]
<1>1. time \in Nat /\ time >= r.time + Lifetime[r.manifest]
  BY DEF Received, Later
<1>2. Refresh(m, r) = IF pull /\ UpdatePeriod[m] > 0 THEN {next} ELSE {}
  BY DEF Refresh
<1>3. next.url = ManifestURL /\ next.from = time
  OBVIOUS
<1>4. next \in Extra
  BY <1>1 DEF Extra, URL
<1>5. ManifestURL \notin InitSegment
  BY DEF Segment
<1> HIDE DEF time, next
<1>6. IsFiniteSet(Refresh(m, r))
  <2>1. IsFiniteSet({next}) /\ IsFiniteSet({})
    BY FS_Singleton, FS_EmptySet
  <2>2. CASE pull /\ UpdatePeriod[m] > 0
    BY <1>2, <2>1, <2>2
  <2>3. CASE ~(pull /\ UpdatePeriod[m] > 0)
    BY <1>2, <2>1, <2>3
  <2> QED BY <2>2, <2>3
<1> QED BY <1>1, <1>2, <1>3, <1>4, <1>5, <1>6

\* what the thread has to choose from
LEMMA ChoicesOf ==
  ASSUME TypeOK
  PROVE  /\ Choices \subseteq Extra
         /\ \A c \in Choices : Due(c) \in Nat /\ Due(c) >= now /\ Due(c) >= c.from
         /\ \A c \in Choices :
              \/ c \in extras
              \/ c.url \in upcoming /\ c.url \in Media /\ c.from = AvailableFrom[c.url]
<1> DEFINE Next1 == {[url |-> s, from |-> AvailableFrom[s]] : s \in upcoming}
<1>1. \A s \in upcoming : s \in Media /\ AvailableFrom[s] \in Nat /\ s \in URL
  BY DEF TypeOK, Segment, URL
<1>2. \A c \in Next1 : \E s \in upcoming : c = [url |-> s, from |-> AvailableFrom[s]]
  OBVIOUS
<1>3. \A c \in Next1 :
        c \in Extra /\ c.url \in upcoming /\ c.url \in Media /\ c.from = AvailableFrom[c.url]
  BY <1>1, <1>2 DEF Extra
<1>4. Choices = Next1 \cup extras
  BY DEF Choices
<1> HIDE DEF Next1
<1>5. Choices \subseteq Extra
  BY <1>3, <1>4 DEF TypeOK
<1>6. \A c \in Extra : c.from \in Nat
  BY DEF Extra
<1>7. now \in Nat
  BY DEF TypeOK
<1>8. \A c \in Choices : Due(c) \in Nat /\ Due(c) >= now /\ Due(c) >= c.from
  BY <1>5, <1>6, <1>7 DEF Due, Later
<1> QED BY <1>3, <1>4, <1>5, <1>8

\* the next segment of each representation comes first
LEMMA NextComesFirst ==
  ASSUME TypeOK, NEW m \in Manifest, NEW s \in ToCome(m)
  PROVE  \E n \in NextSegments(m) :
           /\ AvailableFrom[n] <= AvailableFrom[s]
           /\ AvailableFrom[n] = AvailableFrom[s] => s \in NextSegments(m)
<1> DEFINE Same == {u \in ToCome(m) : Representation[u] = Representation[s]}
           Times == {AvailableFrom[u] : u \in Same}
<1>1. \A u \in ToCome(m) : AvailableFrom[u] \in Nat
  BY DEF ToCome, Segment
<1>2. Times \subseteq Nat /\ AvailableFrom[s] \in Times
  BY <1>1
<1>3. Earliest(Times) \in Times /\ \A t \in Times : Earliest(Times) <= t
  <2> HIDE DEF Times
  <2> QED BY <1>2, EarliestIsLeast
<1>4. PICK n \in Same : AvailableFrom[n] = Earliest(Times)
  BY <1>3
<1>5. \A u \in Same : AvailableFrom[n] <= AvailableFrom[u]
  BY <1>3, <1>4
<1>6. n \in NextSegments(m)
  BY <1>4, <1>5 DEF NextSegments
<1>7. AvailableFrom[n] = AvailableFrom[s] => s \in NextSegments(m)
  BY <1>5 DEF NextSegments
<1> QED BY <1>5, <1>6, <1>7

-----------------------------------------------------------------------------
(* Types *)

\* the actions that neither handle a manifest nor move the thread
Outside ==
  \/ \E m \in Manifest : PushManifest(m) \/ FetchManifest(m)
  \/ RefreshNotRecognized \/ FetchFails
  \/ Abort \/ Join \/ Tick

LEMMA InitTypes == Init => TypeOK
<1> SUFFICES ASSUME Init PROVE TypeOK
  OBVIOUS
<1>1. fetching \in Nat /\ ingesters \in Nat
  BY DEF Init
<1>2. /\ events \in Seq(Received) /\ handler \in Seq(Manifest) /\ first \in Seq(Received)
      /\ Len(handler) = Len(first) /\ Len(first) <= 1
  BY DEF Init
<1>3. thread \in ThreadAt /\ updating \in UpdatingAt
  BY DEF Init, ThreadAt, UpdatingAt
<1> QED BY <1>1, <1>2, <1>3 DEF Init, TypeOK

LEMMA OutsideTypes == TypeOK /\ Outside => TypeOK'
<1> SUFFICES ASSUME TypeOK, Outside PROVE TypeOK'
  OBVIOUS
<1> USE DEF TypeOK, rest, handlerVars, threadVars, sourceVars
<1>1. ASSUME NEW m \in Manifest, ManifestStored(m) PROVE events' \in Seq(Received) /\ arrived' \in Nat
  <2>1. [manifest |-> m, time |-> now] \in Received
    BY DEF Received
  <2> QED BY <1>1, <2>1 DEF ManifestStored
<1>2. CASE \E m \in Manifest : PushManifest(m)
  BY <1>1, <1>2 DEF PushManifest, ManifestStored
<1>3. CASE \E m \in Manifest : FetchManifest(m)
  BY <1>1, <1>3 DEF FetchManifest, ManifestStored
<1>4. CASE RefreshNotRecognized BY <1>4 DEF RefreshNotRecognized
<1>5. CASE FetchFails BY <1>5 DEF FetchFails
<1>6. CASE Abort BY <1>6 DEF Abort
<1>7. CASE Join BY <1>7 DEF Join
<1>8. CASE Tick BY <1>8 DEF Tick
<1> QED BY <1>2, <1>3, <1>4, <1>5, <1>6, <1>7, <1>8 DEF Outside

LEMMA HeadReceived ==
  TypeOK /\ events # <<>> =>
    /\ Head(events) \in Received /\ Head(events).manifest \in Manifest
    /\ Tail(events) \in Seq(Received)
<1>1. TypeOK /\ events # <<>> => Head(events) \in Received /\ Tail(events) \in Seq(Received)
  BY DEF TypeOK
<1> QED BY <1>1 DEF Received

LEMMA HandlerTypes ==
  TypeOK /\ handler # <<>> => handler[1] \in Manifest /\ first # <<>> /\ first[1] \in Received
BY DEF TypeOK

LEMMA HandleEventTypes == TypeOK /\ Listed /\ HandleEvent => TypeOK'
<1> SUFFICES ASSUME TypeOK, Listed, HandleEvent PROVE TypeOK'
  OBVIOUS
<1> USE DEF rest, handlerVars, threadVars, sourceVars, UpdatingAt
<1>1. /\ events # <<>> /\ Head(events) \in Received /\ Tail(events) \in Seq(Received)
      /\ Head(events).manifest \in Manifest
  BY HeadReceived
     DEF HandleEvent, HandlesEvents, MakeHandler, RefuseManifest, UpdateManifest, UpdateSegments, UpdateRefresh
<1>2. CASE MakeHandler
  <2>1. extras' \subseteq Extra
    BY <1>1, <1>2, InitSegmentsOf, RefreshOf DEF MakeHandler
  <2>2. /\ handler' = <<Head(events).manifest>> /\ first' = <<Head(events)>>
        /\ events' = Tail(events) /\ updating' = "no"
        /\ UNCHANGED <<rest, lost, threadVars, fetching, arrived>>
    BY <1>2 DEF MakeHandler, EventHandled
  <2> QED BY <1>1, <2>1, <2>2 DEF TypeOK
<1>3. CASE RefuseManifest
  BY <1>1, <1>3 DEF RefuseManifest, EventHandled, TypeOK
<1>4. CASE UpdateManifest
  BY <1>1, <1>4 DEF UpdateManifest, TypeOK
<1>5. CASE UpdateSegments
  <2>1. extras' \subseteq Extra
    BY <1>5, HandlerTypes, InitSegmentsOf DEF UpdateSegments, Listed
  <2> QED BY <1>5, <2>1 DEF UpdateSegments, TypeOK
<1>6. CASE UpdateRefresh
  <2>1. extras' \subseteq Extra
    BY <1>6, HandlerTypes, RefreshOf DEF UpdateRefresh, Listed, TypeOK
  <2> QED BY <1>1, <1>6, <2>1 DEF UpdateRefresh, EventHandled, TypeOK
<1> QED BY <1>2, <1>3, <1>4, <1>5, <1>6 DEF HandleEvent

\* what Choose chooses
LEMMA Chosen ==
  ASSUME TypeOK, Choose
  PROVE  /\ thread' = "planned" /\ Choices # {}
         /\ fetchTime' \in Nat /\ fetchTime' >= now
         /\ \A c \in Choices :
              /\ fetchTime' <= Due(c)
              /\ Due(c) = fetchTime' => c.url \in batch'
         /\ \A u \in batch' : \E c \in Choices : u = c.url /\ Due(c) = fetchTime'
<1> DEFINE T == {Due(c) : c \in Choices}
<1>2. \A c \in Choices : Due(c) \in Nat /\ Due(c) >= now
  BY ChoicesOf
<1>3. T \subseteq Nat /\ T # {}
  BY <1>2 DEF Choose
<1>4. Earliest(T) \in T /\ \A u \in T : Earliest(T) <= u
  <2> HIDE DEF T
  <2> QED BY <1>3, EarliestIsLeast
<1>5. fetchTime' = Earliest(T) /\ thread' = "planned" /\ Choices # {}
  BY DEF Choose
<1>6. batch' = {c.url : c \in {d \in Choices : Due(d) = fetchTime'}}
  BY DEF Choose
<1>7. fetchTime' \in Nat /\ fetchTime' >= now
  BY <1>2, <1>4, <1>5
<1>8. \A c \in Choices : fetchTime' <= Due(c)
  BY <1>4, <1>5
<1> QED BY <1>5, <1>6, <1>7, <1>8

LEMMA WorkerTypes == TypeOK /\ Batch /\ Worker => TypeOK'
<1> SUFFICES ASSUME TypeOK, Batch, Worker PROVE TypeOK'
  OBVIOUS
<1> USE DEF OnlyThread, handlerVars, sourceVars
<1>1. CASE WaitForHandler
  BY <1>1 DEF WaitForHandler, TypeOK, ThreadAt
<1>2. CASE ReadSegments
  <2>1. handler[1] \in Manifest
    BY <1>2, HandlerTypes DEF ReadSegments, Batch
  <2>2. planned' \subseteq Media /\ upcoming' \subseteq Media
    BY <1>2, <2>1 DEF ReadSegments, Expected, NextSegments, ToCome, TypeOK
  <2> QED BY <1>2, <2>2 DEF ReadSegments, TypeOK, ThreadAt
<1>6. CASE NothingToFetch
  BY <1>6 DEF NothingToFetch, TypeOK, ThreadAt
<1>7. CASE Choose
  <2>1. \A c \in Choices : c.url \in URL
    BY ChoicesOf DEF Extra
  <2>2. fetchTime' \in Nat /\ batch' \subseteq URL /\ thread' \in ThreadAt
    BY <1>7, <2>1, Chosen DEF ThreadAt
  <2> QED BY <1>7, <2>2 DEF Choose, TypeOK
<1>3. CASE Trim
  <2>1. ingesters' \in Nat
    BY <1>3, FS_CardinalityType DEF Trim, Later, Batch, TypeOK
  <2> QED BY <1>3, <2>1 DEF Trim, TypeOK, ThreadAt
<1>4. CASE InvalidSegmentURL
  BY <1>4 DEF InvalidSegmentURL, TypeOK, ThreadAt
<1>5. CASE Hand
  <2>1. PICK given \in SUBSET batch :
          /\ asked' = asked \cup {[url |-> u, at |-> now] : u \in given}
          /\ fetching' = fetching + (IF ManifestURL \in given THEN 1 ELSE 0)
    BY <1>5 DEF Hand
  <2>2. asked' \subseteq [url : URL, at : Nat]
    BY <2>1 DEF TypeOK
  <2>3. fetching' \in Nat
    BY <2>1 DEF TypeOK
  <2>4. thread' \in ThreadAt
    BY <1>5 DEF Hand, ThreadAt
  <2> QED BY <1>5, <2>2, <2>3, <2>4 DEF Hand, TypeOK
<1> QED BY <1>1, <1>2, <1>3, <1>4, <1>5, <1>6, <1>7 DEF Worker

-----------------------------------------------------------------------------
(* The extra objects and the batch *)

\* outside, only the clock of what Batch names can change, while the thread sleeps
LEMMA OutsideFrame ==
  Outside =>
    /\ UNCHANGED <<pull, threadVars, handlerVars, asked, updating>>
    /\ now' = now \/ (now' = now + 1 /\ Idle)
BY DEF Outside, PushManifest, FetchManifest, ManifestStored, RefreshNotRecognized, FetchFails,
       Abort, Join, Tick, rest, handlerVars, threadVars, sourceVars

LEMMA HandleEventFrame ==
  HandleEvent =>
    /\ UNCHANGED <<pull, now, asked, threadVars>>
    /\ events # <<>>
    /\ handler' # <<>> \/ handler' = handler
<1>1. \A m : <<m>> # <<>>
  OBVIOUS
<1>2. MakeHandler \/ UpdateManifest => handler' # <<>>
  <2>1. MakeHandler \/ UpdateManifest => handler' = <<Head(events).manifest>>
    BY DEF MakeHandler, UpdateManifest
  <2> QED BY <1>1, <2>1
<1>3. RefuseManifest \/ UpdateSegments \/ UpdateRefresh => handler' = handler
  BY DEF RefuseManifest, UpdateSegments, UpdateRefresh, handlerVars
<1>4. HandleEvent => events # <<>>
  BY DEF HandleEvent, HandlesEvents, MakeHandler, RefuseManifest, UpdateManifest, UpdateSegments, UpdateRefresh
<1>5. HandleEvent => UNCHANGED <<pull, now, asked, threadVars>>
  BY DEF HandleEvent, EventHandled, MakeHandler, RefuseManifest, UpdateManifest, UpdateSegments, UpdateRefresh, rest
<1> QED BY <1>2, <1>3, <1>4, <1>5 DEF HandleEvent

LEMMA ListedStep == TypeOK /\ Listed /\ [Next]_vars => Listed'
<1> SUFFICES ASSUME TypeOK, Listed, [Next]_vars PROVE Listed'
  OBVIOUS
<1>1. CASE UNCHANGED <<extras, updating, handler>> /\ (events # <<>> => events' # <<>>)
  BY <1>1 DEF Listed
<1>2. CASE HandleEvent
  <2>1. Head(events) \in Received /\ Head(events).manifest \in Manifest
    BY <1>2, HeadReceived
       DEF HandleEvent, HandlesEvents, MakeHandler, RefuseManifest, UpdateManifest, UpdateSegments, UpdateRefresh
  <2>2. CASE MakeHandler
    <3> DEFINE I == InitSegments(Head(events).manifest)
               R == Refresh(Head(events).manifest, Head(events))
    <3>1. extras' = I \cup R /\ updating' = "no"
      BY <2>2 DEF MakeHandler, EventHandled
    <3>2. /\ IsFiniteSet(I) /\ IsFiniteSet(R)
          /\ \A x \in I : x.url \in InitSegment /\ x.from = AvailableFrom[x.url]
          /\ \A x \in R : x.url = ManifestURL /\ ManifestURL \notin InitSegment
      BY <2>1, InitSegmentsOf, RefreshOf
    <3> HIDE DEF I, R
    <3>3. IsFiniteSet(I \cup R)
      BY <3>2, FS_Union
    <3> QED BY <3>1, <3>2, <3>3 DEF Listed
  <2>3. CASE RefuseManifest
    BY <2>3 DEF RefuseManifest, EventHandled, Listed, handlerVars
  <2>4. CASE UpdateManifest
    <3>1. handler' # <<>> /\ events' = events /\ extras' = extras /\ events # <<>>
      BY <2>4 DEF UpdateManifest, HandlesEvents, sourceVars
    <3> QED BY <3>1 DEF Listed
  <2>5. CASE UpdateSegments
    <3>1. /\ handler # <<>> /\ handler[1] \in Manifest /\ events # <<>>
          /\ extras' = InitSegments(handler[1]) /\ UNCHANGED <<handler, events>>
      BY <2>5, HandlerTypes DEF UpdateSegments, Listed, sourceVars
    <3> QED BY <3>1, InitSegmentsOf DEF Listed
  <2>6. CASE UpdateRefresh
    <3> DEFINE R == Refresh(handler[1], first[1])
    <3>1. handler[1] \in Manifest /\ first[1] \in Received
      BY <2>6, HandlerTypes DEF UpdateRefresh, Listed
    <3>2. extras' = extras \cup R /\ updating' = "no"
      BY <2>6 DEF UpdateRefresh, EventHandled
    <3>3. IsFiniteSet(R) /\ \A x \in R : x.url = ManifestURL /\ ManifestURL \notin InitSegment
      BY <3>1, RefreshOf
    <3> HIDE DEF R
    <3>4. IsFiniteSet(extras \cup R)
      BY <3>3, FS_Union DEF Listed
    <3> QED BY <3>2, <3>3, <3>4 DEF Listed
  <2> QED BY <1>2, <2>2, <2>3, <2>4, <2>5, <2>6 DEF HandleEvent
<1>3. CASE UNCHANGED <<updating, handler, events>> /\ extras' \subseteq extras
  BY <1>3, FS_Subset DEF Listed
<1>4. CASE Worker
  <2>1. Trim \/ InvalidSegmentURL => UNCHANGED <<updating, handler, events>> /\ extras' \subseteq extras
    BY DEF Trim, InvalidSegmentURL, OnlyThread, sourceVars
  <2>2. WaitForHandler \/ ReadSegments \/ NothingToFetch \/ Choose \/ Hand
          => UNCHANGED <<updating, handler, extras, events>>
    BY DEF WaitForHandler, ReadSegments, NothingToFetch, Choose, Hand, OnlyThread, sourceVars, handlerVars
  <2> QED BY <1>1, <1>3, <1>4, <2>1, <2>2 DEF Worker
<1>5. CASE Outside
  <2>1. UNCHANGED <<extras, updating, handler>>
    BY <1>5, OutsideFrame DEF handlerVars
  <2>2. ASSUME NEW m \in Manifest, ManifestStored(m) PROVE events' # <<>>
    <3> DEFINE r == [manifest |-> m, time |-> now]
    <3>1. r \in Received /\ events' = Append(events, r)
      BY <2>2 DEF ManifestStored, TypeOK, Received
    <3> HIDE DEF r
    <3> QED BY <3>1 DEF TypeOK
  <2>3. RefreshNotRecognized \/ FetchFails \/ Abort \/ Join \/ Tick => events' = events
    BY DEF RefreshNotRecognized, FetchFails, Abort, Join, Tick, sourceVars
  <2> QED BY <1>1, <1>5, <2>1, <2>2, <2>3 DEF Outside, PushManifest, FetchManifest
<1> QED BY <1>1, <1>2, <1>4, <1>5 DEF Next, Outside, vars, sourceVars, handlerVars

LEMMA BatchStep == TypeOK /\ Listed /\ Batch /\ [Next]_vars => Batch'
<1> SUFFICES ASSUME TypeOK, Listed, Batch, [Next]_vars PROVE Batch'
  OBVIOUS
<1>1. CASE UNCHANGED vars
  BY <1>1 DEF vars, rest, threadVars, handlerVars, Batch
<1>2. CASE Outside
  BY <1>2, OutsideFrame DEF Idle, threadVars, handlerVars, Batch, TypeOK
<1>3. CASE HandleEvent
  BY <1>3, HandleEventFrame DEF threadVars, Batch
<1> USE DEF OnlyThread, handlerVars, sourceVars
<1>4. CASE WaitForHandler
  BY <1>4 DEF WaitForHandler, Batch
<1>5. CASE ReadSegments
  <2>1. handler # <<>> /\ handler[1] \in Manifest /\ UNCHANGED <<handler, now, batch>> /\ batch = {}
    BY <1>5, HandlerTypes DEF ReadSegments, Batch
  <2>2. upcoming' = NextSegments(handler[1]) /\ thread' = "choosing"
    BY <1>5 DEF ReadSegments
  <2>3. NextSegments(handler[1]) \subseteq Announced[handler[1]] /\ IsFiniteSet(Announced[handler[1]])
    BY <2>1 DEF NextSegments, ToCome
  <2>4. IsFiniteSet(upcoming')
    BY <2>2, <2>3, FS_Subset
  <2>5. \A n \in upcoming' : AvailableFrom[n] > now
    BY <2>2 DEF NextSegments, ToCome
  <2> QED BY <2>1, <2>2, <2>4, <2>5, FS_EmptySet DEF Batch
<1>6. CASE NothingToFetch
  BY <1>6 DEF NothingToFetch, Batch
<1>7. CASE Choose
  <2>1. handler # <<>> /\ UNCHANGED <<handler, now>> /\ IsFiniteSet(upcoming)
    BY <1>7 DEF Choose, Batch
  <2>2. IsFiniteSet(batch')
    <3> DEFINE Urls == {x.url : x \in extras}
               g == [x \in extras |-> x.url]
    <3>1. g \in Surjection(extras, Urls)
      BY DEF Surjection
    <3>2. IsFiniteSet(Urls)
      BY <3>1, FS_Surjection DEF Listed
    <3>3. \A c \in Choices : c.url \in upcoming \cup Urls
      BY ChoicesOf
    <3>4. batch' \subseteq upcoming \cup Urls
      BY <1>7, <3>3, Chosen
    <3> HIDE DEF Urls
    <3> QED BY <2>1, <3>2, <3>4, FS_Union, FS_Subset
  <2>3. \A c \in Choices : c.url \in Segment => c.from = AvailableFrom[c.url] /\ Due(c) >= c.from
    BY ChoicesOf DEF Listed, Segment
  <2>4. \A u \in batch' \cap Segment : AvailableFrom[u] <= fetchTime'
    <3> SUFFICES ASSUME NEW u \in batch', u \in Segment PROVE AvailableFrom[u] <= fetchTime'
      OBVIOUS
    <3>1. PICK c \in Choices : u = c.url /\ Due(c) = fetchTime'
      BY <1>7, Chosen
    <3>2. AvailableFrom[u] \in Nat /\ fetchTime' \in Nat
      BY <1>7, Chosen
    <3> QED BY <2>3, <3>1, <3>2
  <2>5. thread' = "planned" /\ fetchTime' \in Nat /\ fetchTime' >= now /\ now \in Nat
    BY <1>7, Chosen DEF TypeOK
  <2> QED BY <2>1, <2>2, <2>4, <2>5 DEF Batch
<1>8. CASE Trim
  BY <1>8, FS_CardinalityType DEF Trim, Later, Batch, TypeOK
<1>9. CASE InvalidSegmentURL
  BY <1>9, FS_EmptySet DEF InvalidSegmentURL, Batch
<1>10. CASE Hand
  BY <1>10, FS_EmptySet DEF Hand, Batch
<1> QED BY <1>1, <1>2, <1>3, <1>4, <1>5, <1>6, <1>7, <1>8, <1>9, <1>10 DEF Next, Outside, Worker

\* Hand gives away the whole batch, when its time has come and not later.
LEMMA HandsAll ==
  ASSUME TypeOK, Batch, Hand
  PROVE  /\ now = fetchTime
         /\ asked' = asked \cup {[url |-> u, at |-> now] : u \in batch}
         /\ fetching' = fetching + (IF ManifestURL \in batch THEN 1 ELSE 0)
<1>1. PICK given \in SUBSET batch :
        /\ ingesters <= Cardinality(given) \/ given = batch
        /\ asked' = asked \cup {[url |-> u, at |-> now] : u \in given}
        /\ fetching' = fetching + (IF ManifestURL \in given THEN 1 ELSE 0)
  BY DEF Hand
<1>2. IsFiniteSet(batch) /\ Cardinality(batch) <= ingesters
  BY DEF Hand, Batch
<1>3. given = batch
  <2>1. Cardinality(given) \in Nat /\ Cardinality(batch) \in Nat /\ Cardinality(given) <= Cardinality(batch)
    BY <1>2, FS_Subset, FS_CardinalityType
  <2>2. CASE ingesters <= Cardinality(given)
    <3>1. Cardinality(given) = Cardinality(batch)
      BY <1>2, <2>1, <2>2 DEF TypeOK
    <3> QED BY <1>2, <3>1, FS_Subset
  <2> QED BY <1>1, <2>2
<1>4. now = fetchTime
  BY DEF Hand, Batch, TypeOK
<1> QED BY <1>1, <1>3, <1>4

LEMMA EarlyStep == TypeOK /\ Batch /\ NothingTooEarly /\ [Next]_vars => NothingTooEarly'
<1> SUFFICES ASSUME TypeOK, Batch, NothingTooEarly, [Next]_vars PROVE NothingTooEarly'
  OBVIOUS
<1>1. CASE Hand
  <2> SUFFICES ASSUME NEW a \in asked', a.url \in Segment PROVE a.at >= AvailableFrom[a.url]
    BY DEF NothingTooEarly
  <2>1. CASE a \in asked
    BY <2>1 DEF NothingTooEarly
  <2>2. CASE a \notin asked
    <3>1. PICK u \in batch : a = [url |-> u, at |-> now]
      BY <1>1, <2>2, HandsAll
    <3>2. a.url = u /\ a.at = now
      BY <3>1
    <3>3. now = fetchTime /\ AvailableFrom[u] <= fetchTime /\ AvailableFrom[u] \in Nat
      BY <1>1, <3>2, HandsAll DEF Batch
    <3> QED BY <3>2, <3>3 DEF TypeOK
  <2> QED BY <2>1, <2>2
<1>2. CASE UNCHANGED asked
  BY <1>2 DEF NothingTooEarly
<1>3. WaitForHandler \/ ReadSegments \/ NothingToFetch \/ Choose \/ Trim \/ InvalidSegmentURL => UNCHANGED asked
  BY DEF WaitForHandler, ReadSegments, NothingToFetch, Choose, Trim, InvalidSegmentURL
<1> QED BY <1>1, <1>2, <1>3, OutsideFrame, HandleEventFrame DEF Next, Outside, Worker, vars, rest

-----------------------------------------------------------------------------
(* The refresh *)

LEMMA PullFrame == [Next]_vars => pull' = pull
<1>1. WaitForHandler \/ ReadSegments \/ NothingToFetch \/ Choose \/ Trim \/ InvalidSegmentURL => pull' = pull
  BY DEF WaitForHandler, ReadSegments, NothingToFetch, Choose, Trim, InvalidSegmentURL, OnlyThread
<1>2. Hand \/ UNCHANGED vars => pull' = pull
  BY DEF Hand, vars, rest
<1>3. Outside \/ HandleEvent => pull' = pull
  BY OutsideFrame, HandleEventFrame
<1> QED BY <1>1, <1>2, <1>3 DEF Next, Outside, Worker

LEMMA OneRefreshStep ==
  TypeOK /\ Listed /\ Batch /\ OneRefresh /\ Moving /\ [Next]_vars => OneRefresh' /\ Moving'
<1> SUFFICES ASSUME TypeOK, Listed, Batch, OneRefresh, Moving, [Next]_vars, pull
             PROVE  OneRefresh' /\ Moving'
  BY PullFrame DEF OneRefresh, Moving
<1> USE DEF rest, handlerVars, threadVars, sourceVars, InHand
<1>1. /\ fetching \in Nat /\ Len(events) \in Nat /\ fetching + Len(events) <= 1
      /\ InHand => fetching = 0 /\ events = <<>>
      /\ \A x, y \in extras : x.url = ManifestURL /\ y.url = ManifestURL => x = y
  BY DEF OneRefresh, TypeOK
<1>0. fetching \in Nat /\ Len(events) \in Nat /\ fetching + Len(events) <= 1
  BY <1>1
<1>2. CASE UNCHANGED <<fetching, events, batch, extras, thread, pull>>
  BY <1>2 DEF OneRefresh, Moving
<1>3. CASE UNCHANGED <<batch, extras, thread, pull>> /\ ~InHand /\ fetching' + Len(events') <= 1
  BY <1>3 DEF OneRefresh, Moving
<1>4. ASSUME NEW m \in Manifest, FetchManifest(m) PROVE OneRefresh' /\ Moving'
  <2>1. fetching = 1 /\ Len(events) = 0 /\ ~InHand
    BY <1>1, <1>4 DEF FetchManifest
  <2>2. fetching' = 0 /\ Len(events') = 1
    BY <1>4, <2>1 DEF FetchManifest, ManifestStored, TypeOK
  <2> QED BY <1>3, <1>4, <2>1, <2>2 DEF FetchManifest, ManifestStored
<1>5. CASE RefreshNotRecognized \/ FetchFails
  <2>1. fetching > 0 /\ fetching' = fetching - 1 /\ UNCHANGED <<batch, extras, thread, pull, events>>
    BY <1>5 DEF RefreshNotRecognized, FetchFails
  <2>2. ~InHand
    BY <1>1, <2>1
  <2>3. fetching' + Len(events') <= 1
    BY <1>1, <2>1
  <2> QED BY <1>3, <2>1, <2>2, <2>3
<1>6. CASE HandleEvent
  <2>1. events # <<>> /\ events \in Seq(Received) /\ UNCHANGED <<pull, batch, thread>>
    BY <1>6, HandleEventFrame DEF TypeOK
  <2>2. ~InHand
    BY <1>1, <2>1
  <2>3. Len(events) > 0
    BY <2>1
  <2>4. fetching = 0 /\ Len(events) = 1
    <3> DEFINE n == Len(events)
    <3>1. n \in Nat /\ n > 0 /\ fetching \in Nat /\ fetching + n <= 1
      BY <1>0, <2>3
    <3> HIDE DEF n
    <3>2. fetching = 0 /\ n = 1
      BY <3>1
    <3> QED BY <3>2 DEF n
  <2>5. EventHandled => fetching' = 0 /\ Len(events') = 0 /\ events' = <<>>
    BY <2>1, <2>4 DEF EventHandled
  <2>6. fetching' = fetching /\ (events' = events \/ EventHandled)
    BY <1>6 DEF HandleEvent, EventHandled, MakeHandler, RefuseManifest, UpdateManifest, UpdateSegments, UpdateRefresh
  <2>7. fetching' = 0 /\ fetching' + Len(events') <= 1
    <3>1. fetching' = 0
      BY <2>4, <2>6
    <3> DEFINE n == Len(events')
    <3>2. n = 0 \/ n = 1
      BY <2>4, <2>5, <2>6
    <3> HIDE DEF n
    <3>3. fetching' + n <= 1
      BY <3>1, <3>2
    <3> QED BY <3>1, <3>3 DEF n
  <2>8. Head(events) \in Received /\ Head(events).manifest \in Manifest
    BY <2>1, HeadReceived
  <2>9. CASE RefuseManifest \/ UpdateManifest
    <3>1. extras' = extras
      BY <2>9 DEF RefuseManifest, UpdateManifest
    <3> QED BY <1>3, <2>1, <2>2, <2>7, <3>1
  <2>10. CASE UpdateSegments
    <3>1. extras' = InitSegments(handler[1]) /\ handler[1] \in Manifest
      BY <2>10, HandlerTypes DEF UpdateSegments, Listed
    <3>2. ~InHand'
      BY <2>1, <2>2, <3>1, InitSegmentsOf
    <3> QED BY <2>1, <2>7, <3>2 DEF OneRefresh, Moving
  <2>11. CASE MakeHandler \/ UpdateRefresh
    <3>1. PICK m \in Manifest, r \in Received :
            \A x \in extras' : x.url = ManifestURL => x \in Refresh(m, r)
      <4>1. CASE MakeHandler
        <5>1. extras' = InitSegments(Head(events).manifest) \cup Refresh(Head(events).manifest, Head(events))
          BY <4>1 DEF MakeHandler
        <5> QED BY <2>8, <5>1, InitSegmentsOf
      <4>2. CASE UpdateRefresh
        <5>1. handler[1] \in Manifest /\ first[1] \in Received
          BY <4>2, HandlerTypes DEF UpdateRefresh, Listed
        <5>2. extras' = extras \cup Refresh(handler[1], first[1])
          BY <4>2 DEF UpdateRefresh
        <5> QED BY <2>2, <5>1, <5>2
      <4> QED BY <2>11, <4>1, <4>2
    <3>2. \A x, y \in extras' : x.url = ManifestURL /\ y.url = ManifestURL => x = y
      BY <3>1, RefreshOf
    <3>3. events' = <<>> /\ Len(events') = 0
      BY <2>5, <2>11 DEF MakeHandler, UpdateRefresh
    <3>4. ManifestURL \notin batch'
      BY <2>1, <2>2
    <3> QED BY <2>1, <2>7, <3>2, <3>3, <3>4 DEF OneRefresh, Moving
  <2> QED BY <1>6, <2>9, <2>10, <2>11 DEF HandleEvent
<1>7. CASE Choose
  <2>1. UNCHANGED <<pull, fetching, events, extras>> /\ thread' # "sleeping" /\ batch = {}
    BY <1>7, Chosen DEF Choose, Batch, OnlyThread
  <2>2. ManifestURL \in batch' => \E x \in extras : x.url = ManifestURL
    <3>1. \A c \in Choices : c.url = ManifestURL => c \in extras
      BY ChoicesOf DEF Segment
    <3> QED BY <1>7, <3>1, Chosen
  <2> QED BY <1>1, <2>1, <2>2 DEF OneRefresh, Moving
<1>8. CASE Trim
  <2>1. extras' = {x \in extras : x.url \notin batch} /\ UNCHANGED <<pull, fetching, events, batch>>
    BY <1>8 DEF Trim, OnlyThread
  <2> QED BY <1>1, <2>1 DEF OneRefresh, Moving
<1>9. CASE InvalidSegmentURL
  <2>1. extras' \subseteq extras /\ batch' = {} /\ UNCHANGED <<pull, fetching, events>>
    BY <1>9 DEF InvalidSegmentURL, OnlyThread
  <2> QED BY <1>1, <2>1 DEF OneRefresh, Moving
<1>10. CASE Hand
  <2>1. /\ fetching' = fetching + (IF ManifestURL \in batch THEN 1 ELSE 0)
        /\ thread = "sleeping" /\ batch' = {} /\ UNCHANGED <<pull, extras, events>>
    BY <1>10, HandsAll DEF Hand
  <2>2. CASE ManifestURL \in batch
    <3>1. ~InHand'
      BY <2>1, <2>2 DEF Moving
    <3> QED BY <1>1, <2>1, <2>2, <3>1 DEF OneRefresh, Moving
  <2>3. CASE ManifestURL \notin batch
    BY <1>1, <2>1, <2>3 DEF OneRefresh, Moving
  <2> QED BY <2>2, <2>3
<1>11. CASE WaitForHandler \/ ReadSegments \/ NothingToFetch
  <2>1. UNCHANGED <<fetching, events, batch, extras, pull>> /\ thread' # "sleeping"
    BY <1>11 DEF WaitForHandler, ReadSegments, NothingToFetch, OnlyThread
  <2> QED BY <1>1, <2>1 DEF OneRefresh, Moving
<1>12. ~ \E m \in Manifest : PushManifest(m)
  BY DEF PushManifest
<1>13. Abort \/ Join \/ Tick \/ UNCHANGED vars => UNCHANGED <<fetching, events, batch, extras, thread, pull>>
  BY DEF Abort, Join, Tick, vars
<1> QED BY <1>2, <1>4, <1>5, <1>6, <1>7, <1>8, <1>9, <1>10, <1>11, <1>12, <1>13 DEF Next, Worker

LEMMA RefreshStep ==
  TypeOK /\ Listed /\ Batch /\ RefreshGoesOn /\ [Next]_vars => RefreshGoesOn'
<1> SUFFICES ASSUME TypeOK, Listed, Batch, RefreshGoesOn, [Next]_vars PROVE RefreshGoesOn'
  OBVIOUS
<1> USE DEF rest, handlerVars, threadVars, sourceVars, InHand
<1>1. CASE UNCHANGED <<pull, handler, lost, thread, batch, extras, fetching, events>>
  BY <1>1 DEF RefreshGoesOn
<1>2. CASE lost' \/ thread' = "ended"
  BY <1>2 DEF RefreshGoesOn
<1>3. ASSUME NEW m \in Manifest, ManifestStored(m) PROVE RefreshGoesOn'
  <2>1. events' # <<>>
    BY <1>3 DEF ManifestStored, TypeOK
  <2> QED BY <2>1 DEF RefreshGoesOn
<1>4. CASE UpdateManifest \/ UpdateSegments
  <2>1. events' # <<>>
    BY <1>4 DEF UpdateManifest, UpdateSegments, HandlesEvents
  <2> QED BY <2>1 DEF RefreshGoesOn
<1>5. CASE MakeHandler
  <2> DEFINE m == Head(events).manifest
  <2>1. Head(events) \in Received /\ m \in Manifest
    BY <1>5, HeadReceived DEF MakeHandler, HandlesEvents
  <2>2. pull' = pull /\ Refresh(m, Head(events)) \subseteq extras' /\ handler' = <<m>>
    BY <1>5 DEF MakeHandler, EventHandled
  <2>3. pull /\ UpdatePeriod[m] > 0 => \E x \in extras' : x.url = ManifestURL
    BY <2>1, <2>2, RefreshOf
  <2>4. handler'[1] = m
    BY <2>2
  <2> QED BY <2>2, <2>3, <2>4 DEF RefreshGoesOn
<1>6. CASE UpdateRefresh
  <2>1. handler[1] \in Manifest /\ first[1] \in Received
    BY <1>6, HandlerTypes DEF UpdateRefresh, Listed
  <2>2. pull' = pull /\ Refresh(handler[1], first[1]) \subseteq extras' /\ handler' = handler
    BY <1>6 DEF UpdateRefresh, EventHandled
  <2>3. pull /\ UpdatePeriod[handler[1]] > 0 => \E x \in extras' : x.url = ManifestURL
    BY <2>1, <2>2, RefreshOf
  <2> QED BY <2>2, <2>3 DEF RefreshGoesOn
<1>7. CASE ReadSegments \/ Choose \/ WaitForHandler
  <2>1. batch = {} /\ thread # "ended" /\ UNCHANGED <<pull, handler, lost, extras, fetching, events>>
    BY <1>7 DEF ReadSegments, Choose, WaitForHandler, OnlyThread, Batch
  <2> QED BY <2>1 DEF RefreshGoesOn
<1>8. CASE Trim
  <2>1. /\ extras' = {x \in extras : x.url \notin batch} /\ UNCHANGED <<pull, handler, lost, fetching, events, batch>>
        /\ thread # "ended"
    BY <1>8 DEF Trim, OnlyThread
  <2> QED BY <2>1 DEF RefreshGoesOn
<1>9. CASE Hand
  <2>1. /\ fetching' = fetching + (IF ManifestURL \in batch THEN 1 ELSE 0)
        /\ thread # "ended" /\ UNCHANGED <<pull, extras, events, handler, lost>>
    BY <1>9, HandsAll DEF Hand
  <2>2. fetching \in Nat
    BY DEF TypeOK
  <2>3. CASE ManifestURL \in batch
    BY <2>1, <2>2, <2>3 DEF RefreshGoesOn
  <2>4. CASE ManifestURL \notin batch
    BY <2>1, <2>2, <2>4 DEF RefreshGoesOn
  <2> QED BY <2>3, <2>4
<1>10. RefreshNotRecognized \/ FetchFails \/ RefuseManifest \/ InvalidSegmentURL \/ NothingToFetch
         => lost' \/ thread' = "ended"
  BY DEF RefreshNotRecognized, FetchFails, RefuseManifest, InvalidSegmentURL, NothingToFetch
<1>11. Abort \/ Join \/ Tick \/ UNCHANGED vars =>
        UNCHANGED <<pull, handler, lost, thread, batch, extras, fetching, events>>
  BY DEF Abort, Join, Tick, vars
<1>12. \A m \in Manifest : PushManifest(m) \/ FetchManifest(m) => ManifestStored(m)
  BY DEF PushManifest, FetchManifest
<1> QED BY <1>1, <1>2, <1>3, <1>4, <1>5, <1>6, <1>7, <1>8, <1>9, <1>10, <1>11, <1>12 DEF Next, Worker, HandleEvent

-----------------------------------------------------------------------------
(* The media segments *)

LEMMA SegmentsPlan ==
  ASSUME TypeOK, Batch, Segments, ReadSegments
  PROVE  Segments'
<1>1. /\ handler # <<>> /\ handler[1] \in Manifest /\ thread = "plan" /\ UNCHANGED <<asked, now>>
      /\ planned' = Expected(handler[1]) /\ now \in Nat
      /\ thread' = "choosing" /\ upcoming' = NextSegments(handler[1])
  BY HandlerTypes DEF ReadSegments, Batch, TypeOK, OnlyThread
<1> SUFFICES ASSUME NEW s \in planned'
             PROVE  [url |-> s, at |-> AvailableFrom[s]] \in asked \/ Waits(s)'
  BY <1>1 DEF Segments
<1>2. s \in ToCome(handler[1]) \/ (s \in planned /\ AvailableFrom[s] <= now)
  BY <1>1 DEF Expected
<1>3. AvailableFrom[s] \in Nat
  BY <1>2 DEF ToCome, TypeOK, Segment
<1>4. CASE s \in planned /\ AvailableFrom[s] <= now
  BY <1>1, <1>3, <1>4 DEF Segments, Waits
<1>5. CASE s \in ToCome(handler[1])
  <2>1. PICK n \in NextSegments(handler[1]) :
          /\ AvailableFrom[n] <= AvailableFrom[s]
          /\ AvailableFrom[n] = AvailableFrom[s] => s \in NextSegments(handler[1])
    BY <1>1, <1>5, NextComesFirst
  <2>2. AvailableFrom[s] > now
    BY <1>5 DEF ToCome
  <2> QED BY <1>1, <2>1, <2>2 DEF Waits
<1> QED BY <1>2, <1>4, <1>5

LEMMA SegmentsChoose ==
  ASSUME TypeOK, Batch, Segments, Choose
  PROVE  Segments'
<1>1. /\ thread = "choosing" /\ thread' = "planned" /\ UNCHANGED <<asked, now, planned>>
      /\ fetchTime' \in Nat /\ fetchTime' >= now /\ now \in Nat
  BY Chosen DEF Choose, OnlyThread, TypeOK
<1> SUFFICES ASSUME NEW s \in planned
             PROVE  [url |-> s, at |-> AvailableFrom[s]] \in asked \/ Waits(s)'
  BY <1>1 DEF Segments
<1>2. CASE [url |-> s, at |-> AvailableFrom[s]] \in asked
  BY <1>2
<1>3. CASE Waits(s)
  <2>1. PICK n \in upcoming :
          /\ AvailableFrom[n] <= AvailableFrom[s]
          /\ AvailableFrom[n] = AvailableFrom[s] => s \in upcoming
    BY <1>1, <1>3 DEF Waits
  <2>2. ASSUME NEW u \in upcoming
        PROVE  AvailableFrom[u] \in Nat /\ fetchTime' <= AvailableFrom[u]
               /\ (fetchTime' = AvailableFrom[u] => u \in batch')
    <3> DEFINE c == [url |-> u, from |-> AvailableFrom[u]]
    <3>1. AvailableFrom[u] \in Nat /\ AvailableFrom[u] > now
      BY <1>1 DEF Batch, TypeOK, Segment
    <3>2. c \in Choices /\ c.url = u /\ c.from = AvailableFrom[u]
      BY DEF Choices
    <3>3. Due(c) = AvailableFrom[u]
      BY <1>1, <3>1, <3>2 DEF Due, Later
    <3> HIDE DEF c
    <3> QED BY <3>1, <3>2, <3>3, Chosen
  <2>3. AvailableFrom[s] \in Nat
    BY DEF TypeOK, Segment
  <2>4. fetchTime' <= AvailableFrom[s]
    BY <1>1, <2>1, <2>2, <2>3
  <2>5. AvailableFrom[s] = fetchTime' => s \in batch'
    BY <1>1, <2>1, <2>2, <2>3
  <2> QED BY <1>1, <2>3, <2>4, <2>5 DEF Waits
<1> QED BY <1>1, <1>2, <1>3 DEF Segments

LEMMA SegmentsHand ==
  ASSUME TypeOK, Batch, Segments, Hand
  PROVE  Segments'
<1>1. /\ thread = "sleeping" /\ now = fetchTime /\ UNCHANGED <<planned, now>>
      /\ asked' = asked \cup {[url |-> u, at |-> now] : u \in batch}
      /\ thread' \in {"plan", "ended"}
  BY HandsAll DEF Hand
<1> SUFFICES ASSUME NEW s \in planned, thread' = "plan"
             PROVE  [url |-> s, at |-> AvailableFrom[s]] \in asked' \/ Waits(s)'
  BY <1>1 DEF Segments
<1>2. AvailableFrom[s] \in Nat /\ now \in Nat
  BY DEF TypeOK, Segment
<1>3. CASE [url |-> s, at |-> AvailableFrom[s]] \in asked
  BY <1>1, <1>3
<1>4. CASE AvailableFrom[s] = fetchTime /\ s \in batch
  BY <1>1, <1>4
<1>5. CASE AvailableFrom[s] > fetchTime
  BY <1>1, <1>5 DEF Waits
<1> QED BY <1>1, <1>2, <1>3, <1>4, <1>5 DEF Segments, Waits

LEMMA SegmentsStep == TypeOK /\ Batch /\ Segments /\ [Next]_vars => Segments'
<1> SUFFICES ASSUME TypeOK, Batch, Segments, [Next]_vars PROVE Segments'
  OBVIOUS
<1>1. CASE UNCHANGED <<threadVars, asked, now>>
  BY <1>1 DEF Segments, Waits, threadVars
<1>2. CASE UNCHANGED <<threadVars, asked>> /\ Idle
  BY <1>2 DEF Idle, Segments, Waits, threadVars, Batch
<1>3. CASE WaitForHandler
  BY <1>3 DEF WaitForHandler, Batch, Segments
<1>4. CASE Trim
  BY <1>4 DEF Trim, OnlyThread, Segments, Waits
<1>5. CASE InvalidSegmentURL \/ NothingToFetch
  BY <1>5 DEF InvalidSegmentURL, NothingToFetch, Segments
<1>6. CASE UNCHANGED vars
  BY <1>1, <1>6 DEF vars, rest
<1> QED BY <1>1, <1>2, <1>3, <1>4, <1>5, <1>6, SegmentsPlan, SegmentsChoose, SegmentsHand, OutsideFrame,
           HandleEventFrame
        DEF Next, Outside, Worker

\* a segment whose time has passed is not waiting
LEMMA NoneMissed == TypeOK /\ Batch /\ Segments => NoSegmentMissed
<1> SUFFICES ASSUME TypeOK, Batch, Segments, NEW s \in planned, AvailableFrom[s] < now, thread # "ended"
             PROVE  \E a \in asked : a.url = s /\ a.at = AvailableFrom[s]
  BY DEF NoSegmentMissed
<1>1. AvailableFrom[s] \in Nat /\ now \in Nat /\ fetchTime \in Nat
  BY DEF TypeOK, Segment
<1>2. ~Waits(s)
  BY <1>1 DEF Waits, Batch
<1>3. [url |-> s, at |-> AvailableFrom[s]] \in asked
  BY <1>2 DEF Segments
<1> QED BY <1>3

-----------------------------------------------------------------------------
(* The cache *)

\* m_manifest is set once
LEMMA FirstStays ==
  ASSUME TypeOK, first # <<>>, [Next]_vars
  PROVE  first' = first /\ ~MakeHandler
<1>1. handler # <<>>
  BY DEF TypeOK
<1>2. ~MakeHandler
  BY <1>1 DEF MakeHandler
<1>3. HandleEvent => first' = first
  BY <1>2 DEF HandleEvent, UpdateManifest, UpdateSegments, UpdateRefresh, RefuseManifest, handlerVars
<1>4. Worker => first' = first
  BY DEF Worker, WaitForHandler, ReadSegments, NothingToFetch, Choose, Trim, InvalidSegmentURL, Hand,
         OnlyThread, handlerVars
<1>5. UNCHANGED vars => first' = first
  BY DEF vars, handlerVars
<1>6. Outside => first' = first
  BY OutsideFrame DEF handlerVars
<1> QED BY <1>2, <1>3, <1>4, <1>5, <1>6 DEF Next, Outside

LEMMA FreshStep == TypeOK /\ Listed /\ Batch /\ Fresh /\ [Next]_vars => Fresh'
<1> SUFFICES ASSUME TypeOK, Listed, Batch, Fresh, [Next]_vars PROVE Fresh'
  OBVIOUS
<1>1. CASE UNCHANGED <<first, extras, batch, asked>> /\ (batch # {} => fetchTime' = fetchTime)
  BY <1>1 DEF Fresh, FreshUntil, RefreshHonoursCache
<1>2. CASE UNCHANGED vars \/ Outside
  BY <1>1, <1>2, OutsideFrame DEF vars, rest, handlerVars, threadVars
<1>3. CASE MakeHandler
  <2> DEFINE I == InitSegments(Head(events).manifest)
             R == Refresh(Head(events).manifest, Head(events))
  <2>1. Head(events) \in Received /\ Head(events).manifest \in Manifest
    BY <1>3, HeadReceived DEF MakeHandler, HandlesEvents
  <2>2. first = <<>> /\ ManifestURL \notin batch /\ \A a \in asked : a.url # ManifestURL
    BY <1>3, FirstStays DEF Fresh, RefreshHonoursCache
  <2>3. first'[1] = Head(events) /\ extras' = I \cup R
    BY <1>3 DEF MakeHandler
  <2>4. UNCHANGED <<batch, asked>>
    BY <1>3 DEF MakeHandler, EventHandled, rest, threadVars
  <2>5. /\ \A x \in I : x.url # ManifestURL
        /\ \A x \in R : x.from >= Head(events).time + Lifetime[Head(events).manifest]
    BY <2>1, InitSegmentsOf, RefreshOf
  <2> HIDE DEF I, R
  <2>6. \A x \in extras' : x.url = ManifestURL => x.from >= FreshUntil'
    BY <2>3, <2>5 DEF FreshUntil
  <2> QED BY <2>2, <2>4, <2>6 DEF Fresh, RefreshHonoursCache
<1>4. CASE UpdateSegments
  <2>1. handler[1] \in Manifest /\ extras' = InitSegments(handler[1])
    BY <1>4, HandlerTypes DEF UpdateSegments, Listed
  <2>2. UNCHANGED <<first, batch, fetchTime, asked>>
    BY <1>4 DEF UpdateSegments, rest, threadVars
  <2>3. \A x \in extras' : x.url # ManifestURL
    BY <2>1, InitSegmentsOf
  <2> QED BY <2>2, <2>3 DEF Fresh, FreshUntil, RefreshHonoursCache
<1>5. CASE UpdateRefresh
  <2> DEFINE R == Refresh(handler[1], first[1])
  <2>1. handler[1] \in Manifest /\ first # <<>> /\ first[1] \in Received
    BY <1>5, HandlerTypes DEF UpdateRefresh, Listed
  <2>2. extras' = extras \cup R /\ UNCHANGED <<first, batch, fetchTime, asked>>
    BY <1>5 DEF UpdateRefresh, EventHandled, rest, threadVars
  <2>3. \A x \in R : x.from >= FreshUntil
    BY <2>1, RefreshOf DEF FreshUntil
  <2> HIDE DEF R
  <2> QED BY <2>1, <2>2, <2>3 DEF Fresh, FreshUntil, RefreshHonoursCache
<1>6. CASE RefuseManifest \/ UpdateManifest
  BY <1>1, <1>6 DEF RefuseManifest, UpdateManifest, EventHandled, rest, handlerVars, threadVars
<1>7. CASE WaitForHandler \/ ReadSegments \/ NothingToFetch
  BY <1>1, <1>7 DEF WaitForHandler, ReadSegments, NothingToFetch, OnlyThread
<1>8. CASE Choose
  <2>1. UNCHANGED <<first, extras, asked>>
    BY <1>8 DEF Choose, OnlyThread
  <2>2. handler # <<>> /\ first # <<>> /\ first[1] \in Received
    BY <1>8, HandlerTypes DEF Choose, Batch
  <2>3. ASSUME ManifestURL \in batch' PROVE fetchTime' >= FreshUntil
    <3>1. PICK c \in Choices : ManifestURL = c.url /\ Due(c) = fetchTime'
      BY <1>8, <2>3, Chosen
    <3>2. c \in extras
      BY <3>1, ChoicesOf DEF Segment
    <3>3. c.from >= FreshUntil /\ Due(c) >= c.from /\ Due(c) \in Nat /\ c.from \in Nat
      BY <3>1, <3>2, ChoicesOf DEF Fresh, TypeOK, Extra
    <3>4. FreshUntil \in Nat
      BY <2>2 DEF FreshUntil, Received
    <3> QED BY <3>1, <3>3, <3>4
  <2> QED BY <2>1, <2>2, <2>3 DEF Fresh, FreshUntil, RefreshHonoursCache
<1>9. CASE Trim \/ InvalidSegmentURL
  <2>1. extras' \subseteq extras /\ batch' \subseteq batch /\ UNCHANGED <<first, fetchTime, asked>>
    BY <1>9 DEF Trim, InvalidSegmentURL, OnlyThread
  <2> QED BY <2>1 DEF Fresh, FreshUntil, RefreshHonoursCache
<1>10. CASE Hand
  <2>1. UNCHANGED <<first, extras>> /\ batch' = {}
    BY <1>10 DEF Hand, handlerVars
  <2>2. ASSUME NEW a \in asked', a.url = ManifestURL
        PROVE  first # <<>> /\ a.at >= FreshUntil
    <3>1. CASE a \in asked
      BY <2>2, <3>1 DEF Fresh, FreshUntil, RefreshHonoursCache
    <3>2. CASE a \notin asked
      <4>1. PICK u \in batch : a = [url |-> u, at |-> now]
        BY <1>10, <2>2, <3>2, HandsAll
      <4>2. a.at = fetchTime /\ ManifestURL \in batch
        BY <1>10, <2>2, <4>1, HandsAll
      <4> QED BY <4>2 DEF Fresh
    <3> QED BY <3>1, <3>2
  <2> QED BY <2>1, <2>2 DEF Fresh, FreshUntil, RefreshHonoursCache
<1> QED BY <1>2, <1>3, <1>4, <1>5, <1>6, <1>7, <1>8, <1>9, <1>10 DEF Next, Outside, HandleEvent, Worker

-----------------------------------------------------------------------------
(* The theorems *)

LEMMA InitInv == Init => Inv
<1> SUFFICES ASSUME Init PROVE Inv
  OBVIOUS
<1>1. NothingTooEarly /\ Moving /\ RefreshGoesOn /\ Segments
  BY DEF Init, NothingTooEarly, Moving, RefreshGoesOn, Segments
<1>2. Batch /\ Listed
  BY FS_EmptySet DEF Init, Batch, Listed
<1>3. OneRefresh
  BY DEF Init, OneRefresh, InHand
<1>4. Fresh
  BY DEF Init, Fresh, RefreshHonoursCache
<1> QED BY <1>1, <1>2, <1>3, <1>4, InitTypes DEF Inv

LEMMA StepInv == Inv /\ [Next]_vars => Inv'
<1> SUFFICES ASSUME Inv, [Next]_vars PROVE Inv'
  OBVIOUS
<1>1. TypeOK'
  <2>1. CASE UNCHANGED vars
    BY <2>1 DEF Inv, TypeOK, vars, rest, handlerVars, threadVars, sourceVars
  <2> QED BY <2>1, OutsideTypes, HandleEventTypes, WorkerTypes DEF Inv, Next, Outside
<1> QED BY <1>1, ListedStep, BatchStep, EarlyStep, OneRefreshStep, RefreshStep, FreshStep, SegmentsStep DEF Inv

LEMMA Always == Spec => []Inv
BY InitInv, StepInv, PTL DEF Spec

\* The scheduler's state keeps its types, whatever the manifests announce.
THEOREM TypeCorrect == Spec => []TypeOK
<1>1. Inv => TypeOK
  BY DEF Inv
<1> QED BY <1>1, Always, PTL

\* No segment is asked of the server before it is there, and no manifest while the
\* first response is fresh, through any updates: what the thread sleeps on was chosen
\* for the time it wakes up at (DASHManifestHandler.cc:97-149).
THEOREM NeverTooEarly == Spec => []NothingAskedEarly
<1>1. Inv => NothingAskedEarly
  BY DEF Inv, Fresh, NothingAskedEarly
<1> QED BY <1>1, Always, PTL

\* The refresh of the manifest is in one place at a time, through updates of the
\* handler that come between the thread's steps.
THEOREM RefreshIsUnique == Spec => []OneRefresh
<1>1. Inv => OneRefresh
  BY DEF Inv
<1> QED BY <1>1, Always, PTL

\* The refresh is never dropped by the scheduler itself.
THEOREM RefreshIsKept == Spec => []RefreshGoesOn
<1>1. Inv => RefreshGoesOn
  BY DEF Inv
<1> QED BY <1>1, Always, PTL

\* A planned segment is asked for at the time it becomes available, with any number
\* of representations and segments: the batch holds all that is due when the
\* thread wakes up, and there is an ingester for each item.
THEOREM SegmentsInTime == Spec => []NoSegmentMissed
<1>1. Inv => NoSegmentMissed
  BY NoneMissed DEF Inv
<1> QED BY <1>1, Always, PTL
=============================================================================
