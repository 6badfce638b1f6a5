----------------------------- MODULE AppProofs -----------------------------
(***************************************************************************)
(* Theorems about App, for any sessions and requests.                      *)
(*                                                                         *)
(* Orders says that requests are answered in the order of their numbers,   *)
(* Erasing where a session is between the map and the answer to its        *)
(* DELETE; with them every step of the two threads is one of the abstract  *)
(* registry, or none.                                                      *)
(***************************************************************************)
EXTENDS App, TLAPS

USE SessionAssumption, RequestAssumption, RequestBound

Busy == {"dispatching", "calling", "handling", "refusing", "destroying"}

\* the request that the event thread is handling
Held ==
  /\ main \in {"starting", "initialised"} => thread = "none"
  /\ thread \in Busy => current # <<>>
  /\ thread \notin Busy \cup {"crashed", "killed"} => current = <<>>
  /\ thread = "refusing" => Unwinds(Now)

\* numbers grow from the answers to the current request and along the queue
Orders ==
  /\ \A j, k \in DOMAIN queue : j < k => queue[j] < queue[k]
  /\ \A k \in DOMAIN queue : current # <<>> => current[1] < queue[k]
  /\ \A k \in DOMAIN served :
       /\ served[k].number \in DOMAIN received
       /\ \A j \in DOMAIN queue : served[k].number < queue[j]
       /\ current # <<>> => served[k].number < current[1]

\* a session is in the map under its identifier, and not when it is being deleted
Erasing ==
  /\ \A i \in DOMAIN sessions : sessions[i].id = i
  /\ doomed # <<>> =>
       \/ thread \in {"refusing", "destroying", "dropping", "killed"}
       \/ thread = "crashed" /\ ~context
  /\ thread = "destroying" =>
       /\ doomed # <<>>
       /\ Now.method = "DELETE" /\ Now.ref = doomed[1].id
       /\ doomed[1].id \notin DOMAIN sessions

Inv == TypeOK /\ Held /\ Orders /\ Erasing /\ RatesReadable /\ CreatedIffServable

-----------------------------------------------------------------------------
(* The constructors *)

LEMMA ConstructorResults ==
  ASSUME NEW s \in DistSession
  PROVE  /\ PackagerMade(s) \in {"made", "logic_error"}
         /\ ObjectListController(s) \in {"made", "logic_error", "runtime_error"}
         /\ ObjectStreamingController(s) \in {"made", "logic_error", "runtime_error"}
         /\ ObjectListController(s) = "made" \/ ObjectStreamingController(s) = "made"
              => Servable(s)
         /\ Servable(s) =>
              \/ ObjectListController(s) = "made"
              \/ ObjectListController(s) = "logic_error" /\ ObjectStreamingController(s) = "made"
BY DEF PackagerMade, ObjectListController, ObjectStreamingController, Servable

LEMMA LeastOfTwo ==
  ASSUME NEW S \in SUBSET (1..2), S # {}
  PROVE  Min(S) \in S /\ (1 \in S => Min(S) = 1)
<1>1. \E x \in S : \A y \in S : x <= y
  <2>1. CASE 1 \in S
    BY <2>1
  <2>2. CASE 1 \notin S
    <3>1. \A y \in S : y = 2
      BY <2>2
    <3>2. 2 \in S
      BY <3>1
    <3> QED BY <3>1, <3>2
  <2> QED BY <2>1, <2>2
<1>2. Min(S) \in S /\ \A y \in S : Min(S) <= y
  BY <1>1 DEF Min
<1>3. ASSUME 1 \in S PROVE Min(S) = 1
  <2> DEFINE m == Min(S)
  <2>1. m \in 1..2 /\ m <= 1
    BY <1>2, <1>3
  <2> HIDE DEF m
  <2>2. m = 1
    BY <2>1
  <2> QED BY <2>2 DEF m
<1> QED BY <1>2, <1>3

\* the factory makes a controller exactly for the sessions that one can serve
LEMMA FactoryIsRight ==
  ASSUME NEW s \in DistSession
  PROVE  /\ makeController(s) \in {"made", "none", "runtime_error"}
         /\ makeController(s) = "made" <=> Servable(s)
<1> DEFINE decided == {k \in 1..2 : Constructors(s)[k] # "logic_error"}
<1>1. /\ Constructors(s)[1] = ObjectListController(s)
      /\ Constructors(s)[2] = ObjectStreamingController(s)
  BY DEF Constructors
<1>2. makeController(s) = IF decided = {} THEN "none" ELSE Constructors(s)[Min(decided)]
  BY DEF makeController
<1>3. CASE ObjectListController(s) # "logic_error"
  <2>1. 1 \in decided /\ decided \in SUBSET (1..2)
    BY <1>1, <1>3
  <2>2. Min(decided) = 1 /\ decided # {}
    <3> HIDE DEF decided
    <3> QED BY <2>1, LeastOfTwo
  <2>3. makeController(s) = ObjectListController(s)
    <3> HIDE DEF decided
    <3> QED BY <1>1, <1>2, <2>2
  <2> QED BY <1>3, <2>3, ConstructorResults
<1>4. CASE ObjectListController(s) = "logic_error" /\ ObjectStreamingController(s) # "logic_error"
  <2>1. decided = {2}
    BY <1>1, <1>4
  <2>2. Min(decided) \in decided /\ decided # {}
    BY <2>1, LeastOfTwo
  <2>3. makeController(s) = ObjectStreamingController(s)
    <3> HIDE DEF decided
    <3> QED BY <1>1, <1>2, <2>1, <2>2
  <2> QED BY <1>4, <2>3, ConstructorResults
<1>5. CASE ObjectListController(s) = "logic_error" /\ ObjectStreamingController(s) = "logic_error"
  <2>1. decided = {}
    BY <1>1, <1>5
  <2> QED BY <1>2, <1>5, <2>1, ConstructorResults
<1> QED BY <1>3, <1>4, <1>5

-----------------------------------------------------------------------------
(* The answers *)

LEMMA PostStatus ==
  ASSUME NEW q \in Request
  PROVE  /\ Post(q) \in {201, 400, 404, 405, 415, 501}
         /\ Post(q) = 201 => q.body \in DistSession /\ makeController(q.body) = "made"
         /\ Post(q) = 404 => q.sub # NoPart
         /\ Post(q) \in {400, 501} /\ q.ref = NoPart /\ q.body \in DistSession
              => makeController(q.body) # "made"
<1>1. CASE q.ref # NoPart /\ q.sub = "subscriptions"
  <2>1. q.sub # NoPart
    BY <1>1, Zenon DEF NoPart
  <2>2. Post(q) = 501
    BY <1>1, <2>1 DEF Post
  <2> QED BY <1>1, <2>2
<1>2. CASE q.ref # NoPart /\ q.sub \notin {NoPart, "subscriptions"}
  <2>1. Post(q) = 404
    BY <1>2 DEF Post
  <2> QED BY <1>2, <2>1
<1>3. CASE q.ref # NoPart /\ q.sub = NoPart
  <2>1. Post(q) = 405
    BY <1>3 DEF Post
  <2> QED BY <1>3, <2>1
<1>4. CASE q.ref = NoPart /\ ~q.json
  <2>1. Post(q) = 415
    BY <1>4 DEF Post
  <2> QED BY <1>4, <2>1
<1>5. CASE q.ref = NoPart /\ q.json /\ q.body \notin DistSession
  <2>1. Post(q) = 400
    BY <1>5 DEF Post
  <2> QED BY <1>5, <2>1
<1>6. CASE q.ref = NoPart /\ q.json /\ q.body \in DistSession
  <2>1. makeController(q.body) \in {"made", "none", "runtime_error"}
    BY <1>6, FactoryIsRight
  <2>2. Post(q) = CASE makeController(q.body) = "none" -> 501
                    [] makeController(q.body) = "runtime_error" -> 400
                    [] OTHER -> 201
    BY <1>6 DEF Post
  <2>3. CASE makeController(q.body) = "none" BY <1>6, <2>2, <2>3
  <2>4. CASE makeController(q.body) = "runtime_error" BY <1>6, <2>2, <2>4
  <2>5. CASE makeController(q.body) = "made" BY <1>6, <2>2, <2>5
  <2> QED BY <2>1, <2>3, <2>4, <2>5
<1> QED BY <1>1, <1>2, <1>3, <1>4, <1>5, <1>6

\* a request to the distribution session API that gets as far as its method
ToSessions(q) == q.service = "nmbstf-distsession" /\ q.v1 /\ q.resource = "dist-sessions"

LEMMA StatusByMethod ==
  ASSUME NEW q \in Request
  PROVE  /\ ToSessions(q) =>
              /\ q.method = "POST" => Status(q) = Post(q)
              /\ q.method = "GET" => Status(q) = Get(q)
              /\ q.method = "DELETE" => Status(q) = Delete(q)
              /\ q.method = "OPTIONS" => Status(q) = Options(q)
              /\ q.method \notin {"POST", "GET", "DELETE", "OPTIONS"} => Status(q) = 400
         /\ ~ToSessions(q) =>
              /\ Status(q) \in {204, 400, 403}
              /\ Status(q) = 204 => q.method = "POST" /\ q.service # "nmbstf-distsession"
<1>1. CASE ToSessions(q)
  <2>1. Status(q) = DistSessionStatus(q)
    BY <1>1 DEF Status, ToSessions
  <2>2. q.method = "POST" => Status(q) = Post(q)
    BY <1>1, <2>1 DEF DistSessionStatus, ToSessions
  <2>3. q.method = "GET" => Status(q) = Get(q)
    BY <1>1, <2>1 DEF DistSessionStatus, ToSessions
  <2>4. q.method = "DELETE" => Status(q) = Delete(q)
    BY <1>1, <2>1 DEF DistSessionStatus, ToSessions
  <2>5. q.method = "OPTIONS" => Status(q) = Options(q)
    BY <1>1, <2>1 DEF DistSessionStatus, ToSessions
  <2>6. q.method \notin {"POST", "GET", "DELETE", "OPTIONS"} => Status(q) = 400
    BY <1>1, <2>1 DEF DistSessionStatus, ToSessions
  <2> QED BY <1>1, <2>2, <2>3, <2>4, <2>5, <2>6
<1>2. CASE ~ToSessions(q) /\ q.service = "nmbstf-distsession"
  <2>1. Status(q) = 400
    BY <1>2 DEF Status, DistSessionStatus, ToSessions
  <2> QED BY <1>2, <2>1
<1>3. CASE q.service # "nmbstf-distsession"
  BY <1>3 DEF Status, OtherStatus, ToSessions
<1> QED BY <1>1, <1>2, <1>3

LEMMA StatusOf ==
  ASSUME NEW q \in Request
  PROVE  /\ Status(q) \in {200, 201, 204, 400, 403, 404, 405, 415, 501}
         /\ Status(q) = 201 =>
              /\ q.method = "POST" /\ UsesContext(q)
              /\ q.body \in DistSession /\ makeController(q.body) = "made"
         /\ Status(q) = 200 => q.method = "GET" /\ q.ref \in DOMAIN sessions
         /\ Status(q) = 204 /\ q.method = "DELETE" => UsesContext(q) /\ q.ref \in DOMAIN sessions
         /\ Status(q) = 404 /\ q.ref # NoPart /\ q.sub = NoPart => q.ref \notin DOMAIN sessions
         /\ ToSessions(q) /\ q.method = "POST" /\ q.ref = NoPart /\ q.body \in DistSession
              /\ Status(q) \in {400, 501} => makeController(q.body) # "made"
<1>1. CASE ~ToSessions(q)
  BY <1>1, StatusByMethod
<1>2. CASE ToSessions(q) /\ q.method = "POST"
  <2>1. Status(q) = Post(q)
    BY <1>2, StatusByMethod
  <2>2. Post(q) = 201 => UsesContext(q)
    BY <1>2 DEF UsesContext, ToSessions
  <2> QED BY <1>2, <2>1, <2>2, PostStatus
<1>3. CASE ToSessions(q) /\ q.method = "GET"
  <2>1. Status(q) = Get(q)
    BY <1>3, StatusByMethod
  <2> QED BY <1>3, <2>1 DEF Get
<1>4. CASE ToSessions(q) /\ q.method = "DELETE"
  <2>1. Status(q) = Delete(q)
    BY <1>4, StatusByMethod
  <2>2. Delete(q) = 204 => UsesContext(q)
    BY <1>4 DEF Delete, UsesContext, ToSessions
  <2> QED BY <1>4, <2>1, <2>2 DEF Delete
<1>5. CASE ToSessions(q) /\ q.method = "OPTIONS"
  <2>1. Status(q) = Options(q)
    BY <1>5, StatusByMethod
  <2> QED BY <1>5, <2>1 DEF Options
<1>6. CASE ToSessions(q) /\ q.method \notin {"POST", "GET", "DELETE", "OPTIONS"}
  BY <1>6, StatusByMethod
<1> QED BY <1>1, <1>2, <1>3, <1>4, <1>5, <1>6

\* a POST that is refused when its ingesters run
LEMMA UnwindsStatus ==
  ASSUME NEW q \in Request, Unwinds(q)
  PROVE  /\ q.method = "POST"
         /\ Status(q) \in {200, 204, 400, 403, 404, 405, 415, 501}
BY StatusOf DEF Unwinds, Posts

-----------------------------------------------------------------------------
(* Kinds of steps *)

\* the steps of the main thread, and destructors, that leave the sessions alone
Around ==
  \/ Initialise \/ InitialiseFails \/ StartEventHandler \/ StartEventHandlerFails \/ Unregister
  \/ TerminateQueue \/ JoinThread
  \/ \E s \in DistSession : ContextDestroys(s)

Crashes == CallResetHandler \/ UseResetContext \/ EndDeleteWithoutContext

\* the steps of the event thread between two requests
Between == PollReturns \/ Pop \/ DispatchEvent \/ CallHandler

LEMMA Kinds ==
  Next => \/ Around \/ Crashes \/ Between
          \/ \E q \in Request : Receive(q)
          \/ CreateSession \/ EndDrop \/ BeginRefusal \/ EndRefusal
          \/ BeginDelete \/ EndDelete \/ HandleOther
          \/ ControllerCrashes \/ ResetContext
BY DEF Next, Around, Crashes, Between, EventThread, HandleEvent, Terminate

LEMMA AroundFrame ==
  Around =>
    /\ UNCHANGED <<sessions, queue, received, current, doomed, served>>
    /\ thread' = thread \/ (main = "initialised" /\ main' = "running" /\ thread' = "polling")
    /\ main' # "starting" \/ main' = main
    /\ context' = context \/ (main = "starting" /\ context' = TRUE)
<1> USE DEF registryVars, appVars
<1>1. Initialise \/ InitialiseFails \/ StartEventHandler \/ StartEventHandlerFails =>
        /\ UNCHANGED <<sessions, queue, received, current, doomed, served>>
        /\ thread' = thread \/ (main = "initialised" /\ main' = "running" /\ thread' = "polling")
        /\ main' # "starting"
        /\ context' = context \/ (main = "starting" /\ context' = TRUE)
  BY DEF Initialise, InitialiseFails, StartEventHandler, StartEventHandlerFails
<1>2. Unregister \/ TerminateQueue \/ JoinThread =>
        /\ UNCHANGED <<sessions, queue, received, current, doomed, served, thread, context>>
        /\ main' # "starting"
  BY DEF Unregister, TerminateQueue, JoinThread
<1>3. \A s : ContextDestroys(s) =>
        UNCHANGED <<sessions, queue, received, current, doomed, served, thread, context, main>>
  BY DEF ContextDestroys
<1> QED BY <1>1, <1>2, <1>3 DEF Around

LEMMA CrashFrame ==
  Crashes =>
    /\ UNCHANGED <<sessions, queue, received, current, doomed, served, handler, context, terminated>>
    /\ thread' = "crashed" /\ main' = "crashed" /\ dying' = {}
    /\ thread \in {"calling", "handling", "destroying"} /\ (thread = "destroying" => ~context)
BY DEF Crashes, CallResetHandler, UseResetContext, EndDeleteWithoutContext, Crash, registryVars

LEMMA BetweenFrame ==
  Between =>
    /\ UNCHANGED <<sessions, received, doomed, served, dying, main, handler, context, terminated>>
    /\ thread' \in {"popping", "done", "polling", "dispatching", "calling", "handling"}
    /\ thread \in {"polling", "popping", "dispatching", "calling"}
BY DEF Between, PollReturns, Pop, DispatchEvent, CallHandler, OnlyThread, appVars

-----------------------------------------------------------------------------
(* Types *)

LEMMA InitTypes == Init => TypeOK
<1> SUFFICES ASSUME Init PROVE TypeOK
  OBVIOUS
<1>1. sessions \in [DOMAIN sessions -> DistSession] /\ DOMAIN sessions \subseteq Id
  BY DEF Init
<1>2. /\ received \in Seq(Request) /\ queue \in Seq(DOMAIN received)
      /\ current \in Seq(DOMAIN received) /\ Len(current) <= 1
      /\ doomed \in Seq(DistSession) /\ Len(doomed) <= 1
      /\ served \in Seq([number : Nat, request : Request, status : Nat])
  BY DEF Init
<1>3. main \in MainAt /\ thread \in ThreadAt
  BY DEF Init, MainAt, ThreadAt
<1> QED BY <1>1, <1>2, <1>3 DEF Init, TypeOK

\* the request that is being handled
LEMMA HeldRequest ==
  ASSUME TypeOK, current # <<>>
  PROVE  current[1] \in DOMAIN received /\ Now \in Request /\ DOMAIN received \subseteq Nat
BY DEF TypeOK, Now

LEMMA AnswerTypes ==
  ASSUME TypeOK, current # <<>>, NEW status \in Nat, Answer(status)
  PROVE  served' \in Seq([number : Nat, request : Request, status : Nat])
<1> DEFINE a == [number |-> current[1], request |-> Now, status |-> status]
           A == [number : Nat, request : Request, status : Nat]
<1>1. a \in A
  BY HeldRequest
<1>2. served \in Seq(A) /\ served' = Append(served, a)
  BY DEF TypeOK, Answer
<1> HIDE DEF a, A
<1>3. served' \in Seq(A)
  BY <1>1, <1>2
<1> QED BY <1>3 DEF A

LEMMA AroundTypes == TypeOK /\ Around => TypeOK'
<1> SUFFICES ASSUME TypeOK, Around PROVE TypeOK'
  OBVIOUS
<1>1. main' \in MainAt /\ thread' \in ThreadAt
  BY DEF Around, Initialise, InitialiseFails, StartEventHandler, StartEventHandlerFails, Unregister, TerminateQueue, JoinThread,
         ContextDestroys, appVars, TypeOK, MainAt, ThreadAt
<1>2. handler' \in BOOLEAN /\ context' \in BOOLEAN /\ terminated' \in BOOLEAN
  BY DEF Around, Initialise, InitialiseFails, StartEventHandler, StartEventHandlerFails, Unregister, TerminateQueue, JoinThread,
         ContextDestroys, appVars, TypeOK
<1>3. dying' \subseteq DistSession
  BY DEF Around, Initialise, InitialiseFails, StartEventHandler, StartEventHandlerFails, Unregister, TerminateQueue, JoinThread,
         ContextDestroys, TypeOK
<1> QED BY <1>1, <1>2, <1>3, AroundFrame DEF TypeOK

LEMMA CrashTypes == TypeOK /\ Crashes => TypeOK'
BY CrashFrame DEF TypeOK, MainAt, ThreadAt

LEMMA BetweenTypes == TypeOK /\ Between => TypeOK'
<1> SUFFICES ASSUME TypeOK, Between PROVE TypeOK'
  OBVIOUS
<1>1. thread' \in ThreadAt
  BY BetweenFrame DEF ThreadAt
<1>2. /\ queue' \in Seq(DOMAIN received)
      /\ current' \in Seq(DOMAIN received) /\ Len(current') <= 1
  <2>1. CASE UNCHANGED <<queue, current>>
    BY <2>1 DEF TypeOK
  <2>2. CASE queue # <<>> /\ current' = <<Head(queue)>> /\ queue' = Tail(queue)
    BY <2>2 DEF TypeOK
  <2>3. CASE queue' = queue /\ current' = <<>>
    BY <2>3 DEF TypeOK
  <2> QED BY <2>1, <2>2, <2>3 DEF Between, PollReturns, Pop, DispatchEvent, CallHandler
<1> QED BY <1>1, <1>2, BetweenFrame DEF TypeOK

LEMMA ReceiveTypes ==
  ASSUME TypeOK, NEW q \in Request, Receive(q)
  PROVE  TypeOK'
<1>1. received' = Append(received, q) /\ received \in Seq(Request)
  BY DEF Receive, TypeOK
<1>2. received' \in Seq(Request) /\ DOMAIN received \subseteq DOMAIN received'
      /\ Len(received) + 1 \in DOMAIN received'
  BY <1>1
<1>3. queue \in Seq(DOMAIN received') /\ current \in Seq(DOMAIN received')
  BY <1>2 DEF TypeOK
<1>4. queue' \in Seq(DOMAIN received')
  <2>1. queue' = queue \/ queue' = Append(queue, Len(received) + 1)
    BY DEF Receive
  <2>2. Append(queue, Len(received) + 1) \in Seq(DOMAIN received')
    BY <1>2, <1>3
  <2> QED BY <1>3, <2>1, <2>2
<1>5. UNCHANGED <<sessions, main, thread, handler, context, terminated, current, doomed, dying, served>>
  BY DEF Receive, appVars, registryVars
<1> QED BY <1>2, <1>3, <1>4, <1>5 DEF TypeOK

LEMMA HandleTypes ==
  ASSUME TypeOK, Held, CreateSession \/ BeginRefusal \/ EndRefusal
                         \/ BeginDelete \/ EndDelete \/ HandleOther
  PROVE  TypeOK'
<1>1. current # <<>> /\ Now \in Request
  <2>1. current # <<>>
    BY DEF Held, Busy, CreateSession, BeginRefusal, EndRefusal, BeginDelete, EndDelete, HandleOther
  <2> QED BY <2>1, HeldRequest
<1>2. CASE CreateSession
  <2>1. Now.body \in DistSession /\ Now.body.id \in Id
    BY <1>1, <1>2, StatusOf DEF CreateSession
  <2>2. sessions' \in [DOMAIN sessions' -> DistSession] /\ DOMAIN sessions' \subseteq Id
    BY <1>2, <2>1 DEF CreateSession, AddSession, TypeOK
  <2>3. served' \in Seq([number : Nat, request : Request, status : Nat])
    <3>1. Answer(201) /\ 201 \in Nat
      BY <1>2 DEF CreateSession, Reply
    <3> QED BY <1>1, <3>1, AnswerTypes
  <2>4. thread' \in ThreadAt /\ current' \in Seq(DOMAIN received) /\ Len(current') <= 1
    BY <1>2 DEF CreateSession, Reply, ThreadAt
  <2>5. doomed' \in Seq(DistSession) /\ Len(doomed') <= 1
    <3>1. doomed' = doomed \/ doomed' = <<Now.body>>
      BY <1>2 DEF CreateSession
    <3>2. CASE doomed' = doomed
      BY <3>2 DEF TypeOK
    <3>3. CASE doomed' = <<Now.body>>
      BY <2>1, <3>3
    <3> QED BY <3>1, <3>2, <3>3
  <2> QED BY <1>2, <2>2, <2>3, <2>4, <2>5 DEF CreateSession, appVars, TypeOK
<1>3. CASE BeginDelete
  <2>1. Now.ref \in DOMAIN sessions
    BY <1>1, <1>3, StatusOf DEF BeginDelete
  <2>2. sessions[Now.ref] \in DistSession
    BY <2>1 DEF TypeOK
  <2>3. sessions' \in [DOMAIN sessions' -> DistSession] /\ DOMAIN sessions' \subseteq Id
    BY <1>3 DEF BeginDelete, EraseSession, TypeOK
  <2>4. doomed' \in Seq(DistSession) /\ Len(doomed') <= 1 /\ thread' \in ThreadAt
    BY <1>3, <2>2 DEF BeginDelete, ThreadAt
  <2> QED BY <1>3, <2>3, <2>4 DEF BeginDelete, OnlyThread, appVars, TypeOK
<1>4. CASE EndDelete
  <2>1. served' \in Seq([number : Nat, request : Request, status : Nat])
    <3>1. Answer(204) /\ 204 \in Nat
      BY <1>4 DEF EndDelete, Reply
    <3> QED BY <1>1, <3>1, AnswerTypes
  <2>2. /\ thread' \in ThreadAt /\ current' \in Seq(DOMAIN received) /\ Len(current') <= 1
        /\ doomed' \in Seq(DistSession) /\ Len(doomed') <= 1
    BY <1>4 DEF EndDelete, Reply, Destroyed, ThreadAt
  <2> QED BY <1>4, <2>1, <2>2 DEF EndDelete, appVars, TypeOK
<1>5. CASE HandleOther
  <2>1. Status(Now) \in Nat
    BY <1>1, StatusOf
  <2>2. served' \in Seq([number : Nat, request : Request, status : Nat])
    BY <1>1, <1>5, <2>1, AnswerTypes DEF HandleOther, Reply
  <2>3. thread' \in ThreadAt /\ current' \in Seq(DOMAIN received) /\ Len(current') <= 1
    BY <1>5 DEF HandleOther, Reply, ThreadAt
  <2> QED BY <1>5, <2>2, <2>3 DEF HandleOther, OnlyThread, appVars, TypeOK
<1>6. CASE BeginRefusal
  <2>1. Now.body \in DistSession
    BY <1>6 DEF BeginRefusal, Unwinds, Posts
  <2>2. doomed' \in Seq(DistSession) /\ Len(doomed') <= 1 /\ thread' \in ThreadAt
    BY <1>6, <2>1 DEF BeginRefusal, ThreadAt
  <2> QED BY <1>6, <2>2 DEF BeginRefusal, OnlyThread, appVars, TypeOK
<1>7. CASE EndRefusal
  <2>1. Status(Now) \in Nat
    BY <1>1, StatusOf
  <2>2. served' \in Seq([number : Nat, request : Request, status : Nat])
    BY <1>1, <1>7, <2>1, AnswerTypes DEF EndRefusal, Reply
  <2>3. /\ thread' \in ThreadAt /\ current' \in Seq(DOMAIN received) /\ Len(current') <= 1
        /\ doomed' \in Seq(DistSession) /\ Len(doomed') <= 1
    BY <1>7 DEF EndRefusal, Reply, Destroyed, ThreadAt
  <2> QED BY <1>7, <2>2, <2>3 DEF EndRefusal, OnlyThread, appVars, TypeOK
<1> QED BY <1>1, <1>2, <1>3, <1>4, <1>5, <1>6, <1>7

LEMMA DropTypes == TypeOK /\ EndDrop => TypeOK'
<1> SUFFICES ASSUME TypeOK, EndDrop PROVE TypeOK'
  OBVIOUS
<1>1. doomed' \in Seq(DistSession) /\ Len(doomed') <= 1 /\ thread' \in ThreadAt
  BY DEF EndDrop, Destroyed, ThreadAt
<1> QED BY <1>1 DEF EndDrop, OnlyThread, appVars, TypeOK

LEMMA KillTypes == TypeOK /\ ControllerCrashes => TypeOK'
BY DEF ControllerCrashes, registryVars, TypeOK, MainAt, ThreadAt

LEMMA ResetTypes == TypeOK /\ ResetContext => TypeOK'
<1> SUFFICES ASSUME TypeOK, ResetContext PROVE TypeOK'
  OBVIOUS
<1>1. sessions' \in [DOMAIN sessions' -> DistSession] /\ DOMAIN sessions' \subseteq Id
  BY DEF ResetContext
<1>2. dying' \subseteq DistSession /\ main' \in MainAt /\ context' \in BOOLEAN
  BY DEF ResetContext, TypeOK, MainAt
<1> QED BY <1>1, <1>2 DEF ResetContext, TypeOK

LEMMA TypesStep == TypeOK /\ Held /\ [Next]_vars => TypeOK'
<1>1. TypeOK /\ UNCHANGED vars => TypeOK'
  BY DEF TypeOK, vars, appVars, registryVars
<1> QED BY <1>1, Kinds, AroundTypes, CrashTypes, BetweenTypes, ReceiveTypes, HandleTypes, DropTypes, KillTypes, ResetTypes

-----------------------------------------------------------------------------
(* Requests one by one, in the order of their numbers *)

LEMMA HeldStep == TypeOK /\ Held /\ [Next]_vars => Held'
<1> SUFFICES ASSUME TypeOK, Held, [Next]_vars PROVE Held'
  OBVIOUS
<1> USE DEF Held, Busy
<1>1. CASE /\ UNCHANGED <<thread, current>> /\ (main' = main \/ main' \notin {"starting", "initialised"})
           /\ thread = "refusing" => received' = received
  <2>1. thread = "refusing" => Now' = Now
    BY <1>1 DEF Now
  <2>2. thread = "refusing" => Unwinds(Now)'
    BY <2>1 DEF Unwinds, Posts
  <2> QED BY <1>1, <2>2
<1>2. CASE Initialise
  BY <1>2 DEF Initialise
<1>3. CASE StartEventHandler
  BY <1>3 DEF StartEventHandler
<1>4. InitialiseFails \/ StartEventHandlerFails \/ Unregister \/ TerminateQueue \/ JoinThread \/ ResetContext =>
        UNCHANGED <<thread, current, received>> /\ main' \notin {"starting", "initialised"}
  BY DEF InitialiseFails, StartEventHandlerFails, Unregister, TerminateQueue, JoinThread, ResetContext
<1>5. UNCHANGED vars \/ (\E s \in DistSession : ContextDestroys(s)) \/ (\E q \in Request : Receive(q)) =>
        UNCHANGED <<thread, current, main>> /\ (thread = "refusing" => received' = received)
  BY DEF vars, appVars, ContextDestroys, Receive
<1>6. CASE Crashes
  BY <1>6, CrashFrame
<1>7. CASE Between
  <2>1. main' = main /\ thread # "none" /\ thread' \notin {"none", "refusing", "killed"} /\ thread # "killed"
    BY <1>7, BetweenFrame
  <2>2. PollReturns \/ CallHandler => UNCHANGED current /\ (thread \in Busy <=> thread' \in Busy)
                                      /\ thread # "crashed" /\ thread' # "crashed"
    BY DEF PollReturns, CallHandler
  <2>3. Pop => thread' # "crashed" /\ (thread' \in Busy => current' # <<>>)
               /\ (thread' \notin Busy => current' = current) /\ thread \notin Busy \cup {"crashed"}
    <3> SUFFICES ASSUME Pop
                 PROVE  /\ thread' # "crashed" /\ (thread' \in Busy => current' # <<>>)
                        /\ (thread' \notin Busy => current' = current) /\ thread \notin Busy \cup {"crashed"}
      OBVIOUS
    <3>1. thread = "popping"
      BY DEF Pop
    <3>2. CASE thread' \in {"done", "polling"} /\ current' = current
      BY <3>1, <3>2
    <3>3. CASE thread' = "dispatching" /\ current' = <<Head(queue)>>
      BY <3>1, <3>3
    <3> QED BY <3>2, <3>3 DEF Pop
  <2>4. DispatchEvent => thread \in Busy /\ thread' # "crashed" /\ (thread' \in Busy => current' = current)
                         /\ (thread' \notin Busy => current' = <<>>)
    BY DEF DispatchEvent
  <2> QED BY <1>7, <2>1, <2>2, <2>3, <2>4 DEF Between
<1>8. CASE CreateSession \/ EndDrop \/ EndRefusal \/ EndDelete \/ HandleOther
  <2>1. thread' \in {"popping", "dropping"} /\ current' = <<>> /\ main' = main /\ thread # "none"
    BY <1>8 DEF CreateSession, EndDrop, EndRefusal, EndDelete, HandleOther, Reply, Destroyed,
                OnlyThread, appVars
  <2> QED BY <2>1
<1>9. CASE BeginDelete
  BY <1>9 DEF BeginDelete, OnlyThread, appVars
<1>10. CASE BeginRefusal
  <2>1. thread = "handling" /\ thread' = "refusing" /\ UNCHANGED <<main, current, received>> /\ Unwinds(Now)
    BY <1>10 DEF BeginRefusal, OnlyThread, appVars
  <2>2. Now' = Now
    BY <2>1 DEF Now
  <2>3. Unwinds(Now)'
    BY <2>1, <2>2 DEF Unwinds, Posts
  <2> QED BY <2>1, <2>3
<1>11. CASE ControllerCrashes
  BY <1>11 DEF ControllerCrashes
<1> QED BY <1>1, <1>2, <1>3, <1>4, <1>5, <1>6, <1>7, <1>8, <1>9, <1>10, <1>11, Kinds DEF Around

\* an answer, and the end of the request
LEMMA Answered ==
  ASSUME TypeOK, Held, CreateSession \/ EndRefusal \/ EndDelete \/ HandleOther
  PROVE  \E status \in Nat :
           /\ served' = Append(served, [number |-> current[1], request |-> Now, status |-> status])
           /\ current # <<>> /\ current' = <<>> /\ UNCHANGED <<queue, received>>
           /\ Now \in Request
<1>1. current # <<>> /\ Now \in Request
  <2>1. current # <<>>
    BY DEF Held, Busy, CreateSession, EndRefusal, EndDelete, HandleOther
  <2> QED BY <2>1, HeldRequest
<1>2. Status(Now) \in Nat
  BY <1>1, StatusOf
<1>3. CASE CreateSession
  BY <1>1, <1>3 DEF CreateSession, Reply, Answer
<1>4. CASE EndDelete
  BY <1>1, <1>4 DEF EndDelete, Reply, Answer
<1>5. CASE HandleOther
  BY <1>1, <1>2, <1>5 DEF HandleOther, Reply, Answer, OnlyThread
<1>6. CASE EndRefusal
  BY <1>1, <1>2, <1>6 DEF EndRefusal, Reply, Answer, OnlyThread
<1> QED BY <1>3, <1>4, <1>5, <1>6

LEMMA OrdersStep == TypeOK /\ Held /\ Orders /\ [Next]_vars => Orders'
<1> SUFFICES ASSUME TypeOK, Held, Orders, [Next]_vars PROVE Orders'
  OBVIOUS
<1>0. /\ received \in Seq(Request) /\ queue \in Seq(DOMAIN received)
      /\ current \in Seq(DOMAIN received) /\ Len(current) <= 1
      /\ \A k \in DOMAIN queue : queue[k] \in DOMAIN received
      /\ current # <<>> => current[1] \in DOMAIN received
      /\ queue \in Seq(Nat)
  BY DEF TypeOK
<1>1. CASE UNCHANGED <<queue, received, served>> /\ (current' = current \/ current' = <<>>)
  BY <1>1 DEF Orders
<1>2. CASE \E q \in Request : Receive(q)
  <2>1. PICK q \in Request : received' = Append(received, q)
    BY <1>2 DEF Receive
  <2> DEFINE n == Len(received) + 1
  <2>2. DOMAIN received' = 1..n /\ DOMAIN received = 1..(n - 1) /\ n \in Nat
    BY <1>0, <2>1
  <2>3. queue' = queue \/ queue' = Append(queue, n)
    BY <1>2 DEF Receive
  <2>4. UNCHANGED <<current, served>>
    BY <1>2 DEF Receive
  <2> HIDE DEF n
  <2>5. CASE queue' = queue
    BY <1>0, <2>2, <2>4, <2>5 DEF Orders
  <2>6. CASE queue' = Append(queue, n)
    <3>1. /\ DOMAIN queue' = 1..(Len(queue) + 1) /\ DOMAIN queue = 1..Len(queue) /\ Len(queue) \in Nat
          /\ queue'[Len(queue) + 1] = n
          /\ \A k \in DOMAIN queue : queue'[k] = queue[k]
      <4>1. n \in Nat /\ queue \in Seq(Nat)
        BY <1>0, <2>2
      <4> QED BY <2>6, <4>1
    <3>2. \A k \in DOMAIN queue : queue[k] < n
      BY <1>0, <2>2
    <3>3. \A j, k \in DOMAIN queue' : j < k => queue'[j] < queue'[k]
      BY <3>1, <3>2 DEF Orders
    <3>4. current # <<>> => current[1] < n
      BY <1>0, <2>2
    <3>5. \A k \in DOMAIN queue' : current # <<>> => current[1] < queue'[k]
      BY <3>1, <3>4 DEF Orders
    <3>6. \A k \in DOMAIN served : served[k].number \in DOMAIN received' /\ served[k].number < n
      BY <2>2 DEF Orders
    <3>7. \A k \in DOMAIN served : \A j \in DOMAIN queue' : served[k].number < queue'[j]
      BY <3>1, <3>6 DEF Orders
    <3> QED BY <2>4, <3>3, <3>5, <3>6, <3>7 DEF Orders
  <2> QED BY <2>3, <2>5, <2>6
<1>3. CASE queue # <<>> /\ current' = <<Head(queue)>> /\ queue' = Tail(queue) /\ UNCHANGED <<received, served>>
  <2>1. /\ DOMAIN queue = 1..Len(queue) /\ Len(queue) \in Nat /\ Len(queue) > 0
        /\ DOMAIN queue' = 1..(Len(queue) - 1)
        /\ \A k \in DOMAIN queue' : queue'[k] = queue[k + 1]
        /\ current'[1] = queue[1] /\ 1 \in DOMAIN queue
    BY <1>0, <1>3
  <2>2. \A j, k \in DOMAIN queue' : j < k => queue'[j] < queue'[k]
    BY <2>1 DEF Orders
  <2>3. \A k \in DOMAIN queue' : current'[1] < queue'[k]
    BY <2>1 DEF Orders
  <2>4. \A k \in DOMAIN served :
          served[k].number < current'[1] /\ \A j \in DOMAIN queue' : served[k].number < queue'[j]
    BY <2>1 DEF Orders
  <2>5. \A k \in DOMAIN served : served[k].number \in DOMAIN received
    BY DEF Orders
  <2> QED BY <1>3, <2>2, <2>3, <2>4, <2>5 DEF Orders
<1>4. CASE CreateSession \/ EndRefusal \/ EndDelete \/ HandleOther
  <2>1. PICK status \in Nat :
          /\ served' = Append(served, [number |-> current[1], request |-> Now, status |-> status])
          /\ current # <<>> /\ current' = <<>> /\ UNCHANGED <<queue, received>>
    BY <1>4, Answered
  <2>2. \A k \in DOMAIN served' :
          served'[k].number = current[1] \/ (k \in DOMAIN served /\ served'[k] = served[k])
    <3> DEFINE a == [number |-> current[1], request |-> Now, status |-> status]
    <3>1. served' = Append(served, a) /\ a.number = current[1]
      BY <2>1
    <3>2. served \in Seq([number : Nat, request : Request, status : Nat])
      BY DEF TypeOK
    <3> HIDE DEF a
    <3> QED BY <3>1, <3>2
  <2>3. \A k \in DOMAIN served' :
          /\ served'[k].number \in DOMAIN received
          /\ \A j \in DOMAIN queue : served'[k].number < queue[j]
    BY <1>0, <2>1, <2>2 DEF Orders
  <2> QED BY <2>1, <2>3 DEF Orders
<1>5. CASE Between
  <2>1. UNCHANGED <<received, served>>
    BY <1>5, BetweenFrame
  <2> QED BY <1>1, <1>3, <1>5, <2>1 DEF Between, PollReturns, Pop, DispatchEvent, CallHandler
<1>6. (\/ Around \/ Crashes \/ EndDrop \/ BeginRefusal \/ BeginDelete
       \/ ControllerCrashes \/ ResetContext \/ UNCHANGED vars)
        => UNCHANGED <<queue, received, served, current>>
  BY AroundFrame, CrashFrame
     DEF EndDrop, BeginRefusal, BeginDelete, ControllerCrashes, ResetContext, OnlyThread, vars
<1>7. \/ Around \/ Crashes \/ Between
      \/ (\E q \in Request : Receive(q))
      \/ CreateSession \/ EndDrop \/ BeginRefusal \/ EndRefusal
      \/ BeginDelete \/ EndDelete \/ HandleOther
      \/ ControllerCrashes \/ ResetContext \/ UNCHANGED vars
  BY Kinds
<1> QED BY <1>1, <1>2, <1>4, <1>5, <1>6, <1>7

-----------------------------------------------------------------------------
(* The session that is being deleted *)

LEMMA ErasingStep == TypeOK /\ Held /\ Erasing /\ [Next]_vars => Erasing'
<1> SUFFICES ASSUME TypeOK, Held, Erasing, [Next]_vars PROVE Erasing'
  OBVIOUS
<1> USE DEF Erasing
<1>1. CASE UNCHANGED <<sessions, doomed, thread, received, current, context>>
  BY <1>1 DEF Now
<1>2. CASE Around
  <2>1. (doomed = <<>> /\ thread' # "destroying") \/ UNCHANGED <<thread, context>>
    BY <1>2, AroundFrame DEF Held
  <2>2. CASE UNCHANGED <<thread, context>>
    BY <1>1, <1>2, <2>2, AroundFrame
  <2>3. CASE doomed = <<>> /\ thread' # "destroying"
    BY <1>2, <2>3, AroundFrame
  <2> QED BY <2>1, <2>2, <2>3
<1>3. CASE Crashes
  <2>1. /\ thread' = "crashed" /\ UNCHANGED <<sessions, doomed, context>>
        /\ thread \in {"calling", "handling", "destroying"} /\ (thread = "destroying" => ~context)
    BY <1>3, CrashFrame
  <2> QED BY <2>1
<1>4. CASE Between
  BY <1>4, BetweenFrame
<1>5. CASE \E q \in Request : Receive(q)
  <2>1. UNCHANGED <<sessions, doomed, thread>> /\ thread = "polling"
    BY <1>5 DEF Receive, registryVars
  <2> QED BY <2>1
<1>6. CASE CreateSession
  <2>1. /\ thread = "handling" /\ thread' \in {"popping", "dropping"}
        /\ thread' = "dropping" \/ doomed' = doomed
    BY <1>6 DEF CreateSession
  <2>2. \A i \in DOMAIN sessions' : sessions'[i].id = i
    BY <1>6 DEF CreateSession, AddSession
  <2> QED BY <2>1, <2>2
<1>7. CASE BeginDelete
  <2>1. current # <<>> /\ Now \in Request
    BY <1>7, HeldRequest DEF BeginDelete, Held, Busy
  <2>2. Now.ref \in DOMAIN sessions
    BY <1>7, <2>1, StatusOf DEF BeginDelete
  <2>3. /\ thread' = "destroying" /\ doomed' = <<sessions[Now.ref]>>
        /\ UNCHANGED <<received, current, context>>
        /\ sessions' = [i \in DOMAIN sessions \ {Now.ref} |-> sessions[i]]
        /\ Now.method = "DELETE"
    BY <1>7 DEF BeginDelete, OnlyThread, appVars, EraseSession
  <2>4. Now' = Now
    BY <2>3 DEF Now
  <2>5. doomed' # <<>> /\ doomed'[1] = sessions[Now.ref] /\ sessions[Now.ref].id = Now.ref
    BY <2>2, <2>3
  <2>6. \A i \in DOMAIN sessions' : sessions'[i].id = i
    BY <2>3
  <2>7. Now.ref \notin DOMAIN sessions'
    BY <2>3
  <2> QED BY <2>3, <2>4, <2>5, <2>6, <2>7
<1>8. CASE EndDelete \/ EndDrop \/ EndRefusal
  <2>1. sessions' = sessions /\ doomed' = <<>> /\ thread' = "popping"
    BY <1>8 DEF EndDelete, EndDrop, EndRefusal, Destroyed
  <2> QED BY <2>1
<1>9. CASE HandleOther
  BY <1>9 DEF HandleOther
<1>10. CASE ResetContext
  BY <1>10 DEF ResetContext, Now
<1>11. CASE UNCHANGED vars
  BY <1>1, <1>11 DEF vars, appVars, registryVars
<1>12. CASE BeginRefusal
  BY <1>12 DEF BeginRefusal
<1>13. CASE ControllerCrashes
  BY <1>13 DEF ControllerCrashes, registryVars
<1> QED BY <1>2, <1>3, <1>4, <1>5, <1>6, <1>7, <1>8, <1>9, <1>10, <1>11, <1>12, <1>13, Kinds

-----------------------------------------------------------------------------
(* What is registered and what is answered *)

\* all but three actions leave the map alone
LEMMA SessionsFrame ==
  (\/ Around \/ Crashes \/ Between \/ (\E q \in Request : Receive(q)) \/ ControllerCrashes
   \/ EndDrop \/ BeginRefusal \/ EndRefusal \/ EndDelete \/ HandleOther)
    => sessions' = sessions
<1>1. (\/ (\E q \in Request : Receive(q)) \/ ControllerCrashes
       \/ EndDrop \/ BeginRefusal \/ EndRefusal \/ EndDelete \/ HandleOther)
        => sessions' = sessions
  BY DEF Receive, ControllerCrashes, EndDrop, BeginRefusal, EndRefusal, EndDelete, HandleOther, registryVars
<1> QED BY <1>1, AroundFrame, CrashFrame, BetweenFrame

LEMMA RatesStep == TypeOK /\ Held /\ RatesReadable /\ [Next]_vars => RatesReadable'
<1> SUFFICES ASSUME TypeOK, Held, RatesReadable, [Next]_vars PROVE RatesReadable'
  OBVIOUS
<1>1. CASE sessions' = sessions
  BY <1>1 DEF RatesReadable
<1>2. CASE CreateSession
  <2>1. Now \in Request
    BY <1>2, HeldRequest DEF CreateSession, Held, Busy
  <2>2. Now.body \in DistSession /\ makeController(Now.body) = "made"
    BY <1>2, <2>1, StatusOf DEF CreateSession
  <2>3. Now.body.mbr # None => Readable(Now.body.mbr)
    BY <2>2, FactoryIsRight DEF Servable
  <2>4. \A i \in DOMAIN sessions' : sessions'[i] = Now.body \/ (i \in DOMAIN sessions /\ sessions'[i] = sessions[i])
    BY <1>2 DEF CreateSession, AddSession
  <2> QED BY <2>3, <2>4 DEF RatesReadable
<1>3. CASE BeginDelete
  <2>1. sessions' = [i \in DOMAIN sessions \ {Now.ref} |-> sessions[i]]
    BY <1>3 DEF BeginDelete, EraseSession
  <2> QED BY <2>1 DEF RatesReadable
<1>4. CASE ResetContext
  BY <1>4 DEF ResetContext, RatesReadable
<1>5. UNCHANGED vars => sessions' = sessions
  BY DEF vars, registryVars
<1>6. \/ Around \/ Crashes \/ Between
      \/ (\E q \in Request : Receive(q))
      \/ CreateSession \/ EndDrop \/ BeginRefusal \/ EndRefusal
      \/ BeginDelete \/ EndDelete \/ HandleOther
      \/ ControllerCrashes \/ ResetContext \/ UNCHANGED vars
  BY Kinds
<1> QED BY <1>1, <1>2, <1>3, <1>4, <1>5, <1>6, SessionsFrame

\* CreatedIffServable, of one answer
Truthful(q, status) ==
  q.method = "POST" /\ q.service = "nmbstf-distsession" /\ q.body \in DistSession
    => /\ status = 201 => Servable(q.body)
       /\ status \in {400, 501} /\ q.v1 /\ q.resource = "dist-sessions"
            /\ q.ref = NoPart => ~Servable(q.body)

LEMMA StatusTruthful ==
  ASSUME NEW q \in Request
  PROVE  Truthful(q, Status(q))
<1> SUFFICES ASSUME q.method = "POST", q.service = "nmbstf-distsession", q.body \in DistSession
             PROVE  /\ Status(q) = 201 => Servable(q.body)
                    /\ Status(q) \in {400, 501} /\ q.v1 /\ q.resource = "dist-sessions"
                         /\ q.ref = NoPart => ~Servable(q.body)
  BY DEF Truthful
<1>1. Servable(q.body) <=> makeController(q.body) = "made"
  BY FactoryIsRight
<1>2. Status(q) = 201 => makeController(q.body) = "made"
  BY StatusOf
<1>3. Status(q) \in {400, 501} /\ q.v1 /\ q.resource = "dist-sessions" /\ q.ref = NoPart
        => makeController(q.body) # "made"
  BY StatusOf DEF ToSessions
<1> QED BY <1>1, <1>2, <1>3

LEMMA CreatedStep ==
  TypeOK /\ Held /\ Erasing /\ CreatedIffServable /\ [Next]_vars => CreatedIffServable'
<1> SUFFICES ASSUME TypeOK, Held, Erasing, CreatedIffServable, [Next]_vars PROVE CreatedIffServable'
  OBVIOUS
<1>1. CASE served' = served
  BY <1>1 DEF CreatedIffServable
<1>2. ASSUME NEW status, Answer(status), Truthful(Now, status) PROVE CreatedIffServable'
  <2> DEFINE a == [number |-> current[1], request |-> Now, status |-> status]
  <2>1. served' = Append(served, a) /\ a.request = Now /\ a.status = status
    BY <1>2 DEF Answer
  <2>2. served \in Seq([number : Nat, request : Request, status : Nat])
    BY DEF TypeOK
  <2> HIDE DEF a
  <2>3. \A k \in DOMAIN served' : served'[k] = a \/ (k \in DOMAIN served /\ served'[k] = served[k])
    BY <2>1, <2>2
  <2>4. \A k \in DOMAIN served : Truthful(served[k].request, served[k].status)
    BY DEF CreatedIffServable, Truthful
  <2>5. \A k \in DOMAIN served' : Truthful(served'[k].request, served'[k].status)
    BY <1>2, <2>1, <2>3, <2>4
  <2> QED BY <2>5 DEF CreatedIffServable, Truthful
<1>3. CASE CreateSession \/ EndRefusal \/ HandleOther
  <2>1. Now \in Request
    BY <1>3, HeldRequest DEF CreateSession, EndRefusal, HandleOther, Held, Busy
  <2>2. Answer(Status(Now))
    BY <1>3 DEF CreateSession, EndRefusal, HandleOther, Reply
  <2> QED BY <1>2, <2>1, <2>2, StatusTruthful
<1>4. CASE EndDelete
  <2>1. Answer(204) /\ Now.method = "DELETE"
    BY <1>4 DEF EndDelete, Reply, Erasing
  <2>2. Truthful(Now, 204)
    BY <2>1 DEF Truthful
  <2> QED BY <1>2, <2>1, <2>2
<1>5. (\/ (\E q \in Request : Receive(q)) \/ EndDrop \/ BeginRefusal \/ BeginDelete
       \/ ControllerCrashes \/ ResetContext \/ UNCHANGED vars)
        => served' = served
  BY DEF Receive, EndDrop, BeginRefusal, BeginDelete, ControllerCrashes, ResetContext, vars
<1>6. Around \/ Crashes \/ Between => served' = served
  BY AroundFrame, CrashFrame, BetweenFrame
<1>7. \/ Around \/ Crashes \/ Between
      \/ (\E q \in Request : Receive(q))
      \/ CreateSession \/ EndDrop \/ BeginRefusal \/ EndRefusal
      \/ BeginDelete \/ EndDelete \/ HandleOther
      \/ ControllerCrashes \/ ResetContext \/ UNCHANGED vars
  BY Kinds
<1> QED BY <1>1, <1>3, <1>4, <1>5, <1>6, <1>7

-----------------------------------------------------------------------------
(* The abstract registry *)

LEMMA InitRegistry == Init => Registry!Init
BY DEF Init, Registry!Init, registry

\* the answer comes after all the others
LEMMA RegistryAnswer ==
  ASSUME TypeOK, Held, Orders, current # <<>>, NEW status, Answer(status)
  PROVE  /\ current[1] \in DOMAIN received /\ Now = received[current[1]]
         /\ Registry!Answer(current[1], Now, status)
BY HeldRequest DEF Orders, Answer, Registry!Answer, Now

\* Only a DELETE sets the registry apart from the map.
LEMMA RegistryIsMap ==
  /\ doomed = <<>> \/ current = <<>> \/ Now.method # "DELETE" => registry = sessions
  /\ (doomed = <<>> \/ current = <<>> \/ Now.method # "DELETE")' => registry' = sessions'
BY DEF registry

\* an answer that tells of nothing
LEMMA OtherAnswer ==
  ASSUME TypeOK, Held, Orders, current # <<>>, registry' = registry,
         NEW status \in {204, 400, 403, 404, 405, 415, 501}, Answer(status),
         Now.method = "DELETE" => status # 204,
         status = 404 /\ Now.ref # NoPart /\ Now.sub = NoPart => Now.ref \notin DOMAIN registry
  PROVE  RegistryNext
<1>1. Registry!Answer(current[1], Now, status)
  BY RegistryAnswer
<1>2. Registry!Other(current[1], Now, status)
  BY <1>1 DEF Registry!Other
<1>3. current[1] \in DOMAIN received /\ Now = received[current[1]]
  BY HeldRequest DEF Now
<1> QED BY <1>2, <1>3 DEF RegistryNext

LEMMA RegistryStep == Inv /\ [Next]_vars => [RegistryNext]_<<registry, served>>
<1> SUFFICES ASSUME TypeOK, Held, Orders, Erasing, [Next]_vars
             PROVE  RegistryNext \/ UNCHANGED <<registry, served>>
  BY DEF Inv
<1>1. CASE UNCHANGED <<sessions, doomed, context, current, received, served>>
  BY <1>1 DEF registry, Now
<1>2. CASE Around
  <2>1. doomed = <<>> \/ UNCHANGED context
    BY <1>2, AroundFrame DEF Held, Erasing
  <2> QED BY <1>2, <2>1, AroundFrame DEF registry, Now
<1>3. CASE CreateSession
  <2>1. current # <<>> /\ Now \in Request /\ doomed = <<>> /\ current' = <<>>
    BY <1>3, HeldRequest DEF CreateSession, Reply, Held, Busy, Erasing
  <2>2. Now.method = "POST" /\ Now.body \in DistSession
    BY <1>3, <2>1, StatusOf DEF CreateSession
  <2>3. registry = sessions /\ registry' = sessions'
    BY <2>1, RegistryIsMap
  <2>4. Registry!Answer(current[1], Now, 201)
    BY <1>3, <2>1, RegistryAnswer DEF CreateSession, Reply
  <2>5. Registry!Create(current[1], Now)
    BY <1>3, <2>2, <2>3, <2>4 DEF CreateSession, AddSession, Registry!Create
  <2>6. current[1] \in DOMAIN received /\ Now = received[current[1]]
    BY <2>1, HeldRequest DEF Now
  <2> QED BY <2>5, <2>6 DEF RegistryNext
<1>4. CASE BeginDelete
  <2>1. current # <<>> /\ Now \in Request /\ doomed = <<>> /\ context
    BY <1>4, HeldRequest DEF BeginDelete, Held, Busy, Erasing
  <2>2. Now.ref \in DOMAIN sessions
    BY <1>4, <2>1, StatusOf DEF BeginDelete
  <2> DEFINE s == sessions[Now.ref]
  <2>3. /\ doomed' = <<s>> /\ s.id = Now.ref /\ context' = context /\ served' = served
        /\ sessions' = [i \in DOMAIN sessions \ {Now.ref} |-> sessions[i]]
        /\ current' = current /\ received' = received /\ Now.method = "DELETE"
    BY <1>4, <2>2 DEF BeginDelete, EraseSession, OnlyThread, appVars, Erasing
  <2>4. registry = sessions
    BY <2>1, RegistryIsMap
  <2>5. registry' = [i \in DOMAIN sessions' \cup {s.id} |-> IF i = s.id THEN s ELSE sessions'[i]]
    <3>1. doomed' # <<>> /\ doomed'[1] = s /\ context' /\ current' # <<>> /\ Now'.method = "DELETE"
      BY <2>1, <2>3 DEF Now
    <3> HIDE DEF s
    <3> QED BY <3>1 DEF registry
  <2>6. registry' = sessions
    <3>1. DOMAIN sessions' \cup {s.id} = DOMAIN sessions
      BY <2>2, <2>3
    <3>2. \A i \in DOMAIN sessions : (IF i = s.id THEN s ELSE sessions'[i]) = sessions[i]
      BY <2>3
    <3>3. sessions = [i \in DOMAIN sessions |-> sessions[i]]
      BY DEF TypeOK
    <3> HIDE DEF s
    <3> QED BY <2>5, <3>1, <3>2, <3>3
  <2> QED BY <2>3, <2>4, <2>6
<1>5. CASE EndDelete
  <2>1. current # <<>> /\ Now \in Request /\ doomed # <<>> /\ doomed' = <<>> /\ context /\ sessions' = sessions
    BY <1>5, HeldRequest DEF EndDelete, Destroyed, Held, Busy, Erasing
  <2> DEFINE s == doomed[1]
  <2>2. s.id \notin DOMAIN sessions /\ Now.method = "DELETE" /\ Now.ref = s.id
    BY <1>5 DEF EndDelete, Erasing
  <2>3. registry = [i \in DOMAIN sessions \cup {s.id} |-> IF i = s.id THEN s ELSE sessions[i]]
    BY <2>1, <2>2 DEF registry
  <2>4. registry' = sessions
    BY <2>1, RegistryIsMap
  <2>5. sessions = [i \in DOMAIN registry \ {Now.ref} |-> registry[i]]
    <3>1. DOMAIN registry \ {Now.ref} = DOMAIN sessions
      BY <2>2, <2>3
    <3>2. \A i \in DOMAIN sessions : registry[i] = sessions[i]
      BY <2>2, <2>3
    <3>3. sessions = [i \in DOMAIN sessions |-> sessions[i]]
      BY DEF TypeOK
    <3> QED BY <3>1, <3>2, <3>3
  <2>6. Now.ref \in DOMAIN registry
    BY <2>2, <2>3
  <2>7. Registry!Answer(current[1], Now, 204)
    BY <1>5, <2>1, RegistryAnswer DEF EndDelete, Reply
  <2>8. Registry!Delete(current[1], Now)
    BY <2>2, <2>4, <2>5, <2>6, <2>7 DEF Registry!Delete
  <2>9. current[1] \in DOMAIN received /\ Now = received[current[1]]
    BY <2>1, HeldRequest DEF Now
  <2> QED BY <2>8, <2>9 DEF RegistryNext
<1>6. CASE HandleOther
  <2>1. current # <<>> /\ Now \in Request /\ doomed = <<>> /\ UNCHANGED <<sessions, doomed>>
    BY <1>6, HeldRequest DEF HandleOther, Held, Busy, Erasing
  <2>2. registry = sessions /\ registry' = registry
    BY <2>1, RegistryIsMap
  <2>3. Answer(Status(Now))
    BY <1>6 DEF HandleOther, Reply
  <2>4. Status(Now) # 201 /\ (Now.method = "DELETE" => Status(Now) # 204)
    BY <1>6, <2>1, StatusOf DEF HandleOther
  <2>5. CASE Status(Now) = 200
    <3>1. Registry!Answer(current[1], Now, 200)
      BY <2>1, <2>3, <2>5, RegistryAnswer
    <3>2. Registry!Retrieve(current[1], Now)
      BY <2>1, <2>2, <2>5, <3>1, StatusOf DEF Registry!Retrieve
    <3>3. current[1] \in DOMAIN received /\ Now = received[current[1]]
      BY <2>1, HeldRequest DEF Now
    <3> QED BY <3>2, <3>3 DEF RegistryNext
  <2>6. CASE Status(Now) # 200
    <3>1. Status(Now) \in {204, 400, 403, 404, 405, 415, 501}
      BY <2>1, <2>4, <2>6, StatusOf
    <3>2. Status(Now) = 404 /\ Now.ref # NoPart /\ Now.sub = NoPart => Now.ref \notin DOMAIN registry
      BY <2>1, <2>2, StatusOf
    <3> QED BY <2>1, <2>2, <2>3, <2>4, <3>1, <3>2, OtherAnswer
  <2> QED BY <2>5, <2>6
<1>7. CASE ResetContext
  <2>1. sessions' = <<>> /\ context' = FALSE /\ served' = served
    BY <1>7 DEF ResetContext
  <2>2. Registry!Close
    BY <2>1 DEF Registry!Close, registry
  <2> QED BY <2>2 DEF RegistryNext
<1>8. CASE Between \/ (\E q \in Request : Receive(q))
  <2>1. doomed = <<>> /\ UNCHANGED <<sessions, doomed, served>>
    BY <1>8, BetweenFrame DEF Receive, registryVars, Erasing
  <2> QED BY <2>1, RegistryIsMap
<1>9. Crashes \/ ControllerCrashes \/ UNCHANGED vars =>
        UNCHANGED <<sessions, doomed, context, current, received, served>>
  BY CrashFrame DEF ControllerCrashes, vars, appVars, registryVars
<1>10. CASE EndDrop
  <2>1. current = <<>> /\ doomed' = <<>> /\ UNCHANGED <<sessions, served>>
    BY <1>10 DEF EndDrop, Destroyed, Held, Busy
  <2> QED BY <2>1, RegistryIsMap
<1>11. CASE BeginRefusal
  <2>1. doomed = <<>> /\ current # <<>> /\ Unwinds(Now) /\ UNCHANGED <<sessions, current, received, served>>
    BY <1>11 DEF BeginRefusal, OnlyThread, Held, Busy, Erasing
  <2>2. Now' = Now /\ Now.method = "POST"
    BY <2>1, HeldRequest, UnwindsStatus DEF Now
  <2> QED BY <2>1, <2>2, RegistryIsMap
<1>12. CASE EndRefusal
  <2>1. /\ current # <<>> /\ Now \in Request /\ doomed' = <<>> /\ sessions' = sessions
        /\ Answer(Status(Now)) /\ Unwinds(Now)
    BY <1>12, HeldRequest DEF EndRefusal, Destroyed, Reply, Held, Busy
  <2>2. Now.method = "POST" /\ Status(Now) \in {200, 204, 400, 403, 404, 405, 415, 501}
    BY <2>1, UnwindsStatus
  <2>3. registry = sessions /\ registry' = registry
    BY <2>1, <2>2, RegistryIsMap
  <2>4. Status(Now) # 200
    BY <2>1, <2>2, StatusOf
  <2>5. Status(Now) = 404 /\ Now.ref # NoPart /\ Now.sub = NoPart => Now.ref \notin DOMAIN registry
    BY <2>1, <2>3, StatusOf
  <2> QED BY <2>1, <2>2, <2>3, <2>4, <2>5, OtherAnswer
<1> QED BY <1>1, <1>2, <1>3, <1>4, <1>5, <1>6, <1>7, <1>8, <1>9, <1>10, <1>11, <1>12, Kinds

-----------------------------------------------------------------------------
(* The theorems *)

LEMMA InitInv == Init => Inv
<1> SUFFICES ASSUME Init PROVE Inv
  OBVIOUS
<1>1. Held /\ Orders /\ Erasing
  BY DEF Init, Held, Busy, Orders, Erasing
<1>2. RatesReadable /\ CreatedIffServable
  BY DEF Init, RatesReadable, CreatedIffServable
<1> QED BY <1>1, <1>2, InitTypes DEF Inv

LEMMA StepInv == Inv /\ [Next]_vars => Inv'
BY TypesStep, HeldStep, OrdersStep, ErasingStep, RatesStep, CreatedStep DEF Inv

LEMMA Always == Spec => []Inv
BY InitInv, StepInv, PTL DEF Spec

\* The state of both threads keeps its types, for any sessions and requests.
THEOREM TypeCorrect == Spec => []TypeOK
<1>1. Inv => TypeOK
  BY DEF Inv
<1> QED BY <1>1, Always, PTL

\* A session is created exactly when a controller can serve it
\* (ControllerFactory.cc:46-62).
THEOREM CreatedWhenServable == Spec => []CreatedIffServable
<1>1. Inv => CreatedIffServable
  BY DEF Inv
<1> QED BY <1>1, Always, PTL

\* The program implements the registry of sessions that its clients see.
THEOREM IsRegistry == Spec => ImplementsRegistry
BY InitRegistry, RegistryStep, Always, PTL DEF Spec, ImplementsRegistry

-----------------------------------------------------------------------------
(* Crashes *)

\* The handler is set only while there is a Context to use.
InService ==
  /\ handler => context /\ main \in {"running", "failed", "crashed"}
  /\ main = "initialised" => context
  /\ thread = "crashed" => ~handler

LEMMA InServiceStep == Held /\ InService /\ [Next]_vars => InService'
<1> SUFFICES ASSUME Held, InService, [Next]_vars PROVE InService'
  OBVIOUS
<1> USE DEF InService, appVars
<1>1. CASE Initialise \/ InitialiseFails \/ StartEventHandler \/ StartEventHandlerFails
  BY <1>1 DEF Initialise, InitialiseFails, StartEventHandler, StartEventHandlerFails, Held
<1>2. CASE Unregister \/ TerminateQueue \/ JoinThread \/ ResetContext
  BY <1>2 DEF Unregister, TerminateQueue, JoinThread, ResetContext
<1>3. CASE UNCHANGED vars \/ (\E s \in DistSession : ContextDestroys(s)) \/ (\E q \in Request : Receive(q))
  BY <1>3 DEF vars, ContextDestroys, Receive
<1>4. CASE Crashes
  <2>1. ~handler
    BY <1>4 DEF Crashes, CallResetHandler, UseResetContext, EndDeleteWithoutContext
  <2> QED BY <1>4, <2>1, CrashFrame
<1>5. CASE Between
  BY <1>5, BetweenFrame
<1>6. CASE CreateSession \/ EndDrop \/ BeginRefusal \/ EndRefusal \/ BeginDelete \/ EndDelete \/ HandleOther
  BY <1>6 DEF CreateSession, EndDrop, BeginRefusal, EndRefusal, BeginDelete, EndDelete, HandleOther,
              Destroyed, OnlyThread
<1>7. CASE ControllerCrashes
  BY <1>7 DEF ControllerCrashes
<1> QED BY <1>1, <1>2, <1>3, <1>4, <1>5, <1>6, <1>7, Kinds DEF Around

\* As long as the event handler is registered, no order of requests and of the steps
\* at the start makes the event thread use App's handler or Context when they are
\* gone, and updateNFLoad() never meets a bit rate that it cannot parse, for any
\* sessions and requests.
THEOREM OwnObjectsInService == Spec => []NothingGoneInService
<1>1. Init => InService
  BY DEF Init, InService
<1>2. InService /\ Inv => NothingGoneInService
  BY DEF InService, Inv, NothingGoneInService
<1>3. Inv => Held
  BY DEF Inv
<1> QED BY <1>1, <1>2, <1>3, InServiceStep, Always, PTL DEF Spec
=============================================================================
