-------------------------------- MODULE App --------------------------------
(***************************************************************************)
(* The program's two threads: the main thread, which starts and terminates *)
(* the application (App.cc), and the event thread of                       *)
(* Open5GSNetworkFunction.cc, which receives the requests, queues them and *)
(* handles them one by one (MBSTFEventHandler.cc).                         *)
(*                                                                         *)
(* A session takes its controller with it, whether it is deleted, was not  *)
(* inserted because its identifier is in use, or has been refused when its *)
(* controller had begun to fetch.  The event thread waits for the          *)
(* controller's threads to end: ObjectManifestController shows that the    *)
(* scheduler does, PushObjectIngester that an ingester that receives       *)
(* uploads may not.  The latter, and ObjectStreamingController, show how a *)
(* controller ends the whole process.                                      *)
(*                                                                         *)
(* Open5GS's queue, poll set and threads are external: a terminated queue  *)
(* says so even when it has elements.                                      *)
(***************************************************************************)
EXTENDS DistributionSession

CONSTANT MaxRequests  \* bound: requests that clients make

ASSUME RequestBound == MaxRequests \in Nat

VARIABLES
  main,        \* where the main thread is
  thread,      \* where the event thread is
  handler,     \* m_eventHandler is set
  context,     \* m_context is set
  terminated,  \* ogs_queue_term() has been called
  queue,       \* the event queue: numbers of requests
  received,    \* all the requests made so far; a number is an index of these
  current,     \* <<>> or the number of the request being handled
  doomed,      \* <<>> or the session that the event thread is destroying
  dying,       \* the sessions that the main thread is destroying, with the Context
  served       \* history: the answers

appVars == <<main, handler, context, terminated>>
vars == <<appVars, registryVars, thread, queue, received, current, doomed, dying, served>>

MainAt == {"starting", "initialised", "failed",
           "running",
           "unregistered",  \* app_terminate() has deleted the event handler
           "closing",       \* ~App(), m_context.reset()
           "joining",       \* ~Open5GSNetworkFunction(), stopEventHandler()
           "done",
           "crashed"}       \* the process has ended
ThreadAt == {"none",
             "polling",      \* ogs_pollset_poll(), where the HTTP server runs
             "popping",      \* lines 307-316
             "dispatching",  \* App::dispatchEvent(), the test of m_eventHandler
             "calling",      \* and its call
             "handling",     \* MBSTFEventHandler::dispatch()
             "refusing",     \* unwinding the constructors, before the answer
             "destroying",   \* deleteDistributionSession(), before the answer
             "dropping",     \* the return of processEvent(), after the answer
             "done",
             "crashed",      \* it has used App's handler or Context, which are gone
             "killed"}       \* a controller has ended the process

Init ==
  /\ sessions = <<>> /\ load = 0
  /\ main = "starting" /\ thread = "none"
  /\ handler = FALSE /\ context = FALSE /\ terminated = FALSE
  /\ queue = <<>> /\ received = <<>> /\ current = <<>>
  /\ doomed = <<>> /\ dying = {} /\ served = <<>>

-----------------------------------------------------------------------------
(* app_initialize() *)

\* the constructor of App and initialise()
Initialise ==
  /\ main = "starting"
  /\ main' = "initialised"
  /\ context' = TRUE
  /\ UNCHANGED <<handler, terminated, registryVars, thread, queue, received, current, doomed, dying, served>>

\* a configuration or a server address that is no good: the process ends
InitialiseFails ==
  /\ main = "starting"
  /\ main' = "failed"
  /\ UNCHANGED <<handler, context, terminated, registryVars, thread, queue, received, current,
                 doomed, dying, served>>

\* faulty: the event handler is registered, and the thread runs, before initialise()
StartEventHandlerFirst ==
  /\ main \in {"starting", "initialised"}
  /\ main' = "running"
  /\ handler' = TRUE
  /\ thread' = "polling"
  /\ UNCHANGED <<context, terminated, registryVars, queue, received, current, doomed, dying, served>>

StartEventHandler ==
  /\ main = "initialised"
  /\ main' = "running"
  /\ handler' = TRUE
  /\ thread' = "polling"
  /\ UNCHANGED <<context, terminated, registryVars, queue, received, current, doomed, dying, served>>

\* The thread cannot be created.  The handler is registered by then.
StartEventHandlerFails ==
  /\ main = "initialised"
  /\ main' = "failed"
  /\ handler' = TRUE
  /\ UNCHANGED <<context, terminated, registryVars, thread, queue, received, current, doomed, dying, served>>

-----------------------------------------------------------------------------
(* The event thread *)

OnlyThread == UNCHANGED <<appVars, received, load>>

\* the end of both threads
Crash ==
  /\ thread' = "crashed" /\ main' = "crashed"
  /\ dying' = {}
  /\ UNCHANGED <<handler, context, terminated, registryVars, queue, received, current, doomed, served>>

\* server_cb(), called by the HTTP server from within the poll.  ogs_queue_push()
\* fails when the queue is terminated: the request is freed.
Receive(q) ==
  /\ thread = "polling"
  /\ Len(received) < MaxRequests
  /\ received' = Append(received, q)
  /\ queue' = IF terminated THEN queue ELSE Append(queue, Len(received) + 1)
  /\ UNCHANGED <<appVars, registryVars, thread, current, doomed, dying, served>>

\* the poll returns: something was received, the poll set was notified or a timer
\* has expired
PollReturns ==
  /\ thread = "polling"
  /\ queue # <<>> \/ terminated
  /\ thread' = "popping"
  /\ UNCHANGED <<sessions, queue, current, doomed, dying, served>> /\ OnlyThread

Pop ==
  /\ thread = "popping"
  /\ IF terminated
     THEN thread' = "done" /\ UNCHANGED <<queue, current>>
     ELSE IF queue = <<>>
     THEN thread' = "polling" /\ UNCHANGED <<queue, current>>
     ELSE /\ thread' = "dispatching"
          /\ current' = <<Head(queue)>>
          /\ queue' = Tail(queue)
  /\ UNCHANGED <<sessions, doomed, dying, served>> /\ OnlyThread

\* without an event handler the event is freed and nobody answers
DispatchEvent ==
  /\ thread = "dispatching"
  /\ IF handler
     THEN thread' = "calling" /\ UNCHANGED current
     ELSE thread' = "popping" /\ current' = <<>>
  /\ UNCHANGED <<sessions, queue, doomed, dying, served>> /\ OnlyThread

\* m_eventHandler is read again for the call
CallHandler ==
  /\ thread = "calling" /\ handler
  /\ thread' = "handling"
  /\ UNCHANGED <<sessions, queue, current, doomed, dying, served>> /\ OnlyThread

CallResetHandler ==
  /\ thread = "calling" /\ ~handler
  /\ Crash

Now == received[current[1]]
Answer(status) ==
  served' = Append(served, [number |-> current[1], request |-> Now, status |-> status])

Reply(status) ==
  /\ Answer(status)
  /\ current' = <<>>

\* processEvent() returns when a destructor on the event thread has
Destroyed ==
  /\ doomed' = <<>>
  /\ thread' = "popping"

UseResetContext ==
  /\ thread = "handling"
  /\ UsesContext(Now) /\ ~context
  /\ Crash

\* POST, answered with 201 whether or not the session was inserted.  Only
\* processEvent() holds a session that was not.
CreateSession ==
  /\ thread = "handling"
  /\ context /\ UsesContext(Now) /\ Status(Now) = 201
  /\ AddSession(Now.body)
  /\ updateNFLoad(sessions')
  /\ Reply(201)
  /\ IF Now.body.id \in DOMAIN sessions
     THEN thread' = "dropping" /\ doomed' = <<Now.body>>
     ELSE thread' = "popping" /\ UNCHANGED doomed
  /\ UNCHANGED <<appVars, queue, received, dying>>

EndDrop ==
  /\ thread = "dropping"
  /\ Destroyed
  /\ UNCHANGED <<sessions, queue, current, dying, served>> /\ OnlyThread

\* POST, refused when the ingesters run.  All their destructors are one wait.
BeginRefusal ==
  /\ thread = "handling"
  /\ Unwinds(Now)
  /\ thread' = "refusing"
  /\ doomed' = <<Now.body>>
  /\ UNCHANGED <<sessions, queue, current, dying, served>> /\ OnlyThread

EndRefusal ==
  /\ thread = "refusing"
  /\ Destroyed
  /\ Reply(Status(Now))
  /\ UNCHANGED <<sessions, queue, dying>> /\ OnlyThread

\* DELETE: the session leaves the map, then its destructor runs
BeginDelete ==
  /\ thread = "handling"
  /\ context /\ Now.method = "DELETE" /\ UsesContext(Now) /\ Status(Now) = 204
  /\ doomed' = <<sessions[Now.ref]>>
  /\ EraseSession(Now.ref)
  /\ thread' = "destroying"
  /\ UNCHANGED <<queue, current, dying, served>> /\ OnlyThread

EndDelete ==
  /\ thread = "destroying" /\ context
  /\ Destroyed
  /\ updateNFLoad(sessions)
  /\ Reply(204)
  /\ UNCHANGED <<appVars, sessions, queue, received, dying>>

EndDeleteWithoutContext ==
  /\ thread = "destroying" /\ ~context
  /\ Crash

\* faulty: the request is freed without an answer
HandleOtherUnanswered ==
  /\ thread = "handling"
  /\ UsesContext(Now) => context /\ Status(Now) \notin {201, 204}
  /\ ~Unwinds(Now)
  /\ thread' = "popping" /\ current' = <<>>
  /\ UNCHANGED <<sessions, queue, doomed, dying, served>> /\ OnlyThread

\* all the other requests, which leave the registry alone
HandleOther ==
  /\ thread = "handling"
  /\ UsesContext(Now) => context /\ Status(Now) \notin {201, 204}
  /\ ~Unwinds(Now)
  /\ Reply(Status(Now))
  /\ thread' = "popping"
  /\ UNCHANGED <<sessions, queue, doomed, dying>> /\ OnlyThread

-----------------------------------------------------------------------------
(* app_terminate() *)

\* registerEventHandler(nullptr), delete event_handler
Unregister ==
  /\ main = "running"
  /\ main' = "unregistered"
  /\ handler' = FALSE
  /\ UNCHANGED <<context, terminated, registryVars, thread, queue, received, current, doomed, dying, served>>

\* m_context.reset(), with the destructors of the sessions it has
ResetContext ==
  /\ main = "unregistered"
  /\ main' = "closing"
  /\ context' = FALSE
  /\ sessions' = <<>>
  /\ dying' = dying \cup {sessions[i] : i \in DOMAIN sessions}
  /\ UNCHANGED <<handler, terminated, load, thread, queue, received, current, doomed, served>>

\* faulty: the event thread is joined without the queue having been terminated
JoinWithoutTermination ==
  /\ main = "closing"
  /\ dying = {}
  /\ main' = "joining"
  /\ UNCHANGED <<handler, context, terminated, registryVars, thread, queue, received, current,
                 doomed, dying, served>>

\* the sessions are gone: ogs_queue_term(), ogs_pollset_notify()
TerminateQueue ==
  /\ main = "closing"
  /\ dying = {}
  /\ main' = "joining"
  /\ terminated' = TRUE
  /\ UNCHANGED <<handler, context, registryVars, thread, queue, received, current, doomed, dying, served>>

\* stopEventHandler(), sbiClose()
JoinThread ==
  /\ main = "joining"
  /\ thread = "done"
  /\ main' = "done"
  /\ UNCHANGED <<handler, context, terminated, registryVars, thread, queue, received, current,
                 doomed, dying, served>>

-----------------------------------------------------------------------------
\* m_context.reset() destroys the sessions that it had.
ContextDestroys(s) ==
  /\ s \in dying
  /\ dying' = dying \ {s}
  /\ UNCHANGED <<appVars, registryVars, thread, queue, received, current, doomed, served>>

\* the sessions that have a controller, whole or in part
Controlled ==
  {sessions[i] : i \in DOMAIN sessions} \cup {doomed[k] : k \in DOMAIN doomed} \cup dying
    \cup (IF thread = "handling" /\ (Makes(Now) \/ Unwinds(Now)) THEN {Now.body} ELSE {})

\* A controller ends the process: the worker of an ingester for uploads joins
\* itself, the HTTP daemon's thread leaves std::stoul() with an exception, or the
\* constructor of the STREAMING controller finds its packager gone.
ControllerCrashes ==
  /\ thread \notin {"crashed", "killed"}
  /\ \/ \E s \in Controlled : s.method = "PUSH"
     \/ thread = "handling" /\ Makes(Now) /\ Now.body.mode = "STREAMING"
  /\ thread' = "killed" /\ main' = "crashed"
  /\ dying' = {}
  /\ UNCHANGED <<handler, context, terminated, registryVars, queue, received, current, doomed, served>>

HandleEvent ==
  \/ UseResetContext
  \/ CreateSession \/ EndDrop
  \/ BeginRefusal \/ EndRefusal
  \/ BeginDelete \/ EndDelete \/ EndDeleteWithoutContext
  \/ HandleOther

EventThread == PollReturns \/ Pop \/ DispatchEvent \/ CallHandler \/ CallResetHandler \/ HandleEvent

Terminate == ResetContext \/ TerminateQueue \/ JoinThread

Next ==
  \/ Initialise \/ InitialiseFails \/ StartEventHandler \/ StartEventHandlerFails
  \/ \E q \in Request : Receive(q)
  \/ EventThread
  \/ \E s \in DistSession : ContextDestroys(s)
  \/ ControllerCrashes
  \/ Unregister
  \/ Terminate

\* the event thread waits for an ingester of uploads to end
JoinsPushIngester == \E k \in DOMAIN doomed : doomed[k].method = "PUSH"

\* Both threads run, and a destructor returns unless the session has an ingester
\* for uploads.
Fairness ==
  /\ WF_vars(EventThread /\ ~JoinsPushIngester)
  /\ WF_vars(Terminate)
  /\ \A s \in DistSession : s.method # "PUSH" => WF_vars(ContextDestroys(s))

Spec == Init /\ [][Next]_vars /\ Fairness

-----------------------------------------------------------------------------
(* Properties *)

TypeOK ==
  /\ DOMAIN sessions \subseteq Id
  /\ sessions \in [DOMAIN sessions -> DistSession]
  /\ main \in MainAt /\ thread \in ThreadAt
  /\ handler \in BOOLEAN /\ context \in BOOLEAN /\ terminated \in BOOLEAN
  /\ received \in Seq(Request)
  /\ queue \in Seq(DOMAIN received)
  /\ current \in Seq(DOMAIN received) /\ Len(current) <= 1
  /\ doomed \in Seq(DistSession) /\ Len(doomed) <= 1
  /\ dying \subseteq DistSession
  /\ served \in Seq([number : Nat, request : Request, status : Nat])

\* The sessions that a controller can serve.
Servable(s) ==
  /\ s.mbr = None \/ Readable(s.mbr)
  /\ \/ s.mode = "SINGLE" /\ ~(s.method = "PUSH" /\ s.pushId)
     \/ /\ s.mode = "STREAMING"
        /\ s.method = "PULL" => s.pullIds \in {None, 1} /\ ~s.pushId
        /\ s.method = "PUSH" => s.pullIds = None

\* A session is created if and only if one of the controllers accepts it, whatever
\* the order in which the factory tries them and whatever they throw
\* (ControllerFactory.cc:46-62).
CreatedIffServable ==
  \A k \in DOMAIN served :
    LET q == served[k].request
    IN q.method = "POST" /\ q.service = "nmbstf-distsession" /\ q.body \in DistSession
         => /\ served[k].status = 201 => Servable(q.body)
            /\ served[k].status \in {400, 501} /\ q.v1 /\ q.resource = "dist-sessions"
                 /\ q.ref = NoPart => ~Servable(q.body)

\* The bit rate of every registered session can be parsed.  updateNFLoad() parses
\* them all after each change: an exception there would leave the event thread and
\* end the process (Context.cc:361-368).
RatesReadable ==
  \A i \in DOMAIN sessions : sessions[i].mbr # None => Readable(sessions[i].mbr)

\* As long as the event handler is registered the event thread finds App's handler
\* and Context, in whatever order requests and the start of the program come (App.cc:
\* 41-75, :161-166, Open5GSNetworkFunction.cc:296-320), and updateNFLoad() can parse
\* every rate (Context.cc:361-368).  What a controller uses of its own is another
\* matter, see ControllerCrashes.
NothingGoneInService == (thread = "crashed" => ~handler) /\ RatesReadable

\* A session in the middle of a DELETE counts as registered until the answer.
registry ==
  IF doomed # <<>> /\ current # <<>> /\ Now.method = "DELETE" /\ context
  THEN [i \in DOMAIN sessions \cup {doomed[1].id} |->
          IF i = doomed[1].id THEN doomed[1] ELSE sessions[i]]
  ELSE sessions

Registry == INSTANCE SessionRegistry WITH Body <- DistSession

RegistryNext ==
  \/ Registry!Close
  \/ \E n \in DOMAIN received :
       \/ Registry!Create(n, received[n])
       \/ Registry!Delete(n, received[n])
       \/ Registry!Retrieve(n, received[n])
       \/ \E status \in {204, 400, 403, 404, 405, 415, 501} :
            Registry!Other(n, received[n], status)

\* To its clients the program is a map of sessions that carries out one request at
\* a time, in the order in which they came: what an answer says has happened, and
\* nothing happens to the sessions that no answer tells of, until the program ends
\* (DistributionSession.cc:169-355, Context.cc:130-148).
ImplementsRegistry == Registry!Init /\ [][RegistryNext]_<<registry, served>>

\* A request is answered unless the program terminates, or the event thread waits
\* for ever for an ingester of uploads to end: for that of a deleted session, or of
\* one that was refused or was not inserted (Context.cc:134, :143).
RequestsAnswered ==
  \/ <>[]JoinsPushIngester
  \/ \A n \in 1..MaxRequests :
       n \in DOMAIN received
         ~> (\E k \in DOMAIN served : served[k].number = n) \/ main # "running"

\* Termination ends: no request in the queue, nor one that arrives while the
\* application is going down, keeps the threads alive.  It may end in a crash,
\* see UseResetContext, or wait for ever for an ingester of uploads, on either thread.
TerminationEnds ==
  \/ <>[](JoinsPushIngester \/ \E s \in dying : s.method = "PUSH")
  \/ main = "unregistered" ~> main \in {"done", "crashed"}
=============================================================================
