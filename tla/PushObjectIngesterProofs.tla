---------------------- MODULE PushObjectIngesterProofs ----------------------
(***************************************************************************)
(* Theorems about PushObjectIngester, for any connections, requests and    *)
(* sizes.  What happens to requests (Requests) depends only on the daemon's*)
(* thread and on the clients; what holds when the destructor ends (Threads)*)
(* only on where the three threads are and who holds the mutex.            *)
(***************************************************************************)
EXTENDS PushObjectIngester, TLAPS

USE RequestAssumption, ConnAssumption, BlocksAssumption

InProgress == {"open", "refused", "answered"}

\* nothing is stored for a request that is not answered, and the upload of the
\* request that is being processed is whole
Requests ==
  /\ \A c \in Conn : conn[c] \in {"none", "open", "refused"} => store[c] = NotStored
  /\ http \in {"add", "notify"} => conn[current] = "none"
  /\ http \in {"prefix", "metadata"} =>
       /\ conn[current] = "open"
       /\ current \in ended /\ body[current] = upload[current]
  /\ http = "remove" => conn[current] \in InProgress
  /\ http = "exited" => \A c \in Conn : conn[c] \in {"none", "closed"}

RequestInv == Requests /\ WholeUploadsStored /\ ReplyIsTrue /\ ActiveRequestsAgree

\* a destructor that has joined the worker has no rival for the mutex but the
\* daemon's thread, which never keeps it
Threads ==
  /\ session \in {"lock", "close", "stopped"} => worker = "ended"
  /\ session = "close" => mtx = "session"
  /\ session = "stopped" => mtx = "nobody" /\ http = "exited"

\* the steps that no request takes part in
Elsewhere ==
  /\ UNCHANGED <<http, current, clientVars, requestVars>>

-----------------------------------------------------------------------------
(* Types *)

LEMMA NoUploadType == NoUpload \in Conn
BY DEF NoUpload, Conn

LEMMA InitTypes == Init => TypeOK
<1> SUFFICES ASSUME Init PROVE TypeOK
  OBVIOUS
<1>1. current \in Conn
  BY NoUploadType DEF Init
<1>2. request \in [Conn -> RequestKind]
  BY DEF Init, RequestKind
<1>3. store \in [Conn -> 0..NotStored]
  <2>1. NotStored \in 0..NotStored
    BY DEF NotStored
  <2> QED BY <2>1 DEF Init
<1>4. asking \in [{"session", "http"} -> AskingAt] /\ conn \in [Conn -> ConnAt]
  BY DEF Init, AskingAt, ConnAt
<1>5. /\ upload \in [Conn -> 0..MaxBlocks] /\ body \in [Conn -> 0..MaxBlocks]
      /\ status \in [Conn -> {0, 200, 400, 405}]
  BY DEF Init
<1>6. /\ session \in SessionAt /\ worker \in WorkerAt /\ http \in HttpAt
      /\ sockaddr \in Address /\ urlPrefix \in Address /\ baseUrl \in Address
  BY DEF Init, SessionAt, WorkerAt, HttpAt, Address
<1> QED BY <1>1, <1>2, <1>3, <1>4, <1>5, <1>6 DEF Init, TypeOK

LEMMA WorkerTypes == TypeOK /\ Worker => TypeOK'
<1> SUFFICES ASSUME TypeOK, Worker PROVE TypeOK'
  OBVIOUS
<1> USE DEF TypeOK, WorkerAt, Address, daemonVars, prefixVars, clientVars, requestVars
<1>1. CASE WorkerEnds BY <1>1 DEF WorkerEnds
<1>2. CASE StartLocks BY <1>2 DEF StartLocks
<1>3. CASE DaemonStarts BY <1>3 DEF DaemonStarts
<1>4. CASE DaemonFails BY <1>4 DEF DaemonFails
<1>5. CASE StartUnlocks BY <1>5 DEF StartUnlocks
<1>6. CASE AbortSelf BY <1>6 DEF AbortSelf
<1>7. CASE JoinableSelf BY <1>7 DEF JoinableSelf
<1> QED BY <1>1, <1>2, <1>3, <1>4, <1>5, <1>6, <1>7 DEF Worker

LEMMA PrefixTypes ==
  ASSUME NEW t \in {"session", "http"}, TypeOK, PrefixStep(t)
  PROVE  TypeOK'
<1> USE DEF TypeOK, Address, AskingAt, threadVars, daemonVars, clientVars, requestVars
<1>1. CASE PrefixWaits(t) BY <1>1 DEF PrefixWaits
<1>2. CASE PrefixBound(t) BY <1>2 DEF PrefixBound
<1>3. CASE PrefixRouted(t) BY <1>3 DEF PrefixRouted
<1>4. CASE PrefixNamed(t) BY <1>4 DEF PrefixNamed
<1>5. CASE PrefixFails(t) BY <1>5 DEF PrefixFails
<1> QED BY <1>1, <1>2, <1>3, <1>4, <1>5 DEF PrefixStep

\* what the daemon's stop by the session's thread leaves alone
StoppingKeeps ==
  /\ worker' = worker /\ http' = http /\ current' = current
  /\ handle' = handle /\ cancel' = cancel /\ subscribed' = subscribed
  /\ sockaddr' = sockaddr /\ urlPrefix' = urlPrefix /\ baseUrl' = baseUrl
  /\ asking' = asking /\ conn' = conn /\ request' = request /\ upload' = upload
  /\ ended' = ended /\ body' = body /\ status' = status /\ store' = store

LEMMA StoppingTypes ==
  ASSUME TypeOK, StoppingKeeps, session' \in SessionAt, mtx' \in {"nobody", "session", "worker"},
         listening' \in BOOLEAN, daemon' \in BOOLEAN, active' \subseteq Conn
  PROVE  TypeOK'
  BY DEF TypeOK, StoppingKeeps

LEMMA SessionTypes == TypeOK /\ (Session \/ (Alive /\ Destroy)) => TypeOK'
<1> SUFFICES ASSUME TypeOK, Session \/ (Alive /\ Destroy) PROVE TypeOK'
  OBVIOUS
<1>1. CASE AskPrefix BY <1>1, PrefixTypes DEF AskPrefix
<1> USE DEF TypeOK, SessionAt, Address, daemonVars, prefixVars, clientVars, requestVars
<1>2. CASE AssignWorker BY <1>2 DEF AssignWorker
<1>4. CASE Publish BY <1>4 DEF Publish
<1>5. CASE SubscribePush BY <1>5 DEF SubscribePush
<1>6. CASE JoinWorker BY <1>6 DEF JoinWorker
<1>7. CASE StopDaemon
  <2>1. session' \in SessionAt /\ mtx' \in {"nobody", "session", "worker"} /\ listening' \in BOOLEAN
    BY <1>7 DEF StopDaemon
  <2>2. UNCHANGED <<daemon, active>>
    BY <1>7 DEF StopDaemon
  <2>3. StoppingKeeps
    BY <1>7 DEF StopDaemon, StoppingKeeps
  <2> QED BY <2>1, <2>2, <2>3, StoppingTypes
<1>8. CASE DaemonStopped
  <2>1. session' \in SessionAt /\ mtx' \in {"nobody", "session", "worker"} /\ daemon' \in BOOLEAN
    BY <1>8 DEF DaemonStopped
  <2>2. active' \subseteq Conn /\ listening' = listening
    BY <1>8 DEF DaemonStopped
  <2>3. StoppingKeeps
    BY <1>8 DEF DaemonStopped, StoppingKeeps
  <2> QED BY <2>1, <2>2, <2>3, StoppingTypes
<1>9. CASE Destroy BY <1>9 DEF Destroy
<1> QED BY <1>1, <1>2, <1>4, <1>5, <1>6, <1>7, <1>8, <1>9 DEF Session

\* the actions of the daemon's thread on connection c, and those of its client
RequestStep(c) ==
  \/ \E r \in MayAsk[c] : FirstCall(c, r)
  \/ FirstCallThrows(c)
  \/ ReceiveBlock(c) \/ RejectMethod(c) \/ RequestHandler(c) \/ CompleteRequest(c)
  \/ SendBlock(c) \/ EndUpload(c)

\* the others of its actions
DaemonStep == AddRequest \/ NotifyStart \/ UrlWithoutPrefix \/ ProcessRequest \/ RemoveRequest \/ DaemonExits

LEMMA MayAskType == ASSUME NEW c \in Conn PROVE MayAsk[c] \subseteq RequestKind
BY DEF Conn

LEMMA RequestStepTypes ==
  ASSUME NEW c \in Conn, TypeOK, RequestStep(c)
  PROVE  TypeOK'
<1> USE DEF TypeOK, HttpAt, ConnAt, threadVars, daemonVars, prefixVars, clientVars, requestVars, NotStored
<1>1. CASE \E r \in MayAsk[c] : FirstCall(c, r) BY <1>1, MayAskType DEF FirstCall, IsNew
<1>2. CASE ReceiveBlock(c) BY <1>2 DEF ReceiveBlock
<1>3. CASE RejectMethod(c) BY <1>3 DEF RejectMethod
<1>4. CASE RequestHandler(c) BY <1>4 DEF RequestHandler
<1>5. CASE CompleteRequest(c) BY <1>5 DEF CompleteRequest
<1>6. CASE SendBlock(c) BY <1>6 DEF SendBlock
<1>7. CASE EndUpload(c) BY <1>7 DEF EndUpload
<1>8. CASE FirstCallThrows(c) BY <1>8 DEF FirstCallThrows, IsNew
<1> QED BY <1>1, <1>2, <1>3, <1>4, <1>5, <1>6, <1>7, <1>8 DEF RequestStep

LEMMA DaemonStepTypes == TypeOK /\ DaemonStep => TypeOK'
<1> SUFFICES ASSUME TypeOK, DaemonStep PROVE TypeOK'
  OBVIOUS
<1> USE DEF TypeOK, HttpAt, AskingAt, ConnAt, daemonVars, prefixVars, clientVars, requestVars, NotStored
<1>1. CASE AddRequest BY <1>1, NoUploadType DEF AddRequest
<1>2. CASE NotifyStart BY <1>2, NoUploadType DEF NotifyStart
<1>3. CASE ProcessRequest BY <1>3, NoUploadType DEF ProcessRequest
<1>4. CASE RemoveRequest BY <1>4, NoUploadType DEF RemoveRequest
<1>5. CASE DaemonExits BY <1>5 DEF DaemonExits
<1>6. CASE UrlWithoutPrefix BY <1>6 DEF UrlWithoutPrefix
<1> QED BY <1>1, <1>2, <1>3, <1>4, <1>5, <1>6 DEF DaemonStep

\* a step of Next is one of the kinds above
LEMMA Kinds ==
  ASSUME Next
  PROVE  \/ Worker
         \/ Session \/ (Alive /\ Destroy)
         \/ AskPrefixForUrl
         \/ DaemonStep
         \/ \E c \in Conn : RequestStep(c)
<1>1. CASE Worker \/ Session BY <1>1
<1>2. CASE Http
  <2>1. CASE AskPrefixForUrl BY <2>1
  <2>2. CASE AddRequest \/ NotifyStart \/ UrlWithoutPrefix \/ ProcessRequest \/ RemoveRequest \/ DaemonExits
    BY <2>2 DEF DaemonStep
  <2>3. ASSUME NEW c \in Conn,
               ReceiveBlock(c) \/ RejectMethod(c) \/ RequestHandler(c) \/ CompleteRequest(c)
        PROVE  RequestStep(c)
    BY <2>3 DEF RequestStep
  <2> QED BY <1>2, <2>1, <2>2, <2>3 DEF Http
<1>3. CASE Environment
  <2>1. ASSUME NEW c \in Conn,
               \/ \E r \in MayAsk[c] : FirstCall(c, r)
               \/ FirstCallThrows(c)
               \/ CompleteRequest(c) \/ SendBlock(c) \/ EndUpload(c)
        PROVE  RequestStep(c)
    BY <2>1 DEF RequestStep
  <2> QED BY <1>3, <2>1 DEF Environment
<1> QED BY <1>1, <1>2, <1>3 DEF Next

LEMMA StepTypes == TypeOK /\ [Next]_vars => TypeOK'
<1> SUFFICES ASSUME TypeOK, [Next]_vars PROVE TypeOK'
  OBVIOUS
<1>1. CASE Worker BY <1>1, WorkerTypes
<1>2. CASE Session \/ (Alive /\ Destroy) BY <1>2, SessionTypes
<1>3. CASE AskPrefixForUrl BY <1>3, PrefixTypes DEF AskPrefixForUrl
<1>4. CASE DaemonStep BY <1>4, DaemonStepTypes
<1>5. CASE \E c \in Conn : RequestStep(c) BY <1>5, RequestStepTypes
<1>6. CASE UNCHANGED vars
  BY <1>6 DEF vars, threadVars, daemonVars, prefixVars, clientVars, requestVars, TypeOK
<1> QED BY <1>1, <1>2, <1>3, <1>4, <1>5, <1>6, Kinds

\* The members of the ingester and of its requests keep their types.
THEOREM TypeCorrect == Spec => []TypeOK
BY InitTypes, StepTypes, PTL DEF Spec

-----------------------------------------------------------------------------
(* Requests *)

LEMMA InitRequests == Init => RequestInv
<1> SUFFICES ASSUME Init PROVE RequestInv
  OBVIOUS
<1>1. /\ conn = [c \in Conn |-> "none"] /\ store = [c \in Conn |-> NotStored]
      /\ status = [c \in Conn |-> 0] /\ active = {} /\ http = "select"
  BY DEF Init
<1> QED
  BY <1>1 DEF RequestInv, Requests, WholeUploadsStored, ReplyIsTrue, ActiveRequestsAgree

\* the steps of the worker, those of the session up to the end of stop(), and
\* getIngestServerPrefix()
LEMMA ElsewhereSteps ==
  ASSUME Worker \/ Session \/ (Alive /\ Destroy) \/ AskPrefixForUrl
  PROVE  Elsewhere \/ DaemonStopped
<1> USE DEF Elsewhere, threadVars, daemonVars, prefixVars, clientVars, requestVars
<1>1. CASE Worker
  BY <1>1 DEF Worker, WorkerEnds, StartLocks, DaemonStarts, DaemonFails, StartUnlocks, AbortSelf, JoinableSelf
<1>2. ASSUME NEW t, PrefixStep(t) PROVE Elsewhere
  BY <1>2 DEF PrefixStep, PrefixWaits, PrefixBound, PrefixRouted, PrefixNamed, PrefixFails
<1>3. CASE Session
  BY <1>2, <1>3 DEF Session, AssignWorker, AskPrefix, Publish, SubscribePush, JoinWorker, StopDaemon
<1>4. CASE Alive /\ Destroy
  BY <1>4 DEF Destroy
<1>5. CASE AskPrefixForUrl
  BY <1>2, <1>5 DEF AskPrefixForUrl
<1> QED BY <1>1, <1>3, <1>4, <1>5

LEMMA ElsewhereRequests == RequestInv /\ Elsewhere => RequestInv'
BY DEF Elsewhere, clientVars, requestVars, RequestInv, Requests, WholeUploadsStored, ReplyIsTrue, ActiveRequestsAgree

\* stop() clears a list that is empty: the daemon's thread has ended its
\* connections before it exited
LEMMA StoppedRequests == TypeOK /\ RequestInv /\ DaemonStopped => RequestInv'
<1> SUFFICES ASSUME TypeOK, RequestInv, DaemonStopped PROVE RequestInv'
  OBVIOUS
<1>1. http = "exited" /\ active' = {} /\ UNCHANGED <<http, current, conn, body, status, store, upload, ended>>
  BY DEF DaemonStopped, clientVars
<1> QED
  BY <1>1 DEF TypeOK, RequestInv, Requests, WholeUploadsStored, ReplyIsTrue, ActiveRequestsAgree

LEMMA RequestStepRequests ==
  ASSUME NEW c \in Conn, TypeOK, RequestInv, RequestStep(c)
  PROVE  RequestInv'
<1> USE DEF TypeOK, RequestInv, Requests, WholeUploadsStored, ReplyIsTrue, ActiveRequestsAgree, InProgress, NotStored
<1> USE DEF threadVars, clientVars, requestVars
<1>1. CASE \E r \in MayAsk[c] : FirstCall(c, r) BY <1>1, MayAskType DEF FirstCall, IsNew
<1>2. CASE ReceiveBlock(c) BY <1>2 DEF ReceiveBlock
<1>3. CASE RejectMethod(c) BY <1>3 DEF RejectMethod
<1>4. CASE RequestHandler(c) BY <1>4 DEF RequestHandler
<1>5. CASE CompleteRequest(c) BY <1>5 DEF CompleteRequest
<1>6. CASE SendBlock(c) BY <1>6 DEF SendBlock
<1>7. CASE EndUpload(c) BY <1>7 DEF EndUpload
<1>8. CASE FirstCallThrows(c) BY <1>8 DEF FirstCallThrows, IsNew
<1> QED BY <1>1, <1>2, <1>3, <1>4, <1>5, <1>6, <1>7, <1>8 DEF RequestStep

LEMMA DaemonStepRequests == TypeOK /\ RequestInv /\ DaemonStep => RequestInv'
<1> SUFFICES ASSUME TypeOK, RequestInv, DaemonStep PROVE RequestInv'
  OBVIOUS
<1> USE DEF TypeOK, RequestInv, Requests, WholeUploadsStored, ReplyIsTrue, ActiveRequestsAgree, InProgress, NotStored
<1> USE DEF clientVars, requestVars
<1>1. CASE AddRequest BY <1>1 DEF AddRequest
<1>2. CASE NotifyStart BY <1>2 DEF NotifyStart
<1>3. CASE ProcessRequest BY <1>3 DEF ProcessRequest
<1>4. CASE RemoveRequest BY <1>4 DEF RemoveRequest
<1>5. CASE DaemonExits BY <1>5 DEF DaemonExits
<1>6. CASE UrlWithoutPrefix BY <1>6 DEF UrlWithoutPrefix
<1> QED BY <1>1, <1>2, <1>3, <1>4, <1>5, <1>6 DEF DaemonStep

LEMMA StepRequests == TypeOK /\ RequestInv /\ [Next]_vars => RequestInv'
<1> SUFFICES ASSUME TypeOK, RequestInv, [Next]_vars PROVE RequestInv'
  OBVIOUS
<1>1. CASE Worker \/ Session \/ (Alive /\ Destroy) \/ AskPrefixForUrl
  BY <1>1, ElsewhereSteps, ElsewhereRequests, StoppedRequests
<1>2. CASE DaemonStep BY <1>2, DaemonStepRequests
<1>3. CASE \E c \in Conn : RequestStep(c) BY <1>3, RequestStepRequests
<1>4. CASE UNCHANGED vars
  BY <1>4, ElsewhereRequests DEF Elsewhere, vars, threadVars
<1> QED BY <1>1, <1>2, <1>3, <1>4, Kinds

LEMMA AlwaysRequests == Spec => []RequestInv
<1>1. TypeOK /\ RequestInv /\ [Next]_vars => RequestInv'
  BY StepRequests
<1> QED BY InitRequests, <1>1, TypeCorrect, PTL DEF Spec

\* A stored upload is whole and its client was told so, in every interleaving of
\* connections that break off with the daemon's stop; who was not told 200 has left
\* nothing in the store.
THEOREM UploadsAreAllOrNothing == Spec => []AllOrNothing
<1>1. RequestInv => AllOrNothing BY DEF RequestInv, AllOrNothing
<1> QED BY <1>1, AlwaysRequests, PTL

\* m_activeRequests holds the requests in progress and no others.
THEOREM ActiveListAgrees == Spec => []ActiveRequestsAgree
<1>1. RequestInv => ActiveRequestsAgree BY DEF RequestInv
<1> QED BY <1>1, AlwaysRequests, PTL

-----------------------------------------------------------------------------
(* The destructor *)

LEMMA StepThreads == Threads /\ [Next]_vars => Threads'
<1> SUFFICES ASSUME Threads, [Next]_vars PROVE Threads'
  OBVIOUS
<1> USE DEF Threads, threadVars, daemonVars, prefixVars, clientVars, requestVars
<1>1. CASE Worker
  BY <1>1 DEF Worker, WorkerEnds, StartLocks, DaemonStarts, DaemonFails, StartUnlocks, AbortSelf, JoinableSelf
<1>2. ASSUME NEW t, PrefixStep(t) PROVE Threads'
  BY <1>2 DEF PrefixStep, PrefixWaits, PrefixBound, PrefixRouted, PrefixNamed, PrefixFails
<1>3. CASE Session \/ (Alive /\ Destroy)
  BY <1>2, <1>3 DEF Session, Destroy, AssignWorker, AskPrefix, Publish, SubscribePush, JoinWorker, StopDaemon, DaemonStopped
<1>4. CASE AskPrefixForUrl
  BY <1>2, <1>4 DEF AskPrefixForUrl
<1>5. CASE DaemonStep
  BY <1>5 DEF DaemonStep, AddRequest, NotifyStart, UrlWithoutPrefix, ProcessRequest, RemoveRequest, DaemonExits
<1>6. CASE \E c \in Conn : RequestStep(c)
  BY <1>6 DEF RequestStep, FirstCall, FirstCallThrows, IsNew, ReceiveBlock, RejectMethod, RequestHandler, CompleteRequest, SendBlock, EndUpload
<1>7. CASE UNCHANGED vars
  BY <1>7 DEF vars
<1> QED BY <1>1, <1>3, <1>4, <1>5, <1>6, <1>7, Kinds

\* After stop() no thread uses the ingester and no connection is in progress.
THEOREM StopIsFinal == Spec => []QuietWhenStopped
<1>1. Init => Threads
  BY DEF Init, Threads
<1>2. Threads /\ RequestInv => QuietWhenStopped
  BY DEF Threads, RequestInv, Requests, QuietWhenStopped
<1> QED BY <1>1, <1>2, StepThreads, AlwaysRequests, PTL DEF Spec

-----------------------------------------------------------------------------
(* While the session starts *)

\* Only a daemon's thread that processes an upload asks for the prefix; the session's
\* thread asks when the worker has done all that it does to m_sockaddr.
Routes ==
  /\ \A c \in ended : conn[c] # "none"
  /\ http \in {"prefix", "metadata"} => current \in ended /\ request[current].allowed
  /\ asking["http"] # "out" => http \in {"prefix", "metadata"}
  /\ asking["session"] \notin {"out", "failed"} => session = "prefix" /\ daemon
  /\ daemon => worker \notin {"starting", "assign"}
  /\ asking["session"] = "routed" => sockaddr = "local" \/ UploadReady
  /\ AddressHasRoute

LEMMA InitRoutes == Init => Routes
<1> SUFFICES ASSUME Init PROVE Routes
  OBVIOUS
<1>1. /\ ended = {} /\ http = "select" /\ daemon = FALSE /\ urlPrefix = "none" /\ baseUrl = "none"
      /\ asking = [t \in {"session", "http"} |-> "out"]
  BY DEF Init
<1>2. asking["session"] = "out" /\ asking["http"] = "out"
  BY <1>1
<1> QED BY <1>1, <1>2 DEF Routes, AddressHasRoute

LEMMA WorkerRoutes == Routes /\ Worker => Routes'
<1> SUFFICES ASSUME Routes, Worker PROVE Routes'
  OBVIOUS
<1> USE DEF Routes, AddressHasRoute, UploadReady, daemonVars, prefixVars, clientVars, requestVars
<1>1. CASE WorkerEnds BY <1>1 DEF WorkerEnds
<1>2. CASE StartLocks BY <1>2 DEF StartLocks
<1>3. CASE DaemonStarts BY <1>3 DEF DaemonStarts
<1>4. CASE DaemonFails BY <1>4 DEF DaemonFails
<1>5. CASE StartUnlocks BY <1>5 DEF StartUnlocks
<1>6. CASE AbortSelf BY <1>6 DEF AbortSelf
<1>7. CASE JoinableSelf BY <1>7 DEF JoinableSelf
<1> QED BY <1>1, <1>2, <1>3, <1>4, <1>5, <1>6, <1>7 DEF Worker

LEMMA PrefixRoutes ==
  ASSUME NEW t \in {"session", "http"}, TypeOK, Routes, PrefixStep(t), t = "session" => session = "prefix",
         t = "http" => http \in {"prefix", "metadata"}
  PROVE  Routes'
<1>1. asking \in [{"session", "http"} -> AskingAt]
  BY DEF TypeOK
<1>2. /\ UNCHANGED <<session, worker, http, current, daemon, baseUrl, ended, conn, request>>
      /\ asking[t] = "out" => daemon
      /\ \E a \in AskingAt : asking' = [asking EXCEPT ![t] = a]
  BY DEF PrefixStep, PrefixWaits, PrefixBound, PrefixRouted, PrefixNamed, PrefixFails, AskingAt,
         threadVars, daemonVars, clientVars, requestVars
<1> USE DEF Routes, AddressHasRoute, UploadReady
<1>3. CASE PrefixWaits(t) BY <1>1, <1>2, <1>3 DEF PrefixWaits
<1>4. CASE PrefixBound(t) BY <1>1, <1>2, <1>4 DEF PrefixBound
<1>5. CASE PrefixRouted(t) BY <1>1, <1>2, <1>5 DEF PrefixRouted
<1>6. CASE PrefixNamed(t) BY <1>1, <1>2, <1>6 DEF PrefixNamed
<1>7. CASE PrefixFails(t) BY <1>1, <1>2, <1>7 DEF PrefixFails
<1> QED BY <1>3, <1>4, <1>5, <1>6, <1>7 DEF PrefixStep

LEMMA SessionRoutes == TypeOK /\ Routes /\ Threads /\ (Session \/ (Alive /\ Destroy)) => Routes'
<1> SUFFICES ASSUME TypeOK, Routes, Threads, Session \/ (Alive /\ Destroy) PROVE Routes'
  OBVIOUS
<1>1. CASE AskPrefix BY <1>1, PrefixRoutes DEF AskPrefix
<1> USE DEF Routes, AddressHasRoute, UploadReady, daemonVars, prefixVars, clientVars, requestVars
<1>2. CASE AssignWorker BY <1>2 DEF AssignWorker
<1>4. CASE Publish BY <1>4 DEF Publish, PrefixKnown
<1>5. CASE SubscribePush BY <1>5 DEF SubscribePush
<1>6. CASE JoinWorker BY <1>6 DEF JoinWorker
<1>7. CASE StopDaemon BY <1>7 DEF StopDaemon
<1>8. CASE DaemonStopped BY <1>8 DEF DaemonStopped
<1>9. CASE Destroy BY <1>9 DEF Destroy
<1> QED BY <1>1, <1>2, <1>4, <1>5, <1>6, <1>7, <1>8, <1>9 DEF Session

LEMMA RequestStepRoutes ==
  ASSUME NEW c \in Conn, TypeOK, Routes, RequestStep(c)
  PROVE  Routes'
<1>1. request \in [Conn -> RequestKind] /\ conn \in [Conn -> ConnAt] /\ ended \subseteq Conn
  BY DEF TypeOK
<1> USE DEF Routes, AddressHasRoute, UploadReady, threadVars, daemonVars, prefixVars, clientVars, requestVars
<1>2. CASE \E r \in MayAsk[c] : FirstCall(c, r) BY <1>1, <1>2, MayAskType DEF FirstCall, IsNew
<1>3. CASE ReceiveBlock(c) BY <1>1, <1>3 DEF ReceiveBlock
<1>4. CASE RejectMethod(c) BY <1>1, <1>4 DEF RejectMethod
<1>5. CASE RequestHandler(c) BY <1>1, <1>5 DEF RequestHandler
<1>6. CASE CompleteRequest(c) BY <1>1, <1>6 DEF CompleteRequest
<1>7. CASE SendBlock(c) BY <1>1, <1>7 DEF SendBlock
<1>8. CASE EndUpload(c) BY <1>1, <1>8 DEF EndUpload
<1>9. CASE FirstCallThrows(c) BY <1>1, <1>9 DEF FirstCallThrows, IsNew
<1> QED BY <1>2, <1>3, <1>4, <1>5, <1>6, <1>7, <1>8, <1>9 DEF RequestStep

LEMMA DaemonStepRoutes == TypeOK /\ Routes /\ DaemonStep => Routes'
<1> SUFFICES ASSUME TypeOK, Routes, DaemonStep PROVE Routes'
  OBVIOUS
<1>0. asking \in [{"session", "http"} -> AskingAt]
  BY DEF TypeOK
<1>1. conn \in [Conn -> ConnAt] /\ ended \subseteq Conn /\ current \in Conn
  BY DEF TypeOK
<1> USE DEF Routes, AddressHasRoute, UploadReady, daemonVars, prefixVars, clientVars, requestVars
<1>2. CASE AddRequest BY <1>1, <1>2 DEF AddRequest
<1>3. CASE NotifyStart BY <1>1, <1>3 DEF NotifyStart
<1>4. CASE ProcessRequest BY <1>0, <1>1, <1>4 DEF ProcessRequest, PrefixKnown
<1>5. CASE RemoveRequest BY <1>1, <1>5 DEF RemoveRequest
<1>6. CASE DaemonExits BY <1>1, <1>6 DEF DaemonExits
<1>7. CASE UrlWithoutPrefix BY <1>0, <1>1, <1>7 DEF UrlWithoutPrefix
<1> QED BY <1>2, <1>3, <1>4, <1>5, <1>6, <1>7 DEF DaemonStep

LEMMA StepRoutes == TypeOK /\ Routes /\ Threads /\ [Next]_vars => Routes'
<1> SUFFICES ASSUME TypeOK, Routes, Threads, [Next]_vars PROVE Routes'
  OBVIOUS
<1>1. CASE Worker BY <1>1, WorkerRoutes
<1>2. CASE Session \/ (Alive /\ Destroy) BY <1>2, SessionRoutes
<1>3. CASE AskPrefixForUrl BY <1>3, PrefixRoutes DEF AskPrefixForUrl
<1>4. CASE DaemonStep BY <1>4, DaemonStepRoutes
<1>5. CASE \E c \in Conn : RequestStep(c) BY <1>5, RequestStepRoutes
<1>6. CASE UNCHANGED vars
  BY <1>6 DEF vars, threadVars, daemonVars, prefixVars, clientVars, requestVars, Routes, AddressHasRoute, UploadReady
<1> QED BY <1>1, <1>2, <1>3, <1>4, <1>5, <1>6, Kinds

\* The published address has a route unless an upload was ready before it was
\* known, for any connections and however often the daemon fails to start.
THEOREM PublishedAddressHasRoute == Spec => []AddressHasRoute
<1>1. Init => Threads
  BY DEF Init, Threads
<1>2. Routes => AddressHasRoute
  BY DEF Routes
<1> QED BY <1>1, <1>2, InitRoutes, StepRoutes, StepThreads, TypeCorrect, PTL DEF Spec

\* what a connection looks like whose request the controller checks
Checked(c) ==
  /\ subscribed
  /\ request[c].valid \/ (conn[c] \in {"none", "refused", "closed"} /\ store[c] = NotStored)

LEMMA StepChecked ==
  ASSUME NEW c \in Conn, TypeOK, RequestInv, Checked(c), [Next]_vars
  PROVE  Checked(c)'
<1>1. request \in [Conn -> RequestKind] /\ conn \in [Conn -> ConnAt] /\ store \in [Conn -> 0..NotStored] /\ current \in Conn
  BY DEF TypeOK
<1> USE DEF Checked, threadVars, daemonVars, prefixVars, clientVars, requestVars
<1>2. CASE Worker \/ Session \/ (Alive /\ Destroy) \/ AskPrefixForUrl
  <2>1. UNCHANGED <<conn, request, store>>
    BY <1>2, ElsewhereSteps DEF Elsewhere, DaemonStopped
  <2>2. subscribed'
    BY <1>2 DEF Worker, WorkerEnds, StartLocks, DaemonStarts, DaemonFails, StartUnlocks, AbortSelf, JoinableSelf,
       Session, AskPrefix, AskPrefixForUrl, PrefixStep, PrefixWaits, PrefixBound, PrefixRouted, PrefixNamed, PrefixFails,
       Destroy, AssignWorker, Publish, SubscribePush, JoinWorker, StopDaemon, DaemonStopped
  <2> QED BY <2>1, <2>2
<1>3. CASE DaemonStep
  <2>1. CASE AddRequest BY <2>1 DEF AddRequest
  <2>2. CASE NotifyStart BY <1>1, <2>2 DEF NotifyStart
  <2>3. CASE ProcessRequest BY <1>1, <2>3 DEF ProcessRequest, RequestInv, Requests
  <2>4. CASE RemoveRequest BY <1>1, <2>4 DEF RemoveRequest
  <2>5. CASE DaemonExits \/ UrlWithoutPrefix BY <2>5 DEF DaemonExits, UrlWithoutPrefix
  <2> QED BY <1>3, <2>1, <2>2, <2>3, <2>4, <2>5 DEF DaemonStep
<1>4. ASSUME NEW d \in Conn, RequestStep(d) PROVE Checked(c)'
  <2>1. CASE \E r \in MayAsk[d] : FirstCall(d, r)
    BY <1>1, <2>1 DEF FirstCall, IsNew, RequestInv, Requests
  <2>2. CASE RejectMethod(d) BY <1>1, <2>2 DEF RejectMethod
  <2>3. CASE FirstCallThrows(d) \/ ReceiveBlock(d) \/ RequestHandler(d) \/ CompleteRequest(d) \/ SendBlock(d) \/ EndUpload(d)
    BY <2>3 DEF FirstCallThrows, IsNew, ReceiveBlock, RequestHandler, CompleteRequest, SendBlock, EndUpload
  <2> QED BY <1>4, <2>1, <2>2, <2>3 DEF RequestStep
<1>5. CASE UNCHANGED vars BY <1>5 DEF vars
<1> QED BY <1>2, <1>3, <1>4, <1>5, Kinds

\* Any request that starts after the controller has subscribed is checked before
\* its upload is stored, however the subscription and the other connections interleave.
THEOREM ChecksAfterSubscription == Spec => CheckedOnceSubscribed
<1>1. ASSUME NEW c \in Conn
      PROVE  Spec => [](subscribed /\ conn[c] = "none" => [](store[c] # NotStored => request[c].valid))
  <2>1. TypeOK /\ RequestInv /\ Checked(c) /\ [Next]_vars => Checked(c)'
    BY StepChecked
  <2>2. RequestInv /\ subscribed /\ conn[c] = "none" => Checked(c)
    BY DEF RequestInv, Requests, Checked
  <2>3. Checked(c) => (store[c] # NotStored => request[c].valid)
    BY DEF Checked
  <2> QED BY <2>1, <2>2, <2>3, TypeCorrect, AlwaysRequests, PTL DEF Spec
<1> QED BY <1>1 DEF CheckedOnceSubscribed

\* Once m_workerThread is assigned, a worker that has not reached abort() never
\* joins itself.
THEOREM NeverJoinsItself == Spec => JoinsOthersOnly
<1> DEFINE Safe == handle /\ worker \notin {"joinable", "crashed"}
<1>1. Safe /\ [Next]_vars => Safe'
  <2> SUFFICES ASSUME Safe, [Next]_vars PROVE Safe'
    OBVIOUS
  <2> USE DEF threadVars
  <2>1. CASE Worker
    BY <2>1 DEF Worker, WorkerEnds, StartLocks, DaemonStarts, DaemonFails, StartUnlocks, AbortSelf, JoinableSelf
  <2>2. ASSUME NEW t, PrefixStep(t) PROVE Safe'
    BY <2>2 DEF PrefixStep, PrefixWaits, PrefixBound, PrefixRouted, PrefixNamed, PrefixFails
  <2>3. CASE Session \/ (Alive /\ Destroy)
    BY <2>2, <2>3 DEF Session, Destroy, AssignWorker, AskPrefix, Publish, SubscribePush, JoinWorker, StopDaemon, DaemonStopped
  <2>4. CASE AskPrefixForUrl
    BY <2>2, <2>4 DEF AskPrefixForUrl
  <2>5. CASE DaemonStep
    BY <2>5 DEF DaemonStep, AddRequest, NotifyStart, UrlWithoutPrefix, ProcessRequest, RemoveRequest, DaemonExits
  <2>6. CASE \E c \in Conn : RequestStep(c)
    BY <2>6 DEF RequestStep, FirstCall, FirstCallThrows, IsNew, ReceiveBlock, RejectMethod, RequestHandler, CompleteRequest, SendBlock, EndUpload
  <2>7. CASE UNCHANGED vars
    BY <2>7 DEF vars
  <2> QED BY <2>1, <2>3, <2>4, <2>5, <2>6, <2>7, Kinds
<1>2. Safe => worker # "crashed"
  OBVIOUS
<1> QED BY <1>1, <1>2, PTL DEF Spec, JoinsOthersOnly
=============================================================================
