------------------------- MODULE PushObjectIngester -------------------------
(***************************************************************************)
(* The PushObjectIngester: an HTTP daemon that accepts uploads and stores  *)
(* them (PushObjectIngester.cc/.hh, ObjectIngester.cc/.hh).                *)
(*                                                                         *)
(* Three threads share it.  The session's thread constructs it, publishes  *)
(* the daemon's address, subscribes the controller and at last destroys    *)
(* it.  The worker starts the daemon and ends.  The daemon's own thread    *)
(* runs the callbacks handle_request() and request_completion_callback(),  *)
(* one at a time.  m_mtx guards the daemon's pointer and the list of       *)
(* active requests.  libmicrohttpd is external: its thread ends connections*)
(* when it is told to shut down, before MHD_stop_daemon() returns.         *)
(***************************************************************************)
EXTENDS Naturals

CONSTANTS
  MaxConn,    \* bound: connections, one request on each
  MayAsk,     \* what each request can be, see RequestAssumption
  MaxBlocks   \* bound: blocks of one upload

ASSUME ConnAssumption == MaxConn \in Nat \ {0}
\* whether validate_push_url() accepts its URL, and whether its method is PUSH,
\* PUT or POST
RequestKind == [valid : BOOLEAN, allowed : BOOLEAN]
ASSUME RequestAssumption == MayAsk \in [1..MaxConn -> SUBSET RequestKind]
ASSUME BlocksAssumption == MaxBlocks \in Nat

VARIABLES
  session,    \* where the session's thread is
  worker,     \* where the worker is
  http,       \* where the daemon's thread is
  current,    \* the upload of the callback in progress
  handle,     \* m_workerThread has been assigned
  cancel,     \* m_workerCancel
  mtx,        \* who holds m_mtx
  listening,  \* the daemon accepts connections
  daemon,     \* m_mhdDaemon is set
  sockaddr,   \* m_sockaddr: the wildcard address or one with a route
  urlPrefix,  \* m_urlPrefix, by the address it was made from
  asking,     \* where each thread is in getIngestServerPrefix()
  baseUrl,    \* the session's objectIngestBaseUrl, likewise
  subscribed, \* the controller is subscribed to ObjectPushStart
  conn,       \* the state of each connection
  request,    \* its request, from the first call on
  upload,     \* blocks each client has sent
  ended,      \* clients that have sent everything
  body,       \* blocks in each request's m_bodyBlocks
  status,     \* each request's m_statusCode
  active,     \* m_activeRequests
  store       \* blocks of each stored object

threadVars == <<session, worker, http, current, handle, cancel, mtx>>
daemonVars == <<listening, daemon, subscribed>>
prefixVars == <<sockaddr, urlPrefix, asking, baseUrl>>
clientVars == <<upload, ended>>
requestVars == <<conn, request, body, status, active, store>>
vars == <<threadVars, daemonVars, prefixVars, clientVars, requestVars>>

\* connections are numbered as handle_request() first hears of them
Conn == 1..MaxConn
NoUpload == 1  \* the value of current between callbacks
NotStored == MaxBlocks + 1
Address == {"none", "any", "local"}

SessionAt == {"construct", "prefix", "subscribe", "serving",
              "join", "lock", "close", "stopped"}
WorkerAt == {"loop", "starting", "assign", "abort", "joinable", "crashed", "ended"}
HttpAt == {"select", "add", "notify", "prefix", "metadata", "remove", "exited", "crashed"}
AskingAt == {"out", "waited", "bound", "routed", "failed"}
ConnAt == {"none", "open", "refused", "answered", "closed"}

Init ==
  /\ session = "construct" /\ worker = "loop" /\ http = "select"
  /\ current = NoUpload
  /\ handle = FALSE /\ cancel = FALSE /\ mtx = "nobody"
  /\ listening = FALSE /\ daemon = FALSE /\ subscribed = FALSE
  /\ sockaddr = "none" /\ urlPrefix = "none" /\ baseUrl = "none"
  /\ asking = [t \in {"session", "http"} |-> "out"]
  /\ conn = [c \in Conn |-> "none"]
  /\ request = [c \in Conn |-> [valid |-> FALSE, allowed |-> FALSE]]
  /\ upload = [c \in Conn |-> 0] /\ ended = {}
  /\ body = [c \in Conn |-> 0]
  /\ status = [c \in Conn |-> 0]
  /\ active = {}
  /\ store = [c \in Conn |-> NotStored]

\* a worker that joins itself, and an exception that leaves the daemon's callback, end
\* in std::terminate()
Alive == worker # "crashed" /\ http # "crashed"

-----------------------------------------------------------------------------
(* The worker: doObjectIngest() until m_workerCancel *)

\* the loop ends when it has been cancelled
WorkerEnds ==
  /\ worker = "loop" /\ cancel
  /\ worker' = "ended"
  /\ UNCHANGED <<session, http, current, handle, cancel, mtx, daemonVars, prefixVars, clientVars, requestVars>>

\* start(): the wildcard address, and the mutex
StartLocks ==
  /\ worker = "loop" /\ ~cancel /\ ~daemon
  /\ mtx = "nobody"
  /\ mtx' = "worker"
  /\ sockaddr' = "any"
  /\ worker' = "starting"
  /\ UNCHANGED <<session, http, current, handle, cancel, daemonVars, urlPrefix, asking, baseUrl, clientVars, requestVars>>

\* MHD_start_daemon() succeeds; connections are accepted from here on
DaemonStarts ==
  /\ worker = "starting"
  /\ listening' = TRUE
  /\ worker' = "assign"
  /\ UNCHANGED <<session, http, current, handle, cancel, mtx, daemon, subscribed, prefixVars, clientVars, requestVars>>

\* faulty: a failure is taken for a start
DaemonFailsOnce ==
  /\ worker = "starting"
  /\ mtx' = "nobody"
  /\ worker' = "abort"
  /\ UNCHANGED <<session, http, current, handle, cancel, daemonVars, prefixVars, clientVars, requestVars>>

\* it fails; workerLoop() tries again
DaemonFails ==
  /\ worker = "starting"
  /\ mtx' = "nobody"
  /\ worker' = "loop"
  /\ UNCHANGED <<session, http, current, handle, cancel, daemonVars, prefixVars, clientVars, requestVars>>

\* m_mhdDaemon is assigned, the waiters are notified, the mutex is released
StartUnlocks ==
  /\ worker = "assign"
  /\ daemon' = TRUE
  /\ mtx' = "nobody"
  /\ worker' = "abort"
  /\ UNCHANGED <<session, http, current, handle, cancel, listening, subscribed, prefixVars, clientVars, requestVars>>

\* abort() in the worker itself: m_workerThread names it if it is assigned yet
AbortSelf ==
  /\ worker = "abort"
  /\ cancel' = TRUE
  /\ worker' = IF handle THEN "loop" ELSE "joinable"
  /\ UNCHANGED <<session, http, current, handle, mtx, daemonVars, prefixVars, clientVars, requestVars>>

\* m_workerThread named no thread when it was compared; joinable() reads it again
JoinableSelf ==
  /\ worker = "joinable"
  /\ worker' = IF handle THEN "crashed" ELSE "loop"
  /\ UNCHANGED <<session, http, current, handle, cancel, mtx, daemonVars, prefixVars, clientVars, requestVars>>

-----------------------------------------------------------------------------
(* getIngestServerPrefix(), in thread t.  Nothing guards m_sockaddr and    *)
(* m_urlPrefix; each access is taken to be atomic.  The family is AF_INET  *)
(* throughout: start() binds to no other.                                  *)

\* faulty: the daemon is not waited for
PrefixDoesNotWait(t) ==
  /\ asking[t] = "out" /\ urlPrefix = "none"
  /\ asking' = [asking EXCEPT ![t] = "waited"]
  /\ UNCHANGED <<threadVars, daemonVars, sockaddr, urlPrefix, baseUrl, clientVars, requestVars>>

\* the prefix is not known yet: wait for m_mhdDaemon under the mutex
PrefixWaits(t) ==
  /\ asking[t] = "out" /\ urlPrefix = "none"
  /\ mtx = "nobody" /\ daemon
  /\ asking' = [asking EXCEPT ![t] = "waited"]
  /\ UNCHANGED <<threadVars, daemonVars, sockaddr, urlPrefix, baseUrl, clientVars, requestVars>>

\* getsockname(): the daemon is bound to the wildcard address
PrefixBound(t) ==
  /\ asking[t] = "waited"
  /\ sockaddr' = "any"
  /\ asking' = [asking EXCEPT ![t] = "bound"]
  /\ UNCHANGED <<threadVars, daemonVars, urlPrefix, baseUrl, clientVars, requestVars>>

\* the address of the default route in its place
PrefixRouted(t) ==
  /\ asking[t] = "bound"
  /\ sockaddr' = "local"
  /\ asking' = [asking EXCEPT ![t] = "routed"]
  /\ UNCHANGED <<threadVars, daemonVars, urlPrefix, baseUrl, clientVars, requestVars>>

\* getnameinfo() of what m_sockaddr holds now
PrefixNamed(t) ==
  /\ asking[t] = "routed"
  /\ urlPrefix' = sockaddr
  /\ asking' = [asking EXCEPT ![t] = "out"]
  /\ UNCHANGED <<threadVars, daemonVars, sockaddr, baseUrl, clientVars, requestVars>>

\* libmicrohttpd does not say which socket it listens on, getsockname() fails, or
\* getnameinfo() does, and what m_domain then holds is what another thread has made
\* m_urlPrefix from: the call returns and leaves the prefix as it is
PrefixFails(t) ==
  /\ asking[t] \in {"waited", "routed"}
  /\ asking' = [asking EXCEPT ![t] = "failed"]
  /\ UNCHANGED <<threadVars, daemonVars, sockaddr, urlPrefix, baseUrl, clientVars, requestVars>>

PrefixStep(t) ==
  PrefixWaits(t) \/ PrefixBound(t) \/ PrefixRouted(t) \/ PrefixNamed(t) \/ PrefixFails(t)

\* it returns a prefix
PrefixKnown(t) == asking[t] = "out" /\ urlPrefix # "none"

-----------------------------------------------------------------------------
(* The session's thread *)

\* startWorker(): the new thread runs before m_workerThread is assigned
AssignWorker ==
  /\ session = "construct"
  /\ handle' = TRUE
  /\ session' = "prefix"
  /\ UNCHANGED <<worker, http, current, cancel, mtx, daemonVars, prefixVars, clientVars, requestVars>>

\* the controller asks for the prefix
AskPrefix == session = "prefix" /\ PrefixStep("session")

\* it returns, this once, a reference to m_urlPrefix, which setObjectIngestBaseUrl()
\* copies: an empty string, too
Publish ==
  /\ session = "prefix" /\ (PrefixKnown("session") \/ asking["session"] = "failed")
  /\ baseUrl' = urlPrefix
  /\ session' = "subscribe"
  /\ UNCHANGED <<worker, http, current, handle, cancel, mtx, daemonVars, sockaddr, urlPrefix, asking, clientVars, requestVars>>

\* subscribeTo({"ObjectPushStart"}, *pushIngester)
SubscribePush ==
  /\ session = "subscribe"
  /\ subscribed' = TRUE
  /\ session' = "serving"
  /\ UNCHANGED <<worker, http, current, handle, cancel, mtx, listening, daemon, prefixVars, clientVars, requestVars>>

\* ~PushObjectIngester(): abort()
Destroy ==
  /\ session = "serving"
  /\ cancel' = TRUE
  /\ session' = "join"
  /\ UNCHANGED <<worker, http, current, handle, mtx, daemonVars, prefixVars, clientVars, requestVars>>

JoinWorker ==
  /\ session = "join" /\ worker = "ended"
  /\ session' = "lock"
  /\ UNCHANGED <<worker, http, current, handle, cancel, mtx, daemonVars, prefixVars, clientVars, requestVars>>

\* stop(): the mutex, then MHD_stop_daemon()
StopDaemon ==
  /\ session = "lock" /\ mtx = "nobody"
  /\ mtx' = "session"
  /\ listening' = FALSE
  /\ session' = "close"
  /\ UNCHANGED <<worker, http, current, handle, cancel, daemon, subscribed, prefixVars, clientVars, requestVars>>

\* faulty: the daemon's thread is not waited for
DaemonLeft ==
  /\ session = "close"
  /\ active' = {}
  /\ daemon' = FALSE
  /\ mtx' = "nobody"
  /\ session' = "stopped"
  /\ UNCHANGED <<worker, http, current, handle, cancel, listening, subscribed, prefixVars, clientVars, conn, request, body, status, store>>

\* MHD_stop_daemon() has joined the daemon's thread and returns
DaemonStopped ==
  /\ session = "close" /\ http = "exited"
  /\ active' = {}
  /\ daemon' = FALSE
  /\ mtx' = "nobody"
  /\ session' = "stopped"
  /\ UNCHANGED <<worker, http, current, handle, cancel, listening, subscribed, prefixVars, clientVars, conn, request, body, status, store>>

-----------------------------------------------------------------------------
(* The daemon's thread *)

\* handle_request() is called for a new request
IsNew(c) ==
  /\ http = "select" /\ listening
  /\ conn[c] = "none" /\ (c > 1 => conn[c - 1] # "none")

\* handle_request(), first call for a request: a Request, and addRequest()
FirstCall(c, r) ==
  /\ IsNew(c)
  /\ request' = [request EXCEPT ![c] = r]
  /\ current' = c
  /\ http' = "add"
  /\ UNCHANGED <<session, worker, handle, cancel, mtx, daemonVars, prefixVars, clientVars, conn, body, status, active, store>>

\* the first call for a request whose Cache-Control or Age std::stoul() cannot read
FirstCallThrows(c) ==
  /\ IsNew(c)
  /\ http' = "crashed"
  /\ UNCHANGED <<session, worker, current, handle, cancel, mtx, daemonVars, prefixVars, clientVars, requestVars>>

\* addRequest() up to the end of its block
AddRequest ==
  /\ http = "add" /\ mtx = "nobody"
  /\ active' = active \cup {current}
  /\ http' = "notify"
  /\ UNCHANGED <<session, worker, current, handle, cancel, mtx, daemonVars, prefixVars, clientVars, conn, request, body, status, store>>

\* faulty: what addRequest() returns is ignored
NotifyOnly ==
  /\ http = "notify"
  /\ conn' = [conn EXCEPT ![current] = "open"]
  /\ http' = "select"
  /\ current' = NoUpload
  /\ UNCHANGED <<session, worker, handle, cancel, mtx, daemonVars, prefixVars, clientVars, request, body, status, active, store>>

\* the event ObjectPushStart: a subscribed controller refuses wrong URLs, and
\* handle_request() returns MHD_NO
NotifyStart ==
  LET refused == subscribed /\ ~request[current].valid
  IN /\ http = "notify"
     /\ conn' = [conn EXCEPT ![current] = IF refused THEN "refused" ELSE "open"]
     /\ status' = [status EXCEPT ![current] = IF refused THEN 400 ELSE 0]
     /\ http' = "select"
     /\ current' = NoUpload
     /\ UNCHANGED <<session, worker, handle, cancel, mtx, daemonVars, prefixVars, clientVars, request, body, active, store>>

\* further calls with upload_data: addBodyBlock() and an asynchronous event
\* that nobody subscribes to
ReceiveBlock(c) ==
  /\ http = "select" /\ conn[c] = "open"
  /\ body[c] < upload[c]
  /\ body' = [body EXCEPT ![c] = @ + 1]
  /\ UNCHANGED <<threadVars, daemonVars, prefixVars, clientVars, conn, request, status, active, store>>

\* faulty: no response is queued
RejectSilently(c) ==
  /\ http = "select" /\ conn[c] = "open"
  /\ c \in ended /\ body[c] = upload[c]
  /\ ~request[c].allowed
  /\ status' = [status EXCEPT ![c] = 405]
  /\ UNCHANGED <<threadVars, daemonVars, prefixVars, clientVars, conn, request, body, active, store>>

\* faulty: the object is stored all the same
RejectAndStore(c) ==
  /\ http = "select" /\ conn[c] = "open"
  /\ c \in ended /\ body[c] = upload[c]
  /\ ~request[c].allowed
  /\ store' = [store EXCEPT ![c] = body[c]]
  /\ status' = [status EXCEPT ![c] = 405]
  /\ conn' = [conn EXCEPT ![c] = "answered"]
  /\ UNCHANGED <<threadVars, daemonVars, prefixVars, clientVars, request, body, active>>

\* last call: requestHandler(), another method
RejectMethod(c) ==
  /\ http = "select" /\ conn[c] = "open"
  /\ c \in ended /\ body[c] = upload[c]
  /\ ~request[c].allowed
  /\ status' = [status EXCEPT ![c] = 405]
  /\ conn' = [conn EXCEPT ![c] = "answered"]
  /\ UNCHANGED <<threadVars, daemonVars, prefixVars, clientVars, request, body, active, store>>

\* last call: requestHandler(), up to getIngestServerPrefix() in processRequest()
RequestHandler(c) ==
  /\ http = "select" /\ conn[c] = "open"
  /\ c \in ended /\ body[c] = upload[c]
  /\ request[c].allowed
  /\ current' = c
  /\ http' = "prefix"
  /\ UNCHANGED <<session, worker, handle, cancel, mtx, daemonVars, prefixVars, clientVars, requestVars>>

\* processRequest() asks for the URL and again for the metadata, at once if the first
\* call found the prefix
AskPrefixForUrl == http \in {"prefix", "metadata"} /\ PrefixStep("http")

UrlWithoutPrefix ==
  /\ http = "prefix" /\ asking["http"] = "failed"
  /\ asking' = [asking EXCEPT !["http"] = "out"]
  /\ http' = "metadata"
  /\ UNCHANGED <<session, worker, current, handle, cancel, mtx, daemonVars, sockaddr, urlPrefix, baseUrl, clientVars, requestVars>>

\* the rest of processRequest(), and the reply
ProcessRequest ==
  /\ \/ http \in {"prefix", "metadata"} /\ PrefixKnown("http")
     \/ http = "metadata" /\ asking["http"] = "failed"
  /\ asking' = [asking EXCEPT !["http"] = "out"]
  /\ store' = [store EXCEPT ![current] = body[current]]
  /\ status' = [status EXCEPT ![current] = 200]
  /\ conn' = [conn EXCEPT ![current] = "answered"]
  /\ http' = "select"
  /\ current' = NoUpload
  /\ UNCHANGED <<session, worker, handle, cancel, mtx, daemonVars, sockaddr, urlPrefix, baseUrl, clientVars, request, body, active>>

\* request_completion_callback(): the reply is out, the connection was refused,
\* the client has gone, or the daemon is shutting down
CompleteRequest(c) ==
  /\ http = "select"
  /\ conn[c] \in {"open", "refused", "answered"}
  /\ current' = c
  /\ http' = "remove"
  /\ UNCHANGED <<session, worker, handle, cancel, mtx, daemonVars, prefixVars, clientVars, requestVars>>

\* faulty: a request that breaks off is processed
RemoveAndProcess ==
  /\ http = "remove" /\ mtx = "nobody"
  /\ active' = active \ {current}
  /\ store' = [store EXCEPT ![current] = body[current]]
  /\ status' = [status EXCEPT ![current] = 200]
  /\ conn' = [conn EXCEPT ![current] = "closed"]
  /\ http' = "select"
  /\ current' = NoUpload
  /\ UNCHANGED <<session, worker, handle, cancel, mtx, daemonVars, prefixVars, clientVars, request, body>>

\* faulty: the request is not found in the list
RemoveNothing ==
  /\ http = "remove" /\ mtx = "nobody"
  /\ conn' = [conn EXCEPT ![current] = "closed"]
  /\ http' = "select"
  /\ current' = NoUpload
  /\ UNCHANGED <<session, worker, handle, cancel, mtx, daemonVars, prefixVars, clientVars, request, body, status, active, store>>

\* removeRequest(), and the Request is deleted with its blocks
RemoveRequest ==
  /\ http = "remove" /\ mtx = "nobody"
  /\ active' = active \ {current}
  /\ conn' = [conn EXCEPT ![current] = "closed"]
  /\ body' = [body EXCEPT ![current] = 0]
  /\ http' = "select"
  /\ current' = NoUpload
  /\ UNCHANGED <<session, worker, handle, cancel, mtx, daemonVars, prefixVars, clientVars, request, status, store>>

\* told to shut down, with no connection left
DaemonExits ==
  /\ http = "select" /\ session = "close"
  /\ \A c \in Conn : conn[c] \in {"none", "closed"}
  /\ http' = "exited"
  /\ UNCHANGED <<session, worker, current, handle, cancel, mtx, daemonVars, prefixVars, clientVars, requestVars>>

-----------------------------------------------------------------------------
(* Clients *)

SendBlock(c) ==
  /\ conn[c] = "open" /\ c \notin ended
  /\ upload[c] < MaxBlocks
  /\ upload' = [upload EXCEPT ![c] = @ + 1]
  /\ UNCHANGED <<threadVars, daemonVars, prefixVars, ended, requestVars>>

EndUpload(c) ==
  /\ conn[c] = "open" /\ c \notin ended
  /\ ended' = ended \cup {c}
  /\ UNCHANGED <<threadVars, daemonVars, prefixVars, upload, requestVars>>

-----------------------------------------------------------------------------
Worker ==
  Alive /\ (\/ WorkerEnds \/ StartLocks \/ DaemonStarts \/ DaemonFails
            \/ StartUnlocks \/ AbortSelf \/ JoinableSelf)

Session ==
  Alive /\ (\/ AssignWorker \/ AskPrefix \/ Publish
            \/ SubscribePush \/ JoinWorker \/ StopDaemon \/ DaemonStopped)

\* what the daemon's thread does of its own accord
Http ==
  Alive /\ (\/ AddRequest \/ NotifyStart \/ AskPrefixForUrl \/ UrlWithoutPrefix \/ ProcessRequest
            \/ RemoveRequest \/ DaemonExits
            \/ \E c \in Conn : \/ ReceiveBlock(c)
                               \/ RejectMethod(c)
                               \/ RequestHandler(c)
                               \/ conn[c] # "open" /\ CompleteRequest(c)
                               \/ session = "close" /\ CompleteRequest(c))

\* connections come and go; the session ends
Environment ==
  Alive /\ (\/ Destroy
            \/ \E c \in Conn : \/ \E r \in MayAsk[c] : FirstCall(c, r)
                               \/ FirstCallThrows(c)
                               \/ CompleteRequest(c) \/ SendBlock(c) \/ EndUpload(c))

Next == Worker \/ Session \/ Http \/ Environment

\* threads run when they can, and some attempt to start the daemon succeeds
Fairness ==
  /\ WF_vars(Worker) /\ SF_vars(Alive /\ DaemonStarts)
  /\ WF_vars(Session)
  /\ WF_vars(Http)

Spec == Init /\ [][Next]_vars /\ Fairness

-----------------------------------------------------------------------------
(* Properties *)

\* The variables have the types their declarations in PushObjectIngester.hh say.
TypeOK ==
  /\ session \in SessionAt /\ worker \in WorkerAt /\ http \in HttpAt
  /\ current \in Conn
  /\ handle \in BOOLEAN /\ cancel \in BOOLEAN
  /\ mtx \in {"nobody", "session", "worker"}
  /\ listening \in BOOLEAN /\ daemon \in BOOLEAN /\ subscribed \in BOOLEAN
  /\ sockaddr \in Address /\ urlPrefix \in Address /\ baseUrl \in Address
  /\ asking \in [{"session", "http"} -> AskingAt]
  /\ conn \in [Conn -> ConnAt]
  /\ request \in [Conn -> RequestKind]
  /\ upload \in [Conn -> 0..MaxBlocks] /\ ended \subseteq Conn
  /\ body \in [Conn -> 0..MaxBlocks]
  /\ status \in [Conn -> {0, 200, 400, 405}]
  /\ active \subseteq Conn
  /\ store \in [Conn -> 0..NotStored]

\* What is stored is a whole upload: its client sent everything, and the body
\* that processRequest() put together has every block.  An upload that breaks
\* off, or that the daemon ends, leaves nothing behind.
WholeUploadsStored ==
  \A c \in Conn : store[c] # NotStored => c \in ended /\ store[c] = upload[c]

\* The reply says what happened: 200 if and only if the object is in the store,
\* so no refused and no rejected upload is.
ReplyIsTrue ==
  \A c \in Conn : status[c] = 200 <=> store[c] # NotStored

\* An upload is stored whole or not at all, and the client is told which, whenever
\* clients leave or the daemon closes their connections
\* (PushObjectIngester.cc processRequest(), handle_request()).
AllOrNothing == WholeUploadsStored /\ ReplyIsTrue

\* m_activeRequests names the connections in progress: a request is in the
\* list from its first call, while it is accepted, refused or answered, until its
\* completion callback has removed it.
ActiveRequestsAgree ==
  \A c \in Conn :
    c \in active <=> \/ conn[c] \in {"open", "refused", "answered"}
                     \/ http = "notify" /\ current = c

\* When stop() returns, no thread is left that could use the ingester, and no
\* request of its connections refers to it.
QuietWhenStopped ==
  session = "stopped" =>
    /\ worker = "ended" /\ http = "exited" /\ mtx = "nobody"
    /\ \A c \in Conn : conn[c] \in {"none", "closed"}

\* an upload that handle_request() could process has arrived completely
UploadReady == \E c \in ended : request[c].allowed

\* The daemon is bound to the wildcard address, which clients cannot use.  The session
\* publishes it, instead of the address of the default route, only if a request got to
\* getIngestServerPrefix() before (PushObjectIngester.cc:308-360, :425): neither
\* a worker that starts late, nor one that starts again, spoils m_sockaddr.
AddressHasRoute == urlPrefix = "any" \/ baseUrl = "any" => UploadReady

\* From the controller's subscription on, no request that starts with a wrong URL gets
\* its upload into the store: those that do started before
\* (ObjectManifestController.cc:98, PushObjectIngester.cc:260-274).
CheckedOnceSubscribed ==
  \A c \in Conn :
    [](subscribed /\ conn[c] = "none" => [](store[c] # NotStored => request[c].valid))

\* The worker never joins itself if m_workerThread was assigned before its
\* abort() (ObjectIngester.hh:32-38).
JoinsOthersOnly ==
  [](handle /\ worker \notin {"joinable", "crashed"} => [](worker # "crashed"))

\* getIngestServerPrefix() "waits for microhttpd to start up" and returns, however often
\* the daemon fails to start first: the session is constructed, with an address
\* unless the system could not tell it one (PushObjectIngester.cc:308-394).
AddressPublished ==
  <>(\/ session = "serving" /\ (baseUrl # "none" \/ asking["session"] = "failed")
     \/ ~Alive)

\* A client that has sent everything is answered, or the session ends, or the
\* client went away.
UploadAnswered ==
  \A c \in Conn :
    (c \in ended /\ conn[c] = "open") ~> (conn[c] # "open" \/ session = "close" \/ ~Alive)

\* "Then stop the HTTP daemon": the destructor ends.
DestructorEnds == session = "join" ~> (session = "stopped" \/ ~Alive)

=============================================================================
