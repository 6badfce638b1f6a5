------------------------ MODULE DistributionSession ------------------------
(***************************************************************************)
(* What the program does with a request to the distribution session API    *)
(* (DistributionSession.cc), with the registry and the reported load       *)
(* (Context.cc), the choice of a controller (ControllerFactory.cc and the  *)
(* constructors of the controllers) and the bit rates (BitRate.cc).        *)
(*                                                                         *)
(* All of it runs on the event thread, module App.  Open5GS's HTTP server, *)
(* its messages and the generated API classes are external: a request has  *)
(* the parts of its path and a body that is a session, is no JSON or is    *)
(* refused by the classes.                                                 *)
(***************************************************************************)
EXTENDS Naturals, Sequences, FiniteSets, FiniteSetsExt

CONSTANTS
  None,          \* an optional value that is absent
  Id,            \* identifiers of distribution sessions
  DistSession,   \* the sessions that clients describe
  NotJSON,       \* a body that CJson::parse() refuses
  NotASession,   \* JSON that the constructor of DistributionSession refuses
  Request        \* the requests that clients make

NoPart == ""     \* a path that ends before

BitRateText == [number : {None} \cup Nat, junk : BOOLEAN, unit : {None} \cup STRING]

ASSUME SessionAssumption ==
  \A s \in DistSession :
    /\ s.id \in Id
    /\ s.mode \in STRING            \* "" without objDistributionData
    /\ s.method \in STRING          \* "" without objDistributionData
    /\ s.pullIds \in {None} \cup Nat
    /\ s.pushId \in BOOLEAN
    /\ s.mbr \in {None} \cup BitRateText
    /\ s.active \in BOOLEAN
ASSUME RequestAssumption ==
  \A q \in Request :
    /\ q.service \in STRING         \* "" if the header cannot be parsed
    /\ q.v1 \in BOOLEAN             \* the version of the API
    /\ {q.resource, q.sub, q.method} \subseteq STRING
    /\ q.ref \in Id \cup {NoPart}
    /\ q.json \in BOOLEAN           \* the content type
    /\ q.body \in DistSession \cup {NotJSON, NotASession}

VARIABLES
  sessions,  \* Context::distributionSessions
  load       \* nf_instance->load, in Mbps

registryVars == <<sessions, load>>

-----------------------------------------------------------------------------
(* BitRate *)

Unit == {"Tbps", "Gbps", "Mbps", "Kbps", "bps", ""}
Multiplier(unit) ==
  CASE unit = "Tbps" -> 10^12
    [] unit = "Gbps" -> 10^9
    [] unit = "Mbps" -> 10^6
    [] unit = "Kbps" -> 10^3
    [] OTHER -> 1

\* operator=(const std::string&) does not throw.  Only with a unit has the number
\* to end where the unit begins.
Readable(text) ==
  /\ text.number # None
  /\ text.unit # None => text.unit \in Unit /\ ~text.junk

Parse(text) == text.number * (IF text.unit = None THEN 1 ELSE Multiplier(text.unit))

-----------------------------------------------------------------------------
(* The controllers' constructors: "made", or the kind of exception *)

\* faulty: the rate is not looked at
RateIgnored(s) == "made"

\* getRateLimit(): getMbr() throws an invalid_argument or out_of_range outside
\* the try block that would turn it into a runtime_error
PackagerMade(s) ==
  IF s.mbr # None => Readable(s.mbr) THEN "made" ELSE "logic_error"

ObjectListController(s) ==
  IF s.mode # "SINGLE" THEN "logic_error"
  ELSE IF s.method = "PUSH" /\ s.pushId THEN "runtime_error"
  ELSE PackagerMade(s)

\* the acquisition method is validated before the operating mode
ObjectStreamingController(s) ==
  IF \/ s.method = "PULL" /\ (s.pullIds \notin {None, 1} \/ s.pushId)
     \/ s.method = "PUSH" /\ s.pullIds # None
  THEN "runtime_error"
  ELSE IF s.mode # "STREAMING" THEN "logic_error"
  ELSE PackagerMade(s)

\* in the order of their priorities, 100 and 50
Constructors(s) == <<ObjectListController(s), ObjectStreamingController(s)>>

\* faulty: only the first constructor is tried
FirstConstructorOnly(s) ==
  IF Constructors(s)[1] = "logic_error" THEN "none" ELSE Constructors(s)[1]

\* A runtime_error ends the search, any other exception means the next constructor.
makeController(s) ==
  LET decided == {k \in 1..2 : Constructors(s)[k] # "logic_error"}
  IN IF decided = {} THEN "none" ELSE Constructors(s)[Min(decided)]

\* initObjectIngester() gives a session something to fetch or to receive with.
HasIngesters(s) == s.method = "PUSH" \/ (s.method = "PULL" /\ s.pullIds # None)

\* One of the constructors throws when its ingesters run: that for SINGLE has only
\* the packager to come, that for STREAMING looks at the mode after its base class
\* has begun.
IngestersDropped(s) ==
  /\ HasIngesters(s)
  /\ \/ /\ s.mode = "SINGLE" /\ ~(s.method = "PUSH" /\ s.pushId)
        /\ ObjectListController(s) = "logic_error"
     \/ /\ ObjectListController(s) = "logic_error"
        /\ ObjectStreamingController(s) = "logic_error"

-----------------------------------------------------------------------------
(* Context *)

\* faulty: the last session with an identifier stays
ReplaceDistributionSession(s) ==
  sessions' = [i \in DOMAIN sessions \cup {s.id} |-> IF i = s.id THEN s ELSE sessions[i]]

\* std::map::insert(): nothing happens if the identifier is in use
AddSession(s) ==
  sessions' = IF s.id \in DOMAIN sessions
              THEN sessions
              ELSE [i \in DOMAIN sessions \cup {s.id} |-> IF i = s.id THEN s ELSE sessions[i]]

EraseSession(id) == sessions' = [i \in DOMAIN sessions \ {id} |-> sessions[i]]

\* updateNFLoad(): the rates of all active sessions are added each time
TotalMbr(ss) ==
  MapThenSumSet(LAMBDA i : IF ss[i].active /\ ss[i].mbr # None THEN Parse(ss[i].mbr) ELSE 0,
                DOMAIN ss)

updateNFLoad(ss) == load' = load + TotalMbr(ss) \div 10^6

-----------------------------------------------------------------------------
(* The status of the answer to a request, processEvent() *)

Post(q) ==
  CASE q.ref # NoPart /\ q.sub = "subscriptions" -> 501
    [] q.ref # NoPart /\ q.sub \notin {NoPart, "subscriptions"} -> 404
    [] q.ref # NoPart /\ q.sub = NoPart -> 405
    [] q.ref = NoPart /\ ~q.json -> 415
    [] q.ref = NoPart /\ q.json /\ q.body \notin DistSession -> 400
    [] OTHER -> CASE makeController(q.body) = "none" -> 501
                  [] makeController(q.body) = "runtime_error" -> 400
                  [] OTHER -> 201

Get(q) == IF q.ref = NoPart THEN 400 ELSE IF q.ref \in DOMAIN sessions THEN 200 ELSE 404

Delete(q) ==
  IF q.ref # NoPart /\ q.sub = NoPart /\ q.ref \in DOMAIN sessions THEN 204 ELSE 404

Options(q) == IF q.ref = NoPart \/ q.sub \in {NoPart, "subscriptions"} THEN 204 ELSE 404

DistSessionStatus(q) ==
  CASE ~q.v1 \/ q.resource # "dist-sessions" -> 400
    [] q.v1 /\ q.resource = "dist-sessions" ->
         CASE q.method = "POST" -> Post(q)
           [] q.method = "GET" -> Get(q)
           [] q.method = "DELETE" -> Delete(q)
           [] q.method = "OPTIONS" -> Options(q)
           [] OTHER -> 400

\* The rest of MBSTFEventHandler::dispatch(): notifications from the NRF, requests
\* to other services and requests whose header cannot be parsed.
OtherStatus(q) ==
  IF q.service = "nnrf-nfm" /\ q.v1 /\ q.resource = "nf-status-notify"
  THEN IF q.method = "POST" THEN 204 ELSE 403
  ELSE 400

Status(q) ==
  IF q.service = "nmbstf-distsession" THEN DistSessionStatus(q) ELSE OtherStatus(q)

\* a POST that gets as far as the ControllerFactory
Posts(q) ==
  /\ q.service = "nmbstf-distsession" /\ q.v1 /\ q.resource = "dist-sessions"
  /\ q.method = "POST" /\ q.ref = NoPart /\ q.json /\ q.body \in DistSession

Makes(q) == Posts(q) /\ makeController(q.body) = "made"

\* it is refused when the constructors have begun
Unwinds(q) == Posts(q) /\ makeController(q.body) # "made" /\ IngestersDropped(q.body)

\* those that use the Context
UsesContext(q) ==
  /\ q.service = "nmbstf-distsession" /\ q.v1 /\ q.resource = "dist-sessions"
  /\ \/ q.method = "POST" /\ Post(q) = 201
     \/ q.method = "GET" /\ q.ref # NoPart
     \/ q.method = "DELETE" /\ q.ref # NoPart /\ q.sub = NoPart
=============================================================================
