-------------------------------- MODULE Curl --------------------------------
(***************************************************************************)
(* The HTTP client of a pull ingester (Curl.cc): one object, used again    *)
(* for every download.  get() clears what the last response left, libcurl  *)
(* (external) calls back with header lines and data, and what the members  *)
(* hold afterwards is what the ingester reads.                             *)
(*                                                                         *)
(* A transfer is the sequence of lines that libcurl passes on: one block   *)
(* of headers for every response of a chain of redirects, each begun by a  *)
(* status line and ended by an empty one, then trailers.                   *)
(***************************************************************************)
EXTENDS Naturals, Sequences

CONSTANT Answer  \* what servers may answer, see AnswerAssumption

Line ==
  [kind : {"status"}, code : Nat] \cup [kind : {"location"}, url : STRING]
    \cup [kind : {"maxAge"}, age : Nat] \cup [kind : {"other", "end"}]

\* libcurl passes on a new response only after the empty line that ends the
\* headers of the one before
EachEnds(lines) ==
  \A s, t \in DOMAIN lines :
    s < t /\ lines[s].kind = "status" /\ lines[t].kind = "status"
      => \E e \in (s + 1)..(t - 1) : lines[e].kind = "end"

\* etag and type are headers of the last response of the chain, "" if it has none
ASSUME AnswerAssumption ==
  \A a \in Answer :
    /\ a \in [lines : Seq(Line), etag : STRING, type : STRING, body : STRING]
    /\ EachEnds(a.lines)

VARIABLE curl  \* the members of a Curl object

Permanent == {301, 308}

NoText == ""

\* the constructor
CurlNew ==
  [hdrState |-> "start", statusCode |-> 0, permanentRedirectUrl |-> NoText,
   cacheControlMaxAge |-> 0, etag |-> NoText, contentType |-> NoText, receivedData |-> <<>>]

\* faulty: the ETag is not cleared
ResetButETag ==
  [curl EXCEPT !.receivedData = <<>>, !.hdrState = "start",
               !.statusCode = 0, !.permanentRedirectUrl = NoText]

\* get(), up to curl_easy_perform()
Reset ==
  [curl EXCEPT !.etag = NoText, !.receivedData = <<>>, !.hdrState = "start",
               !.statusCode = 0, !.permanentRedirectUrl = NoText]

\* extractProtocolAndStatusCode()
StatusLine(c, l) == [c EXCEPT !.hdrState = "headers", !.statusCode = l.code]

\* faulty: trailers are taken for headers
ProcessAnyLine(c, l) ==
  IF l.kind = "status" THEN StatusLine(c, l)
  ELSE IF l.kind = "location" THEN [c EXCEPT !.permanentRedirectUrl = l.url]
  ELSE IF l.kind = "maxAge" THEN [c EXCEPT !.cacheControlMaxAge = l.age]
  ELSE c

\* one header line, in the state HEADER_HEADERS
ProcessHeader(c, l) ==
  CASE l.kind = "end" -> [c EXCEPT !.hdrState = "body"]
    [] l.kind = "location" /\ c.statusCode \in Permanent -> [c EXCEPT !.permanentRedirectUrl = l.url]
    [] l.kind = "maxAge" -> [c EXCEPT !.cacheControlMaxAge = l.age]
    [] OTHER -> c

\* processHeaderLine()
ProcessHeaderLine(c, l) ==
  CASE c.hdrState = "headers" -> ProcessHeader(c, l)
    [] c.hdrState # "headers" /\ l.kind = "status" -> StatusLine(c, l)
    [] c.hdrState = "body" /\ l.kind # "status" -> [c EXCEPT !.hdrState = "trailing"]
    [] OTHER -> c

\* headerCallback() for the first n lines; after[k] is a set of one, which TLC
\* evaluates once
Received(c, lines, n) ==
  LET after[k \in 0..n] == IF k = 0 THEN {c} ELSE {ProcessHeaderLine(d, lines[k]) : d \in after[k - 1]}
  IN CHOOSE d \in after[n] : TRUE

\* the rest of get() after a transfer that succeeds: data from writeCallback(),
\* the ETag and the content type
Succeeded(a) ==
  [Received(curl, a.lines, Len(a.lines)) EXCEPT
     !.receivedData = Append(@, a.body),
     !.etag = IF a.etag = NoText THEN @ ELSE a.etag,
     !.contentType = IF a.type = NoText THEN @ ELSE a.type]

\* a transfer that breaks off or times out: some of the lines, and after all of
\* them perhaps some of the data
Failed(a) ==
  {Received(curl, a.lines, n) : n \in 0..Len(a.lines)}
    \cup {[Received(curl, a.lines, Len(a.lines)) EXCEPT !.receivedData = Append(@, "part")]}

-----------------------------------------------------------------------------
(* What a transfer says, by definition *)

\* line k stands in the header block of a response with that status
HeaderOf(lines, k, status) ==
  \E s \in 1..(k - 1) :
    /\ lines[s].kind = "status" /\ lines[s].code \in status
    /\ \A j \in (s + 1)..(k - 1) : lines[j].kind \notin {"status", "end"}

LastOf(S) == CHOOSE k \in S : \A j \in S : j <= k

\* the target of the last permanent redirect of a chain, "" if there is none
RedirectOf(lines) ==
  LET moved == {k \in DOMAIN lines : lines[k].kind = "location" /\ HeaderOf(lines, k, Permanent)}
  IN IF moved = {} THEN NoText ELSE lines[LastOf(moved)].url

\* the last max-age of a chain, 0 if there is none
MaxAgeOf(lines) ==
  LET ages == {k \in DOMAIN lines : lines[k].kind = "maxAge" /\ HeaderOf(lines, k, 0..999)}
  IN IF ages = {} THEN 0 ELSE lines[LastOf(ages)].age
=============================================================================
