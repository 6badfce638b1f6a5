-------------------------- MODULE SessionRegistry --------------------------
(***************************************************************************)
(* What the distribution session API promises its clients: requests are    *)
(* answered one by one, in the order in which they came, and each answer   *)
(* tells what has happened to the registry of sessions.                    *)
(***************************************************************************)
EXTENDS Naturals, Sequences

CONSTANTS
  Body,    \* what a request may carry
  NoPart   \* a path that ends before

VARIABLES
  registry,  \* the registered sessions: id |-> session
  served     \* the answers so far: number of the request, request and status

Init == registry = <<>> /\ served = <<>>

Answer(n, q, status) ==
  /\ \A k \in DOMAIN served : served[k].number < n
  /\ served' = Append(served, [number |-> n, request |-> q, status |-> status])

\* 201.  The first session with an identifier stays.
Create(n, q) ==
  /\ q.method = "POST"
  /\ q.body \in Body
  /\ registry' = IF q.body.id \in DOMAIN registry
                 THEN registry
                 ELSE [i \in DOMAIN registry \cup {q.body.id} |->
                         IF i = q.body.id THEN q.body ELSE registry[i]]
  /\ Answer(n, q, 201)

\* 204
Delete(n, q) ==
  /\ q.method = "DELETE"
  /\ q.ref \in DOMAIN registry
  /\ registry' = [i \in DOMAIN registry \ {q.ref} |-> registry[i]]
  /\ Answer(n, q, 204)

\* A session is found exactly when it is registered.
Retrieve(n, q) ==
  /\ q.method = "GET"
  /\ q.ref \in DOMAIN registry
  /\ UNCHANGED registry
  /\ Answer(n, q, 200)

\* Anything else leaves the registry alone.  A session is denied only if there is none.
Other(n, q, status) ==
  /\ status # 201 /\ (q.method = "DELETE" => status # 204)
  /\ status = 404 /\ q.ref # NoPart /\ q.sub = NoPart => q.ref \notin DOMAIN registry
  /\ UNCHANGED registry
  /\ Answer(n, q, status)

\* the program ends
Close == registry' = <<>> /\ UNCHANGED served
=============================================================================
