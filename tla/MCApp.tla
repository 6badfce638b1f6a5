------------------------------- MODULE MCApp -------------------------------
(* A small instance of App: two identifiers, one request of each kind *)
EXTENDS App, TLC

CONSTANTS none, notJson, notASession

Text(n, j, u) == [number |-> n, junk |-> j, unit |-> u]
Rates ==
  [bare |-> Text(1500000, TRUE, none), mega |-> Text(3, FALSE, "Mbps"),
   badUnit |-> Text(3, FALSE, "mbit"), junk |-> Text(3, TRUE, "Kbps"),
   noNumber |-> Text(none, FALSE, "bps")]

Session(i, mode, method, ids, push, mbr) ==
  [id |-> i, mode |-> mode, method |-> method, pullIds |-> ids, pushId |-> push,
   mbr |-> mbr, active |-> TRUE]

Stored1 == Session("s1", "SINGLE", "PULL", 2, FALSE, Rates.mega)
Stored2 == Session("s2", "STREAMING", "PUSH", none, TRUE, Rates.bare)
Again == Session("s1", "STREAMING", "PULL", 1, FALSE, none)

\* those that are refused
Refused ==
  {Session("s1", "SINGLE", "PUSH", none, TRUE, none),
   Session("s1", "STREAMING", "PULL", 2, FALSE, none),
   Session("s1", "COLLECTION", "PUSH", none, FALSE, none),
   Session("s1", "SINGLE", "PULL", 1, FALSE, Rates.badUnit),
   Session("s1", "STREAMING", "PULL", 1, FALSE, Rates.junk)}

MCDistSession == {Stored1, Stored2, Again} \cup Refused

Asked(method, ref, sub, body) ==
  [service |-> "nmbstf-distsession", v1 |-> TRUE, resource |-> "dist-sessions",
   method |-> method, ref |-> ref, sub |-> sub, json |-> TRUE, body |-> body]

MCRequest ==
  {Asked("POST", "", "", b) : b \in MCDistSession}
  \cup {Asked("GET", "s1", "", notJson)}
  \cup {Asked("DELETE", r, "", notJson) : r \in {"s1", "s2"}}
  \cup {[Asked("POST", "", "", Stored1) EXCEPT !.v1 = FALSE],
        [Asked("GET", "", "", notJson) EXCEPT !.service = ""]}
=============================================================================
