----------------------------- MODULE FetchQueue -----------------------------
(***************************************************************************)
(* What a pull ingester owes those who ask it for objects: every item is   *)
(* served once, one at a time, and never while another one has an earlier  *)
(* deadline.  An item that waits may be given another deadline.            *)
(***************************************************************************)
EXTENDS Naturals

CONSTANT Item  \* records with a field "deadline" at least

VARIABLES
  pending,  \* items asked for and not yet served
  serving,  \* <<>> or <<i>>: the item being served
  stopped   \* nothing is served any more

vars == <<pending, serving, stopped>>

Init ==
  /\ pending \in SUBSET Item
  /\ serving = <<>>
  /\ stopped = FALSE

Ask(i) ==
  /\ i \notin pending
  /\ pending' = pending \cup {i}
  /\ UNCHANGED <<serving, stopped>>

\* i waits with deadline d from now on
Hurry(i, d) ==
  /\ i \in pending
  /\ pending' = (pending \ {i}) \cup {[i EXCEPT !.deadline = d]}
  /\ UNCHANGED <<serving, stopped>>

Serve ==
  /\ ~stopped /\ serving = <<>>
  /\ \E i \in pending :
       /\ \A j \in pending : i.deadline <= j.deadline
       /\ pending' = pending \ {i}
       /\ serving' = <<i>>
  /\ UNCHANGED stopped

Finish ==
  /\ serving # <<>>
  /\ serving' = <<>>
  /\ UNCHANGED <<pending, stopped>>

Stop ==
  /\ serving = <<>>
  /\ stopped' = TRUE
  /\ UNCHANGED <<pending, serving>>

Next ==
  \/ \E i \in Item : Ask(i)
  \/ \E i \in pending : \E j \in Item : Hurry(i, j.deadline)
  \/ Serve
  \/ Finish
  \/ Stop

Spec == Init /\ [][Next]_vars /\ WF_vars(Serve) /\ WF_vars(Finish)
=============================================================================
