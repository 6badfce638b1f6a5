------------------------ MODULE MCObjectListPackager ------------------------
(* Values of the constants of ObjectListPackager for model checking. *)
EXTENDS ObjectListPackager

\* every item without a deadline, as the controllers add them
NoDeadlines == {NoDeadline}

\* an early deadline, a late one and none
AnyDeadline == 1..NoDeadline
=============================================================================
