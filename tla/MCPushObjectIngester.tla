------------------------ MODULE MCPushObjectIngester ------------------------
(* Values of the constants of PushObjectIngester for model checking. *)
EXTENDS PushObjectIngester

good == [valid |-> TRUE, allowed |-> TRUE]
wrongUrl == [valid |-> FALSE, allowed |-> TRUE]
otherMethod == [valid |-> TRUE, allowed |-> FALSE]

\* the first request is of any kind, the second one is good
FirstOfAnyKind ==
  [c \in Conn |-> IF c = 1 THEN {good, wrongUrl, otherMethod} ELSE {good}]
=============================================================================
