------------------------------ MODULE SendQueue ------------------------------
(***************************************************************************)
(* What a packager owes the controller that fills it: objects go on air    *)
(* one at a time, in the order they were added, each once, and each        *)
(* completion is reported with the object that was on air.                 *)
(***************************************************************************)
EXTENDS Naturals, Sequences

CONSTANT Object

VARIABLES
  waiting,   \* Seq(Object): added, not yet sent
  onAir,     \* <<>> or <<o>>: the object being transmitted
  reported,  \* Seq(Object): completions reported and not yet collected
  stopped    \* the packager sends no more

vars == <<waiting, onAir, reported, stopped>>

Init ==
  /\ waiting = <<>>
  /\ onAir = <<>>
  /\ reported = <<>>
  /\ stopped = FALSE

Add(o) ==
  /\ waiting' = Append(waiting, o)
  /\ UNCHANGED <<onAir, reported, stopped>>

Send ==
  /\ ~stopped
  /\ onAir = <<>>
  /\ waiting # <<>>
  /\ onAir' = <<Head(waiting)>>
  /\ waiting' = Tail(waiting)
  /\ UNCHANGED <<reported, stopped>>

Finish ==
  /\ ~stopped
  /\ onAir # <<>>
  /\ onAir' = <<>>
  /\ reported' = Append(reported, Head(onAir))
  /\ UNCHANGED <<waiting, stopped>>

Collect ==
  /\ reported # <<>>
  /\ reported' = Tail(reported)
  /\ UNCHANGED <<waiting, onAir, stopped>>

Stop ==
  /\ ~stopped
  /\ stopped' = TRUE
  /\ UNCHANGED <<waiting, onAir, reported>>

Next ==
  \/ \E o \in Object : Add(o)
  \/ Send
  \/ Finish
  \/ Collect
  \/ Stop

Spec == Init /\ [][Next]_vars /\ WF_vars(Send) /\ WF_vars(Finish)
=============================================================================
