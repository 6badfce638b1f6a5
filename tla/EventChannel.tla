---------------------------- MODULE EventChannel ----------------------------
(***************************************************************************)
(* What SubscriptionService promises to the components that post events   *)
(* with sendEventAsynchronous(), without subscribers, threads or locks:    *)
(* events are handled one at a time in the order they were posted, each is *)
(* taken exactly once, and closing the channel waits for the event in hand *)
(* and drops the ones that were never taken.                               *)
(***************************************************************************)
EXTENDS Naturals, Sequences

CONSTANT Event  \* what may be posted

VARIABLES
  pending,      \* Seq(Event): posted, not yet taken
  inHand,       \* <<>> or <<e>>: the event being handled
  closing,      \* the owner has asked the channel to close
  closed        \* the channel is closed

vars == <<pending, inHand, closing, closed>>

TypeOK ==
  /\ pending \in Seq(Event)
  /\ inHand \in {<<>>} \cup {<<e>> : e \in Event}
  /\ closing \in BOOLEAN
  /\ closed \in BOOLEAN

Init ==
  /\ pending = <<>>
  /\ inHand = <<>>
  /\ closing = FALSE
  /\ closed = FALSE

\* While closing, only the handler still running can post.
Post(e) ==
  /\ closing => inHand # <<>>
  /\ ~closed
  /\ pending' = Append(pending, e)
  /\ UNCHANGED <<inHand, closing, closed>>

Take ==
  /\ inHand = <<>>
  /\ pending # <<>>
  /\ ~closing
  /\ inHand' = <<Head(pending)>>
  /\ pending' = Tail(pending)
  /\ UNCHANGED <<closing, closed>>

Done ==
  /\ inHand # <<>>
  /\ inHand' = <<>>
  /\ UNCHANGED <<pending, closing, closed>>

RequestClose ==
  /\ ~closing
  /\ closing' = TRUE
  /\ UNCHANGED <<pending, inHand, closed>>

Close ==
  /\ closing
  /\ ~closed
  /\ inHand = <<>>
  /\ closed' = TRUE
  /\ pending' = <<>>
  /\ UNCHANGED <<inHand, closing>>

Next ==
  \/ \E e \in Event : Post(e)
  \/ Take
  \/ Done
  \/ RequestClose
  \/ Close

Fairness == WF_vars(Take) /\ WF_vars(Done) /\ WF_vars(Close)

Spec == Init /\ [][Next]_vars /\ Fairness
=============================================================================
