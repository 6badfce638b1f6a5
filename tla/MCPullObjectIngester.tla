------------------------ MODULE MCPullObjectIngester ------------------------
(* Values of the constants of PullObjectIngester for model checking. *)
EXTENDS PullObjectIngester

Status(n) == [kind |-> "status", code |-> n]
Location(u) == [kind |-> "location", url |-> u]
MaxAge(n) == [kind |-> "maxAge", age |-> n]
End == [kind |-> "end"]

\* a temporary redirect, then headers of every kind
Full == [lines |-> <<Status(302), Location("u1"), End, Status(200), MaxAge(5), [kind |-> "other"], End>>,
         etag |-> "tag", type |-> "type", body |-> "full"]

\* none of its own behind a permanent redirect, and a trailer that looks like a
\* header
Moved == [lines |-> <<Status(301), Location("u1"), End, Status(200), End, Location("u2")>>,
          etag |-> "", type |-> "", body |-> "moved"]

Answers == {Full, Moved}

AnyDeadline == {1, 2, NoDeadline}
NoDeadlines == {NoDeadline}

TwoInitial == <<[object |-> "o1", deadline |-> NoDeadline, ask |-> 1],
                [object |-> "o2", deadline |-> NoDeadline, ask |-> 2]>>
EmptyOrTwo == {<<>>, TwoInitial}
OnlyEmpty == {<<>>}
=============================================================================
