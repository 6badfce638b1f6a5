------------------------- MODULE MCConfiguration -------------------------
(* A small instance of Configuration for TLC. *)
EXTENDS Configuration

CONSTANTS a1, a2, a3, b1

Server(key, v4, v6) == [key |-> key, v4 |-> v4, v6 |-> v6]

\* addresses that are named twice, a node with two addresses, items with both
\* families, with one and with none
Items ==
  {Server("distSessionAPI", <<a1>>, <<>>), Server("distSessionAPI", <<a2, a3>>, <<b1>>),
   Server("distSessionAPI", <<>>, <<b1>>), Server("distSessionAPI", <<>>, <<>>),
   Server("httpPushIngest", <<a1>>, <<>>), Server("rtpIngest", <<a2>>, <<>>)}
  \cup [key : {"serverResponseCacheControl"}, empty : BOOLEAN]
  \cup [key : {"totalMaxBitRateSoftLimit"}, number : BOOLEAN]
=============================================================================
