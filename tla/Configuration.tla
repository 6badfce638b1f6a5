--------------------------- MODULE Configuration ---------------------------
(***************************************************************************)
(* App::initialise(): the section mbstf of the configuration file is read, *)
(* its addresses become servers (Context.cc), and the service of the NF    *)
(* announces those of the distribution session API to the NRF              *)
(* (Open5GSNetworkFunction.cc).                                            *)
(*                                                                         *)
(* Open5GS resolves names, binds the servers and reads its own section sbi *)
(* and is external.  Two addresses are the same if family, IP address and  *)
(* port are, and so are two with the port 0 although they get different    *)
(* ports.                                                                  *)
(***************************************************************************)
EXTENDS Naturals, Sequences, SequencesExt

CONSTANTS
  Address,      \* IP addresses with a port
  Item,         \* what a section may contain
  MaxItems,     \* bound: items of a section
  MaxAddresses  \* OGS_SBI_MAX_NUM_OF_IP_ADDRESS

ServerKey == {"distSessionAPI", "httpPushIngest", "rtpIngest"}

\* A section with the addresses of servers has the first nodes of the lists that
\* its names, addresses or device resolve to, one for each family.
ServerItem ==
  [key : ServerKey, v4 : Seq(Address), v6 : Seq(Address)]
OtherItem ==
  [key : {"serverResponseCacheControl"}, empty : BOOLEAN]
    \cup [key : {"totalMaxBitRateSoftLimit"}, number : BOOLEAN]

ASSUME ItemAssumption == Item \subseteq ServerItem \cup OtherItem
ASSUME MaxAssumption == MaxItems \in Nat /\ MaxAddresses \in Nat \ {0}

VARIABLES
  config,     \* the section mbstf
  noIPv4,     \* ogs_app()->parameter
  noIPv6,
  next,       \* the item of the section to be read next
  servers,    \* Context::servers
  announced,  \* the addresses of the NF service
  status      \* how far initialise() is

file == <<config, noIPv4, noIPv6>>
vars == <<file, next, servers, announced, status>>

Status == {"reading", "read", "configured", "announced", "started",
           "failed",   \* an exception, which app_initialize() catches
           "crashed"}  \* a failed assertion or a null pointer

Init ==
  /\ config \in SeqOf(Item, MaxItems)
  /\ noIPv4 \in BOOLEAN /\ noIPv6 \in BOOLEAN
  /\ next = 1
  /\ servers = [k \in ServerKey |-> <<>>]
  /\ announced = <<>>
  /\ status = "reading"

-----------------------------------------------------------------------------
(* Context::parseConfig() *)

Reading == status = "reading" /\ next \in DOMAIN config
Reads(key) == Reading /\ config[next].key = key
Proceed == next' = next + 1 /\ UNCHANGED <<file, announced, status>>
Ends(s) == status' = s /\ UNCHANGED <<file, next, servers, announced>>

\* the families that are not disabled
Node4(k) == IF noIPv4 THEN <<>> ELSE config[k].v4
Node6(k) == IF noIPv6 THEN <<>> ELSE config[k].v6

\* faulty: only the servers of the same kind are looked at
CheckOwnAddresses(svrs, key, a) == \E n \in DOMAIN svrs[key] : svrs[key][n][1] = a

\* checkForAddr(): the first address of a node identifies it
CheckForAddr(svrs, key, a) ==
  \E other \in ServerKey : \E n \in DOMAIN svrs[other] : svrs[other][n][1] = a

AddServer(svrs, key, node) ==
  IF CheckForAddr(svrs, key, node[1])
  THEN svrs
  ELSE [svrs EXCEPT ![key] = Append(@, node)]

\* parseConfiguration().  The part for the IPv6 node works on the IPv4 node as well.
ReadServers ==
  \E key \in ServerKey :
    /\ Reads(key)
    /\ Node6(next) # <<>> => Node4(next) # <<>>
    /\ servers' =
         IF Node4(next) = <<>> THEN servers
         ELSE LET with4 == AddServer(servers, key, Node4(next))
              IN IF Node6(next) = <<>> THEN with4 ELSE AddServer(with4, key, Node4(next))
    /\ Proceed

\* an IPv6 node without an IPv4 node
UseMissingNode ==
  \E key \in ServerKey :
    /\ Reads(key)
    /\ Node4(next) = <<>> /\ Node6(next) # <<>>
    /\ Ends("crashed")

\* ogs_assert(): a name or a device does not resolve
Unresolved == \E key \in ServerKey : Reads(key) /\ Ends("crashed")

ReadCacheControl ==
  /\ Reads("serverResponseCacheControl")
  /\ ~config[next].empty
  /\ Proceed
  /\ UNCHANGED servers

\* With neither a mapping nor an element, "break" leaves the loop over the section.
EmptyCacheControl ==
  /\ Reads("serverResponseCacheControl")
  /\ config[next].empty
  /\ Ends("read")

ReadSoftLimit ==
  /\ Reads("totalMaxBitRateSoftLimit")
  /\ config[next].number
  /\ Proceed
  /\ UNCHANGED servers

RefuseSoftLimit ==
  /\ Reads("totalMaxBitRateSoftLimit")
  /\ ~config[next].number
  /\ Ends("failed")

EndOfSection ==
  /\ status = "reading" /\ next = Len(config) + 1
  /\ Ends("read")

-----------------------------------------------------------------------------
(* The rest of App::initialise() *)

\* sbiParseConfig() reads the section sbi
ParseSBI == status = "read" /\ \E s \in {"configured", "failed"} : Ends(s)

\* faulty: the addresses of all servers are announced
AllServerAddresses == servers["distSessionAPI"] \o servers["httpPushIngest"] \o servers["rtpIngest"]

DistributionSessionServerAddress == servers["distSessionAPI"]

\* all addresses of each node, as many as there is room for
AddAddressesToNFService(nodes) ==
  LET addresses == FlattenSeq(nodes)
  IN SubSeq(addresses, 1, IF Len(addresses) < MaxAddresses THEN Len(addresses) ELSE MaxAddresses)

SetNFService ==
  /\ status = "configured"
  /\ announced' = AddAddressesToNFService(DistributionSessionServerAddress)
  /\ status' = "announced"
  /\ UNCHANGED <<file, next, servers>>

\* ogs_sbi_server_start_all()
StartServers == status = "announced" /\ \E s \in {"started", "failed"} : Ends(s)

Next ==
  \/ ReadServers \/ UseMissingNode \/ Unresolved
  \/ ReadCacheControl \/ EmptyCacheControl
  \/ ReadSoftLimit \/ RefuseSoftLimit
  \/ EndOfSection
  \/ ParseSBI \/ SetNFService \/ StartServers

Spec == Init /\ [][Next]_vars

-----------------------------------------------------------------------------
(* Properties *)

TypeOK ==
  /\ config \in SeqOf(Item, MaxItems)
  /\ noIPv4 \in BOOLEAN /\ noIPv6 \in BOOLEAN
  /\ next \in 1..Len(config) + 1
  /\ servers \in [ServerKey -> Seq(Seq(Address))]
  /\ announced \in Seq(Address) /\ Len(announced) <= MaxAddresses
  /\ status \in Status

HasAddress(k) == config[k].key \in ServerKey /\ Node4(k) # <<>>

\* the item is the first one with its address
IsFirst(k) ==
  /\ HasAddress(k)
  /\ \A j \in 1..k - 1 : HasAddress(j) => Node4(j)[1] # Node4(k)[1]

\* the items read that the distribution session API gets its servers from
APIItems == {k \in 1..next - 1 : IsFirst(k) /\ config[k].key = "distSessionAPI"}

InOrder(items) == \A m, n \in DOMAIN items : m < n => items[m] < items[n]

\* An address has one server, however many items of whatever kinds name it, and
\* the server is of the kind of the item that comes first (Context.cc:278-298,
\* 341-353).  Two servers with one address could not both be bound, and
\* sbiOpen() would fail.
FirstItemServes ==
  /\ \A k \in 1..next - 1 : IsFirst(k) =>
       \A key \in ServerKey :
         LET serving == {n \in DOMAIN servers[key] : servers[key][n][1] = Node4(k)[1]}
         IN IF key = config[k].key THEN \E n \in serving : serving = {n} ELSE serving = {}
  /\ \A key \in ServerKey : \A n \in DOMAIN servers[key] :
       \E k \in 1..next - 1 : HasAddress(k) /\ Node4(k)[1] = servers[key][n][1]

\* The NF service announces the addresses configured for the distribution session
\* API in the order of the file, without those that an earlier item has for
\* something else and up to the limit (Context.cc:327-339,
\* Open5GSNetworkFunction.cc:330-364): the NRF sends nobody to a server that is
\* not for the API.
AnnouncedAsConfigured ==
  status \in {"announced", "started"} =>
    \E items \in SeqOf(APIItems, next - 1) :
      LET addresses == FlattenSeq([n \in DOMAIN items |-> Node4(items[n])])
      IN /\ InOrder(items) /\ APIItems \subseteq Range(items)
         /\ IsPrefix(announced, addresses)
         /\ Len(announced) < MaxAddresses => announced = addresses
=============================================================================
