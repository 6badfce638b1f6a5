------------------------ MODULE ConfigurationProofs ------------------------
(***************************************************************************)
(* Theorems about Configuration: every address that the configuration      *)
(* names has one server, of the kind that names it first, and the service  *)
(* of the NF announces those of the distribution session API.              *)
(*                                                                         *)
(* Neither is inductive.  The induction follows the items of the section:  *)
(* the servers are those of the items read that come first with their      *)
(* address, and the servers of the API are in the order of their items.    *)
(***************************************************************************)
EXTENDS Configuration, SequenceTheorems, WellFoundedInduction, TLAPS

ServesAddress(key, n, a) == servers[key][n][1] = a

\* checkForAddr() finds every address that was read
Found ==
  \A k \in 1..next - 1 : HasAddress(k) =>
    \E key \in ServerKey : \E n \in DOMAIN servers[key] : ServesAddress(key, n, Node4(k)[1])

\* no address has two servers
NoneTwice ==
  \A key, other \in ServerKey : \A m \in DOMAIN servers[key], n \in DOMAIN servers[other] :
    servers[key][m][1] = servers[other][n][1] => key = other /\ m = n

\* the item that comes first has a server of its kind
FirstHasServer ==
  \A k \in 1..next - 1 : IsFirst(k) =>
    \E n \in DOMAIN servers[config[k].key] : ServesAddress(config[k].key, n, Node4(k)[1])

\* every server is there because of an item
Named ==
  \A key \in ServerKey : \A n \in DOMAIN servers[key] :
    \E k \in 1..next - 1 : HasAddress(k) /\ ServesAddress(key, n, Node4(k)[1])

\* the items read that are behind the servers of the API, in the order of the file
Behind(items) ==
  /\ InOrder(items) /\ APIItems \subseteq Range(items)
  /\ servers["distSessionAPI"] = [n \in DOMAIN items |-> Node4(items[n])]

APIServersInOrder == \E items \in SeqOf(APIItems, next - 1) : Behind(items)

AnnouncesServers ==
  status \in {"announced", "started"} =>
    announced = AddAddressesToNFService(DistributionSessionServerAddress)

Serving == Found /\ NoneTwice /\ FirstHasServer /\ Named

Inv == TypeOK /\ Serving /\ APIServersInOrder /\ AnnouncesServers

-----------------------------------------------------------------------------
(* addAddressesToNFService() yields addresses: FlattenSeq is a recursive   *)
(* function, which exists because no length is the least without one.      *)

LEMMA LeastNumber ==
  ASSUME NEW T, T \subseteq Nat, T # {}
  PROVE  \E t \in T : \A u \in T : t <= u
<1> DEFINE R == {ss \in Nat \X Nat : ss[1] < ss[2]}
<1>1. IsWellFoundedOn(R, Nat)
  BY NatLessThanWellFounded DEF OpToRel
<1>2. \E t \in T : \A u \in T : <<u, t>> \notin R
  <2> HIDE DEF R
  <2> QED BY <1>1, WFMin
<1>3. PICK t \in T : \A u \in T : <<u, t>> \notin R
  BY <1>2
<1>4. ASSUME NEW u \in T PROVE t <= u
  <2>1. t \in Nat /\ u \in Nat /\ <<u, t>> \notin R
    BY <1>3
  <2> QED BY <2>1
<1> QED BY <1>3, <1>4

LEMMA FlattenSeqType ==
  ASSUME NEW S, NEW s \in Seq(Seq(S))
  PROVE  FlattenSeq(s) \in Seq(S)
<1> DEFINE Is(g, m) == g = [i \in 1..m |-> IF i = 1 THEN s[i] ELSE g[i - 1] \o s[i]]
           Bad == {m \in 1..Len(s) : ~\E g \in [1..m -> Seq(S)] : Is(g, m)}
<1>1. Len(s) \in Nat /\ \A i \in 1..Len(s) : s[i] \in Seq(S)
  OBVIOUS
<1>2. Bad = {}
  <2> SUFFICES ASSUME Bad # {} PROVE FALSE
    OBVIOUS
  <2>0. Bad \subseteq Nat
    <3> HIDE DEF Is
    <3>1. Bad \subseteq 1..Len(s)
      OBVIOUS
    <3> HIDE DEF Bad
    <3> QED BY <1>1, <3>1
  <2>1. PICK m \in Bad : \A u \in Bad : m <= u
    <3> HIDE DEF Bad
    <3> QED BY <2>0, LeastNumber
  <2>2. m \in 1..Len(s) /\ ~\E g \in [1..m -> Seq(S)] : Is(g, m)
    BY <2>1
  <2>3. CASE m = 1
    <3>1. [i \in 1..1 |-> s[1]] \in [1..1 -> Seq(S)] /\ Is([i \in 1..1 |-> s[1]], 1)
      BY <1>1, <2>2, <2>3
    <3> QED BY <2>2, <2>3, <3>1
  <2>4. CASE m # 1
    <3>0. m \in 1..Len(s) /\ m - 1 \in 1..Len(s) /\ m \in Nat /\ ~(m <= m - 1)
      BY <1>1, <2>2, <2>4
    <3>1. m - 1 \notin Bad
      <4> HIDE DEF Bad
      <4> QED BY <2>1, <3>0
    <3>2. PICK g \in [1..m - 1 -> Seq(S)] : Is(g, m - 1)
      BY <3>0, <3>1
    <3> DEFINE h == [i \in 1..m |-> IF i = m THEN g[m - 1] \o s[m] ELSE g[i]]
    <3>3. h \in [1..m -> Seq(S)]
      <4>1. g[m - 1] \in Seq(S) /\ s[m] \in Seq(S)
        BY <1>1, <3>0, <3>2
      <4>2. g[m - 1] \o s[m] \in Seq(S)
        BY <4>1
      <4>3. \A i \in 1..m : i # m => g[i] \in Seq(S)
        BY <3>0, <3>2
      <4> QED BY <4>2, <4>3
    <3>4. ASSUME NEW i \in 1..m PROVE h[i] = IF i = 1 THEN s[i] ELSE h[i - 1] \o s[i]
      <4>1. CASE i = m
        <5>1. h[i] = g[m - 1] \o s[m]
          BY <4>1
        <5>2. m - 1 \in 1..m /\ m - 1 # m
          BY <1>1, <3>0
        <5>3. h[m - 1] = g[m - 1]
          BY <5>2
        <5> HIDE DEF h
        <5> QED BY <2>4, <4>1, <5>1, <5>3
      <4>2. CASE i # m
        <5>1. i \in 1..m - 1 /\ h[i] = g[i]
          BY <3>0, <4>2
        <5>2. g[i] = IF i = 1 THEN s[i] ELSE g[i - 1] \o s[i]
          BY <3>2, <5>1
        <5>3. i # 1 => h[i - 1] = g[i - 1]
          BY <3>0, <4>2
        <5> QED BY <5>1, <5>2, <5>3
      <4> QED BY <4>1, <4>2
    <3>5. Is(h, m)
      <4> HIDE DEF h
      <4> QED BY <3>3, <3>4
    <3> QED BY <2>2, <3>3, <3>5
  <2> QED BY <2>3, <2>4
<1>3. CASE Len(s) = 0
  BY <1>3 DEF FlattenSeq
<1>4. CASE Len(s) # 0
  <2> DEFINE f == CHOOSE g : Is(g, Len(s))
             Odd == {i \in 1..Len(s) : f[i] \notin Seq(S)}
  <2>1. Len(s) \in 1..Len(s)
    BY <1>4
  <2>2. \E g : Is(g, Len(s))
    BY <1>2, <2>1
  <2>3. Is(f, Len(s))
    BY <2>2
  <2>4. \A i \in 1..Len(s) : f[i] = IF i = 1 THEN s[i] ELSE f[i - 1] \o s[i]
    <3> HIDE DEF f
    <3> QED BY <2>3
  <2>5. Odd = {}
    <3> HIDE DEF f
    <3> SUFFICES ASSUME Odd # {} PROVE FALSE
      OBVIOUS
    <3>0. Odd \subseteq Nat
      BY <1>1
    <3>1. PICK i \in Odd : \A u \in Odd : i <= u
      <4> HIDE DEF Odd
      <4> QED BY <3>0, LeastNumber
    <3>2. CASE i = 1
      BY <1>1, <2>4, <3>1, <3>2
    <3>3. CASE i # 1
      <4>1. i \in 1..Len(s) /\ i - 1 \in 1..Len(s) /\ ~(i <= i - 1)
        BY <1>1, <3>1, <3>3
      <4>2. f[i - 1] \in Seq(S) /\ s[i] \in Seq(S)
        BY <1>1, <3>1, <4>1
      <4>3. f[i] = f[i - 1] \o s[i]
        BY <2>4, <3>3, <4>1
      <4>4. f[i - 1] \o s[i] \in Seq(S)
        BY <4>2
      <4>5. f[i] \notin Seq(S)
        BY <3>1
      <4> QED BY <4>3, <4>4, <4>5
    <3> QED BY <3>2, <3>3
  <2>6. FlattenSeq(s) = f[Len(s)]
    BY <1>4 DEF FlattenSeq
  <2> HIDE DEF f
  <2> QED BY <2>1, <2>5, <2>6
<1> QED BY <1>3, <1>4

-----------------------------------------------------------------------------
(* What a step does to the servers.                                        *)

\* an item that comes first with its address gets a server of its kind
Adds ==
  /\ status = "reading" /\ next \in DOMAIN config /\ next' = next + 1
  /\ UNCHANGED <<file, announced, status>>
  /\ IsFirst(next)
  /\ servers' = [servers EXCEPT ![config[next].key] = Append(@, Node4(next))]

\* any other item has one already or has no address
Skips ==
  /\ status = "reading" /\ next \in DOMAIN config /\ next' = next + 1
  /\ UNCHANGED <<file, announced, status>>
  /\ ~IsFirst(next)
  /\ HasAddress(next) =>
       \E key \in ServerKey : \E n \in DOMAIN servers[key] : ServesAddress(key, n, Node4(next)[1])
  /\ servers' = servers

\* no item is read
Stays == UNCHANGED <<file, next, servers>>

LEMMA SectionType ==
  ASSUME TypeOK
  PROVE  /\ config \in Seq(Item)
         /\ Len(config) \in Nat /\ next \in Nat /\ next - 1 \in Nat
         /\ DOMAIN config = 1..Len(config)
<1>1. PICK m \in 0..MaxItems : config \in [1..m -> Item]
  BY DEF TypeOK, SeqOf
<1>2. config \in Seq(Item)
  BY <1>1, MaxAssumption
<1> QED BY <1>2 DEF TypeOK

LEMMA NodeType ==
  ASSUME TypeOK, NEW k \in DOMAIN config, config[k].key \in ServerKey
  PROVE  Node4(k) \in Seq(Address)
<1>1. config[k] \in Item
  BY SectionType
<1>2. config[k] \in ServerItem
  BY <1>1, ItemAssumption DEF OtherItem, ServerKey
<1>3. config[k].v4 \in Seq(Address)
  BY <1>2 DEF ServerItem
<1> QED BY <1>3 DEF Node4

\* checkForAddr() tells whether the item comes first with its address.
LEMMA CheckTellsFirst ==
  ASSUME TypeOK, Found, Named, NEW key \in ServerKey, HasAddress(next)
  PROVE  CheckForAddr(servers, key, Node4(next)[1]) <=> ~IsFirst(next)
<1>1. ASSUME CheckForAddr(servers, key, Node4(next)[1]) PROVE ~IsFirst(next)
  <2>0. PICK other \in ServerKey :
          \E n \in DOMAIN servers[other] : servers[other][n][1] = Node4(next)[1]
    BY <1>1 DEF CheckForAddr
  <2>1. PICK n \in DOMAIN servers[other] : servers[other][n][1] = Node4(next)[1]
    BY <2>0
  <2>2. PICK k \in 1..next - 1 : HasAddress(k) /\ Node4(k)[1] = servers[other][n][1]
    BY DEF Named, ServesAddress
  <2> QED BY <2>1, <2>2 DEF IsFirst
<1>2. ASSUME ~IsFirst(next) PROVE CheckForAddr(servers, key, Node4(next)[1])
  <2>1. PICK k \in 1..next - 1 : HasAddress(k) /\ Node4(k)[1] = Node4(next)[1]
    BY <1>2 DEF IsFirst
  <2> QED BY <2>1 DEF Found, ServesAddress, CheckForAddr
<1> QED BY <1>1, <1>2

LEMMA ReadServersStep ==
  ASSUME TypeOK, Found, Named, ReadServers
  PROVE  Adds \/ Skips
<1>1. PICK key \in ServerKey :
        /\ Reads(key)
        /\ servers' =
             IF Node4(next) = <<>> THEN servers
             ELSE LET with4 == AddServer(servers, key, Node4(next))
                  IN IF Node6(next) = <<>> THEN with4 ELSE AddServer(with4, key, Node4(next))
        /\ Proceed
  BY DEF ReadServers
<1>2. /\ status = "reading" /\ next \in DOMAIN config /\ next' = next + 1
      /\ config[next].key = key /\ UNCHANGED <<file, announced, status>>
  BY <1>1 DEF Reads, Reading, Proceed
<1> DEFINE added == [servers EXCEPT ![key] = Append(@, Node4(next))]
<1>3. CASE Node4(next) = <<>>
  BY <1>1, <1>2, <1>3 DEF Skips, IsFirst, HasAddress
<1>4. CASE Node4(next) # <<>> /\ ~IsFirst(next)
  <2>1. HasAddress(next)
    BY <1>2, <1>4 DEF HasAddress
  <2>2. CheckForAddr(servers, key, Node4(next)[1])
    BY <1>4, <2>1, CheckTellsFirst
  <2>3. servers' = servers
    BY <1>1, <1>4, <2>2 DEF AddServer
  <2>4. \E k \in ServerKey : \E n \in DOMAIN servers[k] : ServesAddress(k, n, Node4(next)[1])
    BY <2>2 DEF CheckForAddr, ServesAddress
  <2> QED BY <1>2, <1>4, <2>3, <2>4 DEF Skips
<1>5. CASE Node4(next) # <<>> /\ IsFirst(next)
  <2>1. ~CheckForAddr(servers, key, Node4(next)[1])
    BY <1>5, CheckTellsFirst DEF IsFirst
  <2>2. AddServer(servers, key, Node4(next)) = added
    BY <2>1 DEF AddServer
  <2>3. CheckForAddr(added, key, Node4(next)[1])
    <3>1. servers[key] \in Seq(Seq(Address)) /\ Node4(next) \in Seq(Address)
      BY <1>2, NodeType DEF TypeOK
    <3>2. added[key] = Append(servers[key], Node4(next))
      BY DEF TypeOK
    <3>3. /\ Len(servers[key]) + 1 \in DOMAIN added[key]
          /\ added[key][Len(servers[key]) + 1] = Node4(next)
      BY <3>1, <3>2
    <3> HIDE DEF added
    <3> QED BY <3>3 DEF CheckForAddr
  <2>4. AddServer(added, key, Node4(next)) = added
    BY <2>3 DEF AddServer
  <2>5. servers' = added
    <3> HIDE DEF added
    <3> QED BY <1>1, <1>5, <2>2, <2>4
  <2> QED BY <1>2, <1>5, <2>5 DEF Adds
<1> QED BY <1>3, <1>4, <1>5

LEMMA ServersStep ==
  ASSUME TypeOK, Found, Named, [Next]_vars
  PROVE  Adds \/ Skips \/ Stays
<1>1. CASE ReadServers
  BY <1>1, ReadServersStep
<1>2. CASE ReadCacheControl \/ ReadSoftLimit
  <2>1. next \in DOMAIN config /\ config[next].key \notin ServerKey
    BY <1>2 DEF ReadCacheControl, ReadSoftLimit, Reads, Reading, ServerKey
  <2>2. ~HasAddress(next) /\ ~IsFirst(next)
    BY <2>1 DEF HasAddress, IsFirst
  <2> QED BY <1>2, <2>1, <2>2 DEF ReadCacheControl, ReadSoftLimit, Reads, Reading, Proceed, Skips
<1>3. CASE UseMissingNode \/ Unresolved \/ EmptyCacheControl \/ RefuseSoftLimit \/ EndOfSection
  BY <1>3 DEF UseMissingNode, Unresolved, EmptyCacheControl, RefuseSoftLimit, EndOfSection, Ends, Stays
<1>4. CASE ParseSBI \/ SetNFService \/ StartServers
  BY <1>4 DEF ParseSBI, SetNFService, StartServers, Ends, Stays
<1>5. CASE UNCHANGED vars
  BY <1>5 DEF vars, Stays
<1> QED BY <1>1, <1>2, <1>3, <1>4, <1>5 DEF Next

-----------------------------------------------------------------------------
(* The inductive invariant.                                                *)

LEMMA AnnouncedType ==
  ASSUME NEW nodes \in Seq(Seq(Address))
  PROVE  /\ AddAddressesToNFService(nodes) \in Seq(Address)
         /\ Len(AddAddressesToNFService(nodes)) <= MaxAddresses
<1> DEFINE addresses == FlattenSeq(nodes)
           room == IF Len(addresses) < MaxAddresses THEN Len(addresses) ELSE MaxAddresses
<1>1. addresses \in Seq(Address)
  BY FlattenSeqType
<1>2. AddAddressesToNFService(nodes) = SubSeq(addresses, 1, room)
  BY DEF AddAddressesToNFService
<1> HIDE DEF addresses
<1>3. room \in Nat /\ room <= Len(addresses) /\ room <= MaxAddresses
  BY <1>1, MaxAssumption
<1> HIDE DEF room
<1>4. SubSeq(addresses, 1, room) \in Seq(Address) /\ Len(SubSeq(addresses, 1, room)) = room
  BY <1>1, <1>3
<1> QED BY <1>2, <1>3, <1>4

LEMMA TypeStep ==
  ASSUME TypeOK, Found, Named, [Next]_vars
  PROVE  TypeOK'
<1> USE DEF TypeOK
<1>1. next' \in 1..Len(config) + 1 /\ servers' \in [ServerKey -> Seq(Seq(Address))] /\ UNCHANGED file
  <2>1. CASE Adds
    <3>1. config[next].key \in ServerKey /\ next \in DOMAIN config
      BY <2>1 DEF Adds, IsFirst, HasAddress
    <3>2. Node4(next) \in Seq(Address)
      BY <3>1, NodeType
    <3>3. next \in 1..Len(config)
      BY <3>1, SectionType
    <3>4. servers' = [servers EXCEPT ![config[next].key] = Append(@, Node4(next))]
      BY <2>1 DEF Adds
    <3>5. Append(servers[config[next].key], Node4(next)) \in Seq(Seq(Address))
      BY <3>1, <3>2
    <3>6. servers' \in [ServerKey -> Seq(Seq(Address))]
      BY <3>1, <3>4, <3>5
    <3> QED BY <2>1, <3>3, <3>6, SectionType DEF Adds
  <2>2. CASE Skips
    <3>1. next \in 1..Len(config)
      BY <2>2, SectionType DEF Skips
    <3> QED BY <2>2, <3>1, SectionType DEF Skips
  <2>3. CASE Stays
    BY <2>3 DEF Stays
  <2> QED BY <2>1, <2>2, <2>3, ServersStep
<1>2. announced' \in Seq(Address) /\ Len(announced') <= MaxAddresses /\ status' \in Status
  <2>1. CASE SetNFService
    <3>1. servers["distSessionAPI"] \in Seq(Seq(Address))
      BY DEF ServerKey
    <3> QED BY <2>1, <3>1, AnnouncedType DEF SetNFService, DistributionSessionServerAddress, Status
  <2>2. CASE ReadServers \/ ReadCacheControl \/ ReadSoftLimit
    BY <2>2 DEF ReadServers, ReadCacheControl, ReadSoftLimit, Proceed
  <2>3. CASE UseMissingNode \/ Unresolved \/ EmptyCacheControl \/ RefuseSoftLimit \/ EndOfSection
    BY <2>3 DEF UseMissingNode, Unresolved, EmptyCacheControl, RefuseSoftLimit, EndOfSection, Ends, Status
  <2>4. CASE ParseSBI \/ StartServers
    BY <2>4 DEF ParseSBI, StartServers, Ends, Status
  <2>5. CASE UNCHANGED vars
    BY <2>5 DEF vars
  <2> QED BY <2>1, <2>2, <2>3, <2>4, <2>5 DEF Next
<1> QED BY <1>1, <1>2 DEF file

\* What is said of an item depends on the file only.
LEMMA SameItems ==
  ASSUME UNCHANGED file, NEW k
  PROVE  Node4(k)' = Node4(k) /\ (HasAddress(k)' <=> HasAddress(k)) /\ (IsFirst(k)' <=> IsFirst(k))
<1>1. \A j : Node4(j)' = Node4(j) /\ (HasAddress(j)' <=> HasAddress(j))
  BY DEF file, Node4, HasAddress
<1> QED BY <1>1 DEF IsFirst

\* A server keeps its place in the list of its kind, and at most one comes new.
LEMMA AddedServer ==
  ASSUME TypeOK, Adds, NEW key \in ServerKey
  PROVE  /\ servers[key] \in Seq(Seq(Address)) /\ Len(servers[key]) \in Nat
         /\ config[next].key \in ServerKey
         /\ DOMAIN servers[key] = 1..Len(servers[key])
         /\ key # config[next].key => servers'[key] = servers[key]
         /\ key = config[next].key =>
              /\ DOMAIN servers'[key] = 1..Len(servers[key]) + 1
              /\ servers'[key][Len(servers[key]) + 1] = Node4(next)
         /\ \A n \in DOMAIN servers[key] : n \in DOMAIN servers'[key] /\ servers'[key][n] = servers[key][n]
<1>1. config[next].key \in ServerKey /\ next \in DOMAIN config
  BY DEF Adds, IsFirst, HasAddress
<1>2. Node4(next) \in Seq(Address)
  BY <1>1, NodeType
<1>3. servers[key] \in Seq(Seq(Address))
  BY DEF TypeOK
<1>4. servers'[key] = IF key = config[next].key THEN Append(servers[key], Node4(next)) ELSE servers[key]
  BY <1>1 DEF Adds, TypeOK
<1>5. /\ DOMAIN Append(servers[key], Node4(next)) = 1..Len(servers[key]) + 1
      /\ Append(servers[key], Node4(next))[Len(servers[key]) + 1] = Node4(next)
      /\ \A n \in 1..Len(servers[key]) : Append(servers[key], Node4(next))[n] = servers[key][n]
  BY <1>2, <1>3
<1>6. DOMAIN servers[key] = 1..Len(servers[key]) /\ Len(servers[key]) \in Nat
  BY <1>3
<1> QED BY <1>1, <1>3, <1>4, <1>5, <1>6

LEMMA ServingStep ==
  ASSUME TypeOK, Serving, [Next]_vars
  PROVE  Serving'
<1> USE DEF ServesAddress
<1>1. CASE Adds
  <2> DEFINE own == config[next].key
             new == Len(servers[own]) + 1
  <2>1. /\ next \in Nat /\ next' = next + 1 /\ UNCHANGED file /\ UNCHANGED config
        /\ IsFirst(next) /\ HasAddress(next) /\ own \in ServerKey
    BY <1>1, SectionType DEF Adds, file, IsFirst, HasAddress
  <2>2. /\ new \in DOMAIN servers'[own] /\ servers'[own][new] = Node4(next)
        /\ new \notin DOMAIN servers[own]
    BY <1>1, <2>1, AddedServer
  <2>3. ASSUME NEW key \in ServerKey, NEW n \in DOMAIN servers'[key]
        PROVE  \/ n \in DOMAIN servers[key] /\ servers'[key][n] = servers[key][n]
               \/ key = own /\ n = new
    <3>1. CASE key # own
      <4>1. servers'[key] = servers[key]
        BY <1>1, <3>1, AddedServer
      <4> QED BY <4>1
    <3>2. CASE key = own
      <4>1. /\ DOMAIN servers'[key] = 1..new /\ DOMAIN servers[key] = 1..Len(servers[key])
            /\ Len(servers[key]) \in Nat /\ new = Len(servers[key]) + 1
        BY <1>1, <3>2, AddedServer
      <4> HIDE DEF new
      <4>2. n = new \/ n \in DOMAIN servers[key]
        BY <4>1
      <4>3. n \in DOMAIN servers[key] => servers'[key][n] = servers[key][n]
        BY <1>1, AddedServer
      <4> QED BY <3>2, <4>2, <4>3
    <3> QED BY <3>1, <3>2
  <2>4. \A key \in ServerKey : \A n \in DOMAIN servers[key] :
          n \in DOMAIN servers'[key] /\ servers'[key][n] = servers[key][n]
    BY <1>1, AddedServer
  <2>5. \A k \in 1..next' - 1 : k \in 1..next - 1 \/ k = next
    BY <2>1
  <2>6. 1..next - 1 \subseteq 1..next' - 1 /\ next \in 1..next' - 1
    BY <1>1, <2>1 DEF TypeOK
  <2>7. \A key \in ServerKey : \A n \in DOMAIN servers[key] : servers[key][n][1] # Node4(next)[1]
    BY <2>1 DEF Serving, Named, IsFirst
  <2> HIDE DEF own, new
  <2>8. Found'
    <3> SUFFICES ASSUME NEW k \in 1..next' - 1, HasAddress(k)
                 PROVE  \E key \in ServerKey : \E n \in DOMAIN servers'[key] : servers'[key][n][1] = Node4(k)[1]
      BY <2>1, SameItems DEF Found
    <3>1. CASE k = next
      BY <2>1, <2>2, <3>1
    <3>2. CASE k # next
      BY <2>4, <2>5, <3>2 DEF Serving, Found
    <3> QED BY <3>1, <3>2
  <2>9. NoneTwice'
    BY <2>2, <2>3, <2>7 DEF Serving, NoneTwice
  <2>10. FirstHasServer'
    <3> SUFFICES ASSUME NEW k \in 1..next' - 1, IsFirst(k)
                 PROVE  \E n \in DOMAIN servers'[config[k].key] : servers'[config[k].key][n][1] = Node4(k)[1]
      BY <2>1, SameItems DEF FirstHasServer
    <3>1. CASE k = next
      BY <2>2, <3>1 DEF own
    <3>2. CASE k # next
      <4>1. config[k].key \in ServerKey
        BY DEF IsFirst, HasAddress
      <4> QED BY <2>4, <2>5, <3>2, <4>1 DEF Serving, FirstHasServer
    <3> QED BY <3>1, <3>2
  <2>11. Named'
    <3> SUFFICES ASSUME NEW key \in ServerKey, NEW n \in DOMAIN servers'[key]
                 PROVE  \E k \in 1..next' - 1 : HasAddress(k) /\ servers'[key][n][1] = Node4(k)[1]
      BY <2>1, SameItems DEF Named
    <3>1. CASE n \in DOMAIN servers[key] /\ servers'[key][n] = servers[key][n]
      BY <2>6, <3>1 DEF Serving, Named
    <3>2. CASE key = own /\ n = new
      BY <2>1, <2>2, <2>6, <3>2
    <3> QED BY <2>3, <3>1, <3>2
  <2> QED BY <2>8, <2>9, <2>10, <2>11 DEF Serving
<1>2. CASE Skips
  <2>1. /\ next \in Nat /\ next' = next + 1 /\ UNCHANGED <<file, servers>> /\ UNCHANGED config
        /\ ~IsFirst(next)
    BY <1>2, SectionType DEF Skips, file
  <2>2. \A k \in 1..next' - 1 : k \in 1..next - 1 \/ k = next
    BY <2>1
  <2>3. 1..next - 1 \subseteq 1..next' - 1
    BY <2>1
  <2>4. Found'
    <3> SUFFICES ASSUME NEW k \in 1..next' - 1, HasAddress(k)
                 PROVE  \E key \in ServerKey : \E n \in DOMAIN servers[key] : servers[key][n][1] = Node4(k)[1]
      BY <2>1, SameItems DEF Found
    <3>1. CASE k = next
      BY <1>2, <3>1 DEF Skips
    <3> QED BY <2>2, <3>1 DEF Serving, Found
  <2>5. FirstHasServer'
    BY <2>1, <2>2, SameItems DEF Serving, FirstHasServer
  <2>6. Named'
    BY <2>1, <2>3, SameItems DEF Serving, Named
  <2> QED BY <2>1, <2>4, <2>5, <2>6 DEF Serving, NoneTwice
<1>3. CASE Stays
  <2>1. UNCHANGED <<file, next, servers>> /\ UNCHANGED config
    BY <1>3 DEF Stays, file
  <2> QED BY <2>1, SameItems DEF Serving, Found, NoneTwice, FirstHasServer, Named
<1> QED BY <1>1, <1>2, <1>3, ServersStep DEF Serving

LEMMA SeqOfIsSeq ==
  ASSUME NEW S, NEW n \in Nat, NEW s
  PROVE  s \in SeqOf(S, n) <=> s \in Seq(S) /\ Len(s) <= n
<1>1. ASSUME s \in SeqOf(S, n) PROVE s \in Seq(S) /\ Len(s) <= n
  <2>1. PICK m \in 0..n : s \in [1..m -> S]
    BY <1>1 DEF SeqOf
  <2> QED BY <2>1
<1>2. ASSUME s \in Seq(S), Len(s) <= n PROVE s \in SeqOf(S, n)
  <2>1. Len(s) \in 0..n /\ s \in [1..Len(s) -> S]
    BY <1>2
  <2> QED BY <2>1 DEF SeqOf
<1> QED BY <1>1, <1>2

\* The items behind the servers of the API are the same if no item comes first.
LEMMA APIItemsStep ==
  ASSUME TypeOK, UNCHANGED file, next' = next + 1
  PROVE  APIItems' = IF IsFirst(next) /\ config[next].key = "distSessionAPI"
                     THEN APIItems \cup {next} ELSE APIItems
<1>1. next \in Nat /\ next >= 1 /\ config' = config
  BY SectionType DEF file, TypeOK
<1>2. \A k : k \in 1..next' - 1 <=> k \in 1..next - 1 \/ k = next
  BY <1>1
<1>3. \A k : IsFirst(k)' <=> IsFirst(k)
  BY SameItems
<1>4. \A k : k \in APIItems' <=> (k \in 1..next' - 1 /\ IsFirst(k) /\ config[k].key = "distSessionAPI")
  BY <1>1, <1>3 DEF APIItems
<1> QED BY <1>2, <1>4 DEF APIItems

LEMMA APIServersStep ==
  ASSUME TypeOK, Serving, APIServersInOrder, [Next]_vars
  PROVE  APIServersInOrder'
<1>1. PICK items \in SeqOf(APIItems, next - 1) : Behind(items)
  BY DEF APIServersInOrder
<1>2. /\ next \in Nat /\ next - 1 \in Nat /\ APIItems \subseteq 1..next - 1
      /\ items \in Seq(APIItems) /\ Len(items) <= next - 1 /\ Len(items) \in Nat
      /\ \A n \in 1..Len(items) : items[n] \in APIItems
  BY <1>1, SectionType, SeqOfIsSeq DEF APIItems
<1>3. "distSessionAPI" \in ServerKey
  BY DEF ServerKey
<1>4. ASSUME UNCHANGED file, APIItems' = APIItems, next' \in {next, next + 1},
             servers'["distSessionAPI"] = servers["distSessionAPI"]
      PROVE  APIServersInOrder'
  <2>1. items \in SeqOf(APIItems', next' - 1)
    BY <1>2, <1>4, SeqOfIsSeq
  <2>2. Behind(items)'
    BY <1>1, <1>4, SameItems DEF Behind, InOrder
  <2> QED BY <2>1, <2>2 DEF APIServersInOrder
<1>5. CASE Adds /\ config[next].key = "distSessionAPI"
  <2>0. PICK more : more = Append(items, next)
    OBVIOUS
  <2>1. /\ next' = next + 1 /\ UNCHANGED file /\ APIItems' = APIItems \cup {next} /\ next' - 1 = next
    BY <1>2, <1>5, APIItemsStep DEF Adds
  <2>2. /\ more \in Seq(APIItems') /\ Len(more) = Len(items) + 1
        /\ DOMAIN more = 1..Len(items) + 1 /\ more[Len(items) + 1] = next
        /\ \A n \in 1..Len(items) : more[n] = items[n]
    <3>1. items \in Seq(APIItems \cup {next})
      BY <1>2
    <3> QED BY <1>2, <2>0, <2>1, <3>1
  <2>3. more \in SeqOf(APIItems', next' - 1)
    BY <1>2, <2>1, <2>2, SeqOfIsSeq
  <2>4. InOrder(more)
    <3> SUFFICES ASSUME NEW m \in 1..Len(items) + 1, NEW n \in 1..Len(items) + 1, m < n
                 PROVE  more[m] < more[n]
      BY <2>2 DEF InOrder
    <3>0. m \in 1..Len(items)
      BY <1>2
    <3>1. m \in 1..Len(items) /\ more[m] = items[m] /\ items[m] \in 1..next - 1
      BY <1>2, <2>2, <3>0
    <3>2. CASE n = Len(items) + 1
      BY <1>2, <2>2, <3>1, <3>2
    <3>3. CASE n \in 1..Len(items)
      BY <1>1, <1>2, <2>2, <3>1, <3>3 DEF Behind, InOrder
    <3> QED BY <1>2, <3>2, <3>3
  <2>5. APIItems' \subseteq Range(more)
    <3> SUFFICES ASSUME NEW k \in APIItems' PROVE \E n \in DOMAIN more : more[n] = k
      BY DEF Range
    <3>1. CASE k = next
      BY <1>2, <2>2, <3>1
    <3>2. CASE k \in APIItems
      <4>1. PICK n \in DOMAIN items : items[n] = k
        BY <1>1, <3>2 DEF Behind, Range
      <4> QED BY <1>2, <2>2, <4>1
    <3> QED BY <2>1, <3>1, <3>2
  <2>6. servers'["distSessionAPI"] = [n \in DOMAIN more |-> Node4(more[n])]
    <3> DEFINE own == servers["distSessionAPI"]
    <3>1. own \in Seq(Seq(Address)) /\ own = [n \in DOMAIN items |-> Node4(items[n])]
      BY <1>1, <1>3 DEF Behind, TypeOK
    <3>2. DOMAIN own = 1..Len(items) /\ Len(own) = Len(items) /\ \A n \in 1..Len(items) : own[n] = Node4(items[n])
      <4>1. DOMAIN own = 1..Len(items) /\ \A n \in 1..Len(items) : own[n] = Node4(items[n])
        BY <1>2, <3>1
      <4> HIDE DEF own
      <4> QED BY <1>2, <3>1, <4>1
    <3>3. servers'["distSessionAPI"] = Append(own, Node4(next))
      BY <1>3, <1>5 DEF Adds, TypeOK
    <3>4. Node4(next) \in Seq(Address)
      BY <1>3, <1>5, NodeType DEF Adds
    <3> HIDE DEF own
    <3>5. Append(own, Node4(next)) = [n \in 1..Len(items) + 1 |-> IF n = Len(items) + 1 THEN Node4(next) ELSE own[n]]
      BY <1>2, <3>1, <3>2, <3>4
    <3>6. \A n \in 1..Len(items) + 1 :
            Node4(more[n]) = IF n = Len(items) + 1 THEN Node4(next) ELSE own[n]
      BY <1>2, <2>2, <3>2
    <3> QED BY <2>2, <3>3, <3>5, <3>6
  <2>7. Behind(more)'
    <3>1. \A k : Node4(k)' = Node4(k)
      BY <2>1, SameItems
    <3> QED BY <2>4, <2>5, <2>6, <3>1 DEF Behind, InOrder
  <2> QED BY <2>3, <2>7 DEF APIServersInOrder
<1>6. CASE Adds /\ config[next].key # "distSessionAPI"
  <2>1. UNCHANGED file /\ next' = next + 1 /\ APIItems' = APIItems
    BY <1>6, APIItemsStep DEF Adds
  <2>2. servers'["distSessionAPI"] = servers["distSessionAPI"]
    BY <1>3, <1>6, AddedServer
  <2> QED BY <1>4, <2>1, <2>2
<1>7. CASE Skips
  <2>1. UNCHANGED <<file, servers>> /\ next' = next + 1 /\ APIItems' = APIItems
    BY <1>7, APIItemsStep DEF Skips
  <2> QED BY <1>4, <2>1
<1>8. CASE Stays
  <2>1. UNCHANGED <<file, next, servers>> /\ UNCHANGED config
    BY <1>8 DEF Stays, file
  <2>2. APIItems' = APIItems
    BY <2>1, SameItems DEF APIItems
  <2> QED BY <1>4, <2>1, <2>2
<1> QED BY <1>5, <1>6, <1>7, <1>8, ServersStep DEF Serving

LEMMA AnnouncesStep ==
  ASSUME TypeOK, Serving, AnnouncesServers, [Next]_vars
  PROVE  AnnouncesServers'
<1>1. CASE Adds \/ Skips
  BY <1>1 DEF Adds, Skips, AnnouncesServers
<1>2. CASE Stays
  <2>1. CASE SetNFService
    BY <2>1 DEF SetNFService, AnnouncesServers, DistributionSessionServerAddress, AddAddressesToNFService
  <2>2. CASE StartServers
    BY <2>2 DEF StartServers, Ends, AnnouncesServers, DistributionSessionServerAddress, AddAddressesToNFService
  <2>3. CASE ParseSBI \/ UseMissingNode \/ Unresolved \/ EmptyCacheControl \/ RefuseSoftLimit \/ EndOfSection
    BY <2>3 DEF ParseSBI, UseMissingNode, Unresolved, EmptyCacheControl, RefuseSoftLimit, EndOfSection,
                Ends, AnnouncesServers
  <2>4. CASE UNCHANGED vars
    BY <2>4 DEF vars, AnnouncesServers, DistributionSessionServerAddress, AddAddressesToNFService
  <2>5. CASE ReadServers \/ ReadCacheControl \/ ReadSoftLimit
    BY <2>5 DEF ReadServers, ReadCacheControl, ReadSoftLimit, Reads, Reading, Proceed, AnnouncesServers
  <2> QED BY <2>1, <2>2, <2>3, <2>4, <2>5 DEF Next
<1> QED BY <1>1, <1>2, ServersStep DEF Serving

LEMMA InvInit == Init => Inv
<1> SUFFICES ASSUME Init PROVE Inv
  OBVIOUS
<1>1. /\ next = 1 /\ servers = [k \in ServerKey |-> <<>>] /\ announced = <<>> /\ status = "reading"
      /\ config \in SeqOf(Item, MaxItems) /\ noIPv4 \in BOOLEAN /\ noIPv6 \in BOOLEAN
  BY DEF Init
<1>2. config \in Seq(Item) /\ Len(config) \in Nat
  BY <1>1, SeqOfIsSeq, MaxAssumption
<1>3. TypeOK
  BY <1>1, <1>2, MaxAssumption DEF TypeOK, Status
<1>4. 1..next - 1 = {}
  BY <1>1
<1>5. \A key \in ServerKey : DOMAIN servers[key] = {}
  BY <1>1
<1>6. Serving
  BY <1>4, <1>5 DEF Serving, Found, NoneTwice, FirstHasServer, Named
<1>7. Behind(<<>>)
  BY <1>1, <1>4 DEF Behind, InOrder, APIItems, ServerKey
<1>8. <<>> \in SeqOf(APIItems, next - 1)
  <2>1. next - 1 \in Nat /\ <<>> \in Seq(APIItems) /\ Len(<<>>) <= next - 1
    BY <1>1
  <2> QED BY <2>1, SeqOfIsSeq
<1> QED BY <1>1, <1>3, <1>6, <1>7, <1>8 DEF Inv, APIServersInOrder, AnnouncesServers

LEMMA Invariant == Spec => []Inv
<1>1. Inv /\ [Next]_vars => Inv'
  BY TypeStep, ServingStep, APIServersStep, AnnouncesStep DEF Inv, Serving
<1> QED BY <1>1, InvInit, PTL DEF Spec

-----------------------------------------------------------------------------
(* What it shows.                                                          *)

\* Reading and announcing keep their types: the NF service never has more
\* addresses than it has room for (Open5GSNetworkFunction.cc:337).
THEOREM TypeCorrect == Spec => []TypeOK
<1>1. Inv => TypeOK
  BY DEF Inv
<1> QED BY <1>1, Invariant, PTL

\* An address has one server, of the kind of the first item that names it, and
\* there is no server that no item names (Context.cc:278-298, 341-353).
THEOREM FirstServes == Spec => []FirstItemServes
<1>1. ASSUME Inv PROVE FirstItemServes
  <2>1. ASSUME NEW k \in 1..next - 1, IsFirst(k), NEW key \in ServerKey
        PROVE  LET serving == {n \in DOMAIN servers[key] : servers[key][n][1] = Node4(k)[1]}
               IN IF key = config[k].key THEN \E n \in serving : serving = {n} ELSE serving = {}
    <3>1. config[k].key \in ServerKey
      BY <2>1 DEF IsFirst, HasAddress
    <3>2. PICK n \in DOMAIN servers[config[k].key] : servers[config[k].key][n][1] = Node4(k)[1]
      BY <1>1, <2>1 DEF Inv, Serving, FirstHasServer, ServesAddress
    <3>3. \A m \in DOMAIN servers[key] :
            servers[key][m][1] = Node4(k)[1] => key = config[k].key /\ m = n
      BY <1>1, <3>1, <3>2 DEF Inv, Serving, NoneTwice
    <3> QED BY <3>2, <3>3
  <2> QED BY <1>1, <2>1 DEF Inv, Serving, Named, ServesAddress, FirstItemServes
<1>2. Inv => FirstItemServes
  BY <1>1
<1> QED BY <1>2, Invariant, PTL

\* The NF service announces the addresses of the items that the distribution
\* session API gets its servers from, in the order of the file and up to the limit
\* (Open5GSNetworkFunction.cc:330-364).
THEOREM AnnouncesItsOwn == Spec => []AnnouncedAsConfigured
<1>1. ASSUME Inv, status \in {"announced", "started"} PROVE AnnouncedAsConfigured
  <2>1. PICK items \in SeqOf(APIItems, next - 1) : Behind(items)
    BY <1>1 DEF Inv, APIServersInOrder
  <2> DEFINE nodes == [n \in DOMAIN items |-> Node4(items[n])]
             addresses == FlattenSeq(nodes)
             room == IF Len(addresses) < MaxAddresses THEN Len(addresses) ELSE MaxAddresses
  <2>2. nodes = servers["distSessionAPI"] /\ nodes \in Seq(Seq(Address))
    BY <1>1, <2>1 DEF Behind, Inv, TypeOK, ServerKey
  <2>3. addresses \in Seq(Address)
    <3> HIDE DEF nodes
    <3> QED BY <2>2, FlattenSeqType
  <2>4. announced = SubSeq(addresses, 1, room)
    <3> HIDE DEF nodes
    <3> QED BY <1>1, <2>2 DEF Inv, AnnouncesServers, AddAddressesToNFService, DistributionSessionServerAddress
  <2> HIDE DEF addresses
  <2>5. /\ Len(addresses) \in Nat /\ room \in 0..Len(addresses)
        /\ room < MaxAddresses => room = Len(addresses)
    BY <2>3, MaxAssumption
  <2> HIDE DEF room
  <2>6. Len(announced) = room /\ announced \in Seq(Address)
    BY <2>3, <2>4, <2>5
  <2>7. SubSeq(announced, 1, room) = announced
    BY <2>5, <2>6
  <2>8. IsPrefix(announced, addresses)
    BY <2>4, <2>5, <2>6, <2>7 DEF IsPrefix
  <2>9. Len(announced) < MaxAddresses => announced = addresses
    <3>1. SubSeq(addresses, 1, Len(addresses)) = addresses
      BY <2>3
    <3> QED BY <2>4, <2>5, <2>6, <3>1
  <2> QED BY <2>1, <2>8, <2>9 DEF AnnouncedAsConfigured, Behind, addresses
<1>2. Inv => AnnouncedAsConfigured
  BY <1>1 DEF AnnouncedAsConfigured
<1> QED BY <1>2, Invariant, PTL
=============================================================================
