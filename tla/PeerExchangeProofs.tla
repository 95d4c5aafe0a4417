------------------------- MODULE PeerExchangeProofs -------------------------
(***************************************************************************)
(* What TLAPS proves of PeerExchange for every set of nodes, every boot    *)
(* configuration, every dial plan and every bound: the type invariant,     *)
(* that no node is told of itself or talks to itself, and that every       *)
(* address a node holds or is sent for a peer leads to that peer.  The     *)
(* three are proved together: GoodTable, GoodLinks and GoodMsgs are the    *)
(* conjuncts of one inductive invariant.                                   *)
(***************************************************************************)
EXTENDS PeerExchange, SequenceTheorems, FiniteSetTheorems, TLAPS

\* The contents of a record or of an Identify: addresses lead to their peer.
GoodRecord(rec) ==
  IsRecord(rec) /\ \A p \in DOMAIN rec : \A a \in rec[p] : a.peer = p

\* A message between two nodes that does not name its receiver; an Identify
\* is about its sender.
GoodMsg(m) ==
  /\ IsMsg(m) /\ GoodRecord(m.nodes)
  /\ m.from # m.to /\ m.to \notin DOMAIN m.nodes
  /\ m.ty = "Identify" => m.from \in DOMAIN m.nodes

GoodMsgs(B) == IsABag(B) /\ \A m \in BagToSet(B) : GoodMsg(m)

\* A node's entry for itself is empty, the others lead to their peers.
GoodTable(t) ==
  /\ t \in [Node -> [Node -> SUBSET Addr]]
  /\ \A n, p \in Node : \A a \in t[n][p] : a.peer = p /\ p # n

\* No node has a connection with itself.
GoodLinks(l) ==
  /\ l \in Seq(Link) /\ Len(l) <= MaxLinks
  /\ \A k \in DOMAIN l : l[k].addr.peer # l[k].dialer

IndInv ==
  /\ status \in [Node -> Status]
  /\ GoodTable(table)
  /\ requests \in [Node -> SUBSET Node]
  /\ rendezvous \in [Node -> SUBSET {"discover", "register"}]
  /\ GoodLinks(links)
  /\ GoodMsgs(msgs)
  /\ stimuli \in 0..MaxStimuli

-----------------------------------------------------------------------------
(* Bags of messages *)

LEMMA BagUnionGood ==
  ASSUME NEW B, NEW C, GoodMsgs(B), GoodMsgs(C)
  PROVE  GoodMsgs(B (+) C)
<1>1. IsABag(B (+) C)
  BY DEF GoodMsgs, IsABag, (+)
<1>2. BagToSet(B (+) C) = BagToSet(B) \cup BagToSet(C)
  BY DEF BagToSet, (+)
<1> QED BY <1>1, <1>2 DEF GoodMsgs

LEMMA BagDifferenceGood ==
  ASSUME NEW B, NEW C, GoodMsgs(B), IsABag(C)
  PROVE  GoodMsgs(B (-) C)
<1>1. IsABag(B (-) C)
  BY DEF GoodMsgs, IsABag, (-)
<1>2. BagToSet(B (-) C) \subseteq BagToSet(B)
  BY DEF BagToSet, (-)
<1> QED BY <1>1, <1>2 DEF GoodMsgs

LEMMA BagRestrictGood ==
  ASSUME NEW B, NEW S, GoodMsgs(B), S \subseteq DOMAIN B
  PROVE  GoodMsgs([m \in S |-> B[m]])
BY DEF GoodMsgs, IsABag, BagToSet

LEMMA OnlyGood ==
  ASSUME NEW m, GoodMsg(m)
  PROVE  GoodMsgs(Only(m))
BY DEF GoodMsgs, IsABag, BagToSet, SetToBag, Only

LEMMA OnlyBag == \A m : IsABag(Only(m))
BY DEF IsABag, SetToBag, Only

LEMMA EmptyGood == GoodMsgs(EmptyBag)
BY DEF GoodMsgs, IsABag, BagToSet, SetToBag, EmptyBag

LEMMA ConsumeGood ==
  ASSUME NEW m, NEW sent, GoodMsgs(msgs), GoodMsgs(sent), Consume(m, sent)
  PROVE  GoodMsgs(msgs')
BY BagUnionGood, BagDifferenceGood, OnlyBag DEF Consume

LEMMA MoveGood ==
  ASSUME NEW m, NEW m2, GoodMsgs(msgs), GoodMsg(m2), Move(m, m2)
  PROVE  GoodMsgs(msgs')
BY BagUnionGood, BagDifferenceGood, OnlyBag, OnlyGood DEF Move

LEMMA MessageGood ==
  ASSUME NEW at \in {"wire", "inbox"}, NEW k \in 0..MaxLinks,
         NEW ty \in Request \cup Response \cup {"Identify"},
         NEW n \in Node, NEW p \in Node, n # p,
         NEW rec, GoodRecord(rec), p \notin DOMAIN rec,
         ty = "Identify" => n \in DOMAIN rec
  PROVE  GoodMsg(Message(at, k, ty, n, p, rec))
BY DEF GoodMsg, IsMsg, GoodRecord, IsRecord, Message

LEMMA SendGood ==
  ASSUME NEW ty \in Request, NEW n \in Node, NEW p \in Node, n # p,
         NEW rec, GoodRecord(rec), p \notin DOMAIN rec
  PROVE  GoodMsg(Send(n, p, ty, rec))
<1>1. 0 \in 0..MaxLinks
  BY BoundAssumption
<1> QED BY <1>1, MessageGood DEF Send, Request

LEMMA NoNodesGood == GoodRecord(NoNodes) /\ DOMAIN NoNodes = {}
BY DEF GoodRecord, IsRecord, NoNodes

-----------------------------------------------------------------------------
(* Addresses, tables, records and links *)

LEMMA AddrFinite == IsFiniteSet(Addr)
<1> DEFINE U == Node \X (1..2)
           T == Node \X U
           g(x) == [peer |-> x[1], via |-> x[2][1], wan |-> x[2][2] = 1]
           f == [x \in T |-> g(x)]
<1>1. IsFiniteSet(T)
  <2>1. IsFiniteSet(1..2)
    BY FS_Interval, 1 \in Int, 2 \in Int
  <2>2. IsFiniteSet(U)
    BY <2>1, FS_Product, NodeAssumption
  <2> HIDE DEF U
  <2> QED BY <2>2, FS_Product, NodeAssumption
<1>2. f \in [T -> Addr]
  BY DEF Addr
<1>3. ASSUME NEW a \in Addr
      PROVE  \E x \in T : f[x] = a
  <2>1. PICK n \in Node, p \in Node, b \in BOOLEAN : a = [peer |-> n, via |-> p, wan |-> b]
    BY DEF Addr
  <2> DEFINE x == <<n, <<p, IF b THEN 1 ELSE 2>>>>
  <2>2. x \in T
    OBVIOUS
  <2>3. (x[2][2] = 1) = b /\ x[1] = n /\ x[2][1] = p
    OBVIOUS
  <2> HIDE DEF x
  <2>4. g(x) = a
    BY <2>1, <2>3
  <2> QED BY <2>2, <2>4
<1>4. f \in Surjection(T, Addr)
  BY <1>2, <1>3 DEF Surjection
<1> QED BY <1>1, <1>4, FS_Surjection

LEMMA RelayedAddr ==
  ASSUME NEW n \in Node, NEW p \in Node, BootNodes[n] # <<>>
  PROVE  get_relayed_addr(n, p) \in Addr /\ get_relayed_addr(n, p).peer = p
<1>1. BootNodes[n] \in Seq({a \in Addr : a.via = a.peer}) /\ Len(BootNodes[n]) >= 1
  BY BootNodesAssumption, EmptySeq
<1>2. BootNodes[n][1] \in Addr
  BY <1>1, ElementOfSeq
<1> QED BY <1>2 DEF get_relayed_addr, Addr

LEMMA AddAddressGood ==
  ASSUME NEW t, GoodTable(t), NEW n \in Node, NEW p \in Node,
         NEW A \in SUBSET Addr, \A a \in A : a.peer = p
  PROVE  GoodTable(add_address(t, n, p, A))
<1>1. CASE p = n
  BY <1>1 DEF add_address
<1>2. CASE p # n
  BY <1>2 DEF add_address, GoodTable
<1> QED BY <1>1, <1>2

LEMMA RemovePeerGood ==
  ASSUME NEW t, GoodTable(t), NEW n \in Node, NEW p \in Node
  PROVE  GoodTable(remove_peer(t, n, p))
BY DEF remove_peer, GoodTable

LEMMA NetworkRecordGood ==
  ASSUME NEW t, GoodTable(t), NEW n \in Node, NEW r \in Node
  PROVE  /\ GoodRecord(get_network_record(t, n, r))
         /\ DOMAIN get_network_record(t, n, r) \subseteq Node \ {n, r}
BY DEF GoodTable, GoodRecord, IsRecord, get_network_record, get_external_addrs

LEMMA LoadedTableGood ==
  ASSUME GoodTable(table), NEW n \in Node, NEW rec, GoodRecord(rec),
         ~ RelayMissing(n, rec)
  PROVE  GoodTable(loaded_table(n, rec))
<1> DEFINE new(p) == IF n \in RelayDial THEN {get_relayed_addr(n, p)} ELSE rec[p]
           row == [p \in Node |-> IF p \notin DOMAIN rec \ {n} \/ rec[p] = {}
                                  THEN table[n][p] ELSE table[n][p] \cup new(p)]
<1>1. ASSUME NEW p \in Node, p \in DOMAIN rec \ {n}, rec[p] # {}
      PROVE  new(p) \subseteq Addr /\ \A a \in new(p) : a.peer = p
  <2>1. CASE n \in RelayDial
    BY <1>1, <2>1, RelayedAddr DEF RelayMissing
  <2>2. CASE n \notin RelayDial
    BY <1>1, <2>2 DEF GoodRecord, IsRecord
  <2> QED BY <2>1, <2>2
<1>2. row \in [Node -> SUBSET Addr] /\ \A p \in Node : \A a \in row[p] : a.peer = p /\ p # n
  BY <1>1 DEF GoodTable
<1>3. loaded_table(n, rec) = [table EXCEPT ![n] = row]
  BY DEF loaded_table, GoodTable
<1> QED BY <1>2, <1>3 DEF GoodTable

LEMMA LoadedPingsGood ==
  ASSUME NEW n \in Node, NEW rec, GoodRecord(rec), n \notin DOMAIN rec
  PROVE  GoodMsgs(loaded_pings(n, rec))
<1> DEFINE S == {Send(n, p, "Ping", NoNodes) : p \in {q \in DOMAIN rec : rec[q] # {}}}
<1>1. ASSUME NEW m \in S
      PROVE  GoodMsg(m) /\ Cardinality(rec[m.to]) \in Nat \ {0}
  <2>1. PICK p \in DOMAIN rec : m = Send(n, p, "Ping", NoNodes) /\ rec[p] # {}
    BY <1>1
  <2>2. p \in Node /\ rec[p] \subseteq Addr
    BY DEF GoodRecord, IsRecord
  <2>3. IsFiniteSet(rec[p])
    BY <2>2, AddrFinite, FS_Subset
  <2>4. Cardinality(rec[p]) \in Nat \ {0}
    BY <2>1, <2>3, FS_CardinalityType, FS_EmptySet
  <2>5. GoodMsg(m)
    BY <2>1, <2>2, SendGood, NoNodesGood DEF Request
  <2> QED BY <2>1, <2>4, <2>5 DEF Send, Message
<1> QED BY <1>1 DEF loaded_pings, GoodMsgs, IsABag, BagToSet

LEMMA IntroductionsGood ==
  ASSUME NEW n \in Node, NEW rec, GoodRecord(rec), n \notin DOMAIN rec,
         NEW first \in DOMAIN rec, NEW second \in DOMAIN rec, first # second,
         NEW copies \in Nat \ {0}
  PROVE  GoodMsgs(introductions(n, first, second, rec, copies))
<1> DEFINE told(p) == IF p = first THEN second ELSE first
           S == {Send(n, p, "SendNodeRecord", [q \in {told(p)} |-> rec[q]]) : p \in DOMAIN rec}
<1>1. ASSUME NEW p \in DOMAIN rec
      PROVE  GoodMsg(Send(n, p, "SendNodeRecord", [q \in {told(p)} |-> rec[q]]))
  <2>1. p \in Node /\ p # n /\ told(p) \in DOMAIN rec /\ told(p) # p
    BY DEF GoodRecord, IsRecord
  <2>2. GoodRecord([q \in {told(p)} |-> rec[q]])
    BY <2>1 DEF GoodRecord, IsRecord
  <2> HIDE DEF told
  <2> QED BY <2>1, <2>2, SendGood DEF Request
<1>2. \A m \in S : GoodMsg(m)
  BY <1>1
<1>3. introductions(n, first, second, rec, copies) = [m \in S |-> copies]
  BY DEF introductions
<1> HIDE DEF S
<1> QED BY <1>2, <1>3 DEF GoodMsgs, IsABag, BagToSet

LEMMA LinksRemapped ==
  ASSUME NEW l, GoodLinks(links), l = [k \in DOMAIN links |-> l[k]],
         \A k \in DOMAIN links : /\ l[k] \in Link
                                 /\ l[k].addr = links[k].addr
                                 /\ l[k].dialer = links[k].dialer
  PROVE  GoodLinks(l)
<1>1. DOMAIN links = 1..Len(links) /\ Len(links) \in Nat
  BY LenProperties DEF GoodLinks
<1>2. l \in [1..Len(links) -> Link]
  BY <1>1
<1>3. l \in Seq(Link)
  BY <1>1, <1>2, SeqDef
<1>4. Len(l) = Len(links)
  BY <1>1, <1>2, <1>3, LenProperties
<1> QED BY <1>3, <1>4 DEF GoodLinks

LEMMA LinkFacts ==
  ASSUME GoodLinks(links), NEW k \in DOMAIN links
  PROVE  /\ links[k] \in Link
         /\ k \in 1..MaxLinks
         /\ links[k].dialer \in Node /\ links[k].addr.peer \in Node
         /\ \A n \in ends(k) : /\ n \in Node /\ other(k, n) \in Node
                               /\ other(k, n) # n
<1>1. links[k] \in Link /\ k \in 1..Len(links) /\ Len(links) \in Nat
  BY LenProperties, ElementOfSeq DEF GoodLinks
<1> QED BY <1>1, BoundAssumption DEF GoodLinks, Link, Addr, ends, other

-----------------------------------------------------------------------------
(* Every step keeps the invariant *)

LEMMA InitGood == Init => IndInv
<1> SUFFICES ASSUME Init PROVE IndInv
  OBVIOUS
<1>1. GoodTable(table)
  BY AddressAssumption DEF Init, GoodTable
<1>2. GoodLinks(links)
  BY EmptySeq, BoundAssumption DEF Init, GoodLinks
<1>3. GoodMsgs(msgs)
  BY EmptyGood DEF Init
<1> QED BY <1>1, <1>2, <1>3, BoundAssumption DEF Init, IndInv, Status

LEMMA StimulusGood ==
  ASSUME IndInv, NEW kind, NEW n, Stimulus(kind, n)
  PROVE  stimuli' \in 0..MaxStimuli
BY BoundAssumption DEF Stimulus, IndInv

LEMMA MsgFacts ==
  ASSUME IndInv, NEW m \in BagToSet(msgs)
  PROVE  /\ GoodMsg(m) /\ GoodRecord(m.nodes)
         /\ m.from \in Node /\ m.to \in Node /\ m.from # m.to
         /\ m.to \notin DOMAIN m.nodes /\ m.link \in 0..MaxLinks
BY DEF IndInv, GoodMsgs, GoodMsg, IsMsg

LEMMA DialGood ==
  ASSUME IndInv, NEW n \in Node, NEW a \in Addr, Dial(n, a)
  PROVE  IndInv'
<1> DEFINE l == [dialer |-> n, addr |-> a, up |-> TRUE,
                 kad |-> FALSE, seen |-> {}, closed |-> {}, told |-> {}]
<1>1. l \in Link
  BY DEF Link
<1>2. links \in Seq(Link) /\ Len(links) < MaxLinks /\ links' = Append(links, l) /\ a.peer # n
  BY DEF IndInv, GoodLinks, Dial
<1> HIDE DEF l
<1>3. /\ links' \in Seq(Link) /\ Len(links') = Len(links) + 1
      /\ \A k \in 1..Len(links) : links'[k] = links[k]
      /\ links'[Len(links) + 1] = l
      /\ DOMAIN links = 1..Len(links) /\ DOMAIN links' = 1..Len(links')
      /\ Len(links) \in Nat
  BY <1>1, <1>2, AppendProperties, LenProperties
<1>4. \A k \in DOMAIN links' : links'[k].addr.peer # links'[k].dialer
  <2> SUFFICES ASSUME NEW k \in DOMAIN links'
               PROVE  links'[k].addr.peer # links'[k].dialer
    OBVIOUS
  <2>1. CASE k \in 1..Len(links)
    BY <1>3, <2>1 DEF IndInv, GoodLinks
  <2>2. CASE k = Len(links) + 1
    BY <1>2, <1>3, <2>2 DEF l
  <2> QED BY <1>3, <2>1, <2>2
<1>5. GoodLinks(links')
  BY <1>2, <1>3, <1>4, BoundAssumption DEF GoodLinks
<1>6. stimuli' \in 0..MaxStimuli
  BY StimulusGood DEF Dial, IndInv
<1> QED BY <1>5, <1>6 DEF IndInv, Dial

LEMMA DialFailsGood ==
  ASSUME IndInv, NEW n \in Node, NEW p \in Node, DialFails(n, p)
  PROVE  IndInv'
<1>1. PICK A : table' = [table EXCEPT ![n][p] = @ \ A]
  BY DEF DialFails
<1>2. GoodTable(table')
  BY <1>1 DEF IndInv, GoodTable
<1> QED BY <1>2 DEF IndInv, DialFails

LEMMA BrokenGood ==
  ASSUME IndInv, NEW L, links' = Broken(L)
  PROVE  GoodLinks(links')
<1>1. \A k \in DOMAIN links : links[k] \in Link
  BY LinkFacts DEF IndInv
<1> QED BY <1>1, LinksRemapped DEF IndInv, Broken, Link

LEMMA SurvivingGood ==
  ASSUME IndInv, NEW L
  PROVE  GoodMsgs(Surviving(L)) /\ DOMAIN Surviving(L) \subseteq DOMAIN msgs
<1> DEFINE S == DOMAIN Surviving(L)
<1>1. S \subseteq DOMAIN msgs /\ Surviving(L) = [m \in S |-> msgs[m]]
  BY DEF Surviving, BagToSet
<1> HIDE DEF S
<1> QED BY <1>1, BagRestrictGood DEF IndInv, S

LEMMA DropGood ==
  ASSUME IndInv, NEW k \in DOMAIN links, Drop(k)
  PROVE  IndInv'
<1>1. GoodLinks(links')
  BY BrokenGood DEF Drop
<1>2. GoodMsgs(msgs')
  BY SurvivingGood DEF Drop
<1>3. stimuli' \in 0..MaxStimuli
  BY StimulusGood DEF Drop
<1> QED BY <1>1, <1>2, <1>3 DEF Drop, IndInv

LEMMA SetLink ==
  ASSUME IndInv, NEW k \in DOMAIN links, NEW f,
         links' = [links EXCEPT ![k] = f], f \in Link,
         f.addr = links[k].addr, f.dialer = links[k].dialer
  PROVE  GoodLinks(links')
<1>1. \A j \in DOMAIN links : links[j] \in Link
  BY LinkFacts DEF IndInv
<1> QED BY <1>1, LinksRemapped DEF IndInv

LEMMA ConnectionEstablishedGood ==
  ASSUME IndInv, NEW n \in Node, NEW k \in DOMAIN links,
         ConnectionEstablished(n, k)
  PROVE  IndInv'
<1> USE DEF ConnectionEstablished
<1>1. links[k] \in Link /\ n \in ends(k) /\ other(k, n) \in Node
  BY LinkFacts DEF IndInv
<1>2. GoodLinks(links')
  <2> DEFINE f == [links[k] EXCEPT !.seen = @ \cup {n}]
  <2>1. f \in Link /\ f.addr = links[k].addr /\ f.dialer = links[k].dialer
    BY <1>1 DEF Link
  <2>2. links' = [links EXCEPT ![k] = f]
    OBVIOUS
  <2> QED BY <2>1, <2>2, SetLink
<1>3. GoodTable(table')
  <2> DEFINE p == other(k, n)
  <2>1. /\ {SendBack[p]} \in SUBSET Addr /\ \A a \in {SendBack[p]} : a.peer = p
        /\ p \in Node
    BY <1>1, AddressAssumption
  <2> HIDE DEF p
  <2>2. GoodTable(table) /\ GoodTable(add_address(table, n, p, {SendBack[p]}))
    BY <2>1, AddAddressGood DEF IndInv
  <2> QED BY <2>2 DEF p
<1>4. rendezvous' \in [Node -> SUBSET {"discover", "register"}]
  BY DEF IndInv
<1> QED BY <1>2, <1>3, <1>4 DEF IndInv

LEMMA KademliaConfirmedGood ==
  ASSUME IndInv, NEW k \in DOMAIN links, KademliaConfirmed(k)
  PROVE  IndInv'
<1> DEFINE n == links[k].dialer
<1> USE DEF KademliaConfirmed
<1>1. links[k] \in Link /\ n \in ends(k) /\ other(k, n) = links[k].addr.peer
      /\ n \in Node /\ links[k].addr.peer \in Node /\ links[k].addr \in Addr
  BY LinkFacts DEF IndInv, ends, other, Link
<1>2. GoodLinks(links')
  <2> DEFINE f == [links[k] EXCEPT !.kad = TRUE]
  <2>1. f \in Link /\ f.addr = links[k].addr /\ f.dialer = links[k].dialer
    BY <1>1 DEF Link
  <2>2. links' = [links EXCEPT ![k] = f]
    OBVIOUS
  <2> QED BY <2>1, <2>2, SetLink
<1>3. GoodTable(table')
  BY <1>1, AddAddressGood DEF IndInv
<1> QED BY <1>2, <1>3 DEF IndInv

LEMMA ConnectionClosedGood ==
  ASSUME IndInv, NEW n \in Node, NEW k \in DOMAIN links, ConnectionClosed(n, k)
  PROVE  IndInv'
<1> USE DEF ConnectionClosed
<1>1. links[k] \in Link /\ n \in ends(k) /\ other(k, n) \in Node
  BY LinkFacts DEF IndInv
<1>2. GoodLinks(links')
  <2> DEFINE f == [links[k] EXCEPT !.closed = @ \cup {n}]
  <2>1. f \in Link /\ f.addr = links[k].addr /\ f.dialer = links[k].dialer
    BY <1>1 DEF Link
  <2>2. links' = [links EXCEPT ![k] = f]
    OBVIOUS
  <2> QED BY <2>1, <2>2, SetLink
<1>3. GoodTable(table')
  BY <1>1, RemovePeerGood DEF IndInv
<1> QED BY <1>2, <1>3 DEF IndInv

LEMMA ClosedLink ==
  ASSUME NEW l \in Link, NEW n \in Node
  PROVE  LET c == [l EXCEPT !.seen = @ \cup {n}, !.closed = @ \cup {n}]
         IN  c \in Link /\ c.addr = l.addr /\ c.dialer = l.dialer
BY DEF Link

LEMMA EndGood ==
  ASSUME IndInv, NEW n \in Node, NEW why \in Status, End(n, why)
  PROVE  /\ status' \in [Node -> Status]
         /\ GoodTable(table')
         /\ requests' \in [Node -> SUBSET Node]
         /\ rendezvous' \in [Node -> SUBSET {"discover", "register"}]
         /\ GoodLinks(links')
         /\ GoodMsgs(msgs')
<1> DEFINE L == {k \in DOMAIN links : involves(k, n)}
<1>1. GoodTable(table')
  BY DEF End, IndInv, GoodTable
<1>2. GoodLinks(links')
  <2>1. \A k \in DOMAIN links : links[k] \in Link
    BY LinkFacts DEF IndInv
  <2>2. ASSUME NEW k \in DOMAIN links
        PROVE  /\ Broken(L)[k] \in Link
               /\ Broken(L)[k].addr = links[k].addr
               /\ Broken(L)[k].dialer = links[k].dialer
    BY <2>1 DEF Broken, Link
  <2>3. ASSUME NEW k \in DOMAIN links
        PROVE  /\ links'[k] \in Link
               /\ links'[k].addr = links[k].addr
               /\ links'[k].dialer = links[k].dialer
    <3> DEFINE l == Broken(L)[k]
    <3>1. l \in Link /\ l.addr = links[k].addr /\ l.dialer = links[k].dialer
      BY <2>2
    <3>2. links'[k] = IF n \in ends(k)
                      THEN [l EXCEPT !.seen = @ \cup {n}, !.closed = @ \cup {n}]
                      ELSE l
      BY DEF End
    <3> HIDE DEF l
    <3>4. CASE n \in ends(k)
      BY <3>1, <3>2, <3>4, ClosedLink
    <3>5. CASE n \notin ends(k)
      BY <3>1, <3>2, <3>5
    <3> QED BY <3>4, <3>5
  <2>4. links' = [k \in DOMAIN links |-> links'[k]]
    BY DEF End
  <2> QED BY <2>3, <2>4, LinksRemapped DEF IndInv
<1>3. GoodMsgs(msgs')
  <2> DEFINE S == {x \in DOMAIN Surviving(L) : /\ x.at = "inbox" => x.to # n
                                               /\ x.at = "wire" => x.from # n}
  <2>1. msgs' = [m \in S |-> msgs[m]] /\ S \subseteq DOMAIN Surviving(L)
    BY DEF End
  <2>2. S \subseteq DOMAIN msgs
    BY <2>1, SurvivingGood
  <2> HIDE DEF S
  <2> QED BY <2>1, <2>2, BagRestrictGood DEF IndInv
<1> QED BY <1>1, <1>2, <1>3 DEF End, IndInv

LEMMA StopGood ==
  ASSUME IndInv, NEW n \in Node, Stop(n)
  PROVE  IndInv'
BY EndGood, StimulusGood DEF Stop, Status, IndInv

LEMMA RestartGood ==
  ASSUME IndInv, NEW n \in Node, Restart(n)
  PROVE  IndInv'
<1>1. GoodTable(table')
  <2>1. table' = [table EXCEPT ![n] = Saved[n]]
    BY DEF Restart
  <2>2. /\ Saved[n] \in [Node -> SUBSET Addr]
        /\ \A p \in Node : \A a \in Saved[n][p] : a.peer = p /\ p # n
    BY AddressAssumption
  <2> QED BY <2>1, <2>2 DEF IndInv, GoodTable
<1> QED BY <1>1, StimulusGood DEF Restart, Status, IndInv

LEMMA MovedGood ==
  ASSUME NEW m, GoodMsg(m), NEW at \in {"wire", "inbox"}, NEW k \in 0..MaxLinks
  PROVE  GoodMsg([m EXCEPT !.at = at, !.link = k])
BY DEF GoodMsg, IsMsg

LEMMA DeliverRequestGood ==
  ASSUME IndInv, NEW m \in BagToSet(msgs), NEW k \in DOMAIN links, DeliverRequest(m, k)
  PROVE  IndInv'
<1>1. k \in 0..MaxLinks
  BY LinkFacts, BoundAssumption DEF IndInv
<1>2. GoodMsg([m EXCEPT !.at = "inbox", !.link = k])
  BY <1>1, MsgFacts, MovedGood
<1> QED BY <1>2, MoveGood DEF DeliverRequest, IndInv

LEMMA DeliverResponseGood ==
  ASSUME IndInv, NEW m \in BagToSet(msgs), DeliverResponse(m)
  PROVE  IndInv'
<1>1. 0 \in 0..MaxLinks
  BY BoundAssumption
<1>2. GoodMsg([m EXCEPT !.at = "inbox", !.link = 0])
  BY <1>1, MsgFacts, MovedGood
<1> QED BY <1>2, MoveGood DEF DeliverResponse, IndInv

LEMMA LoseGood ==
  ASSUME IndInv, NEW m \in BagToSet(msgs), Lose(m)
  PROVE  IndInv'
<1>1. GoodMsgs(msgs')
  BY ConsumeGood, EmptyGood DEF Lose, IndInv
<1>2. stimuli' \in 0..MaxStimuli
  BY StimulusGood DEF Lose, IndInv
<1> QED BY <1>1, <1>2 DEF Lose, IndInv

LEMMA InboundTimeoutGood ==
  ASSUME IndInv, NEW m \in BagToSet(msgs), InboundTimeout(m)
  PROVE  IndInv'
<1>1. 0 \in 0..MaxLinks
  BY BoundAssumption
<1>2. GoodMsg([m EXCEPT !.link = 0])
  BY <1>1, MsgFacts DEF GoodMsg, IsMsg
<1> QED BY <1>2, MoveGood, StimulusGood DEF InboundTimeout, IndInv

LEMMA IdentifyArrivesGood ==
  ASSUME IndInv, NEW n \in Node, NEW k \in DOMAIN links, IdentifyArrives(n, k)
  PROVE  IndInv'
<1> DEFINE p == other(k, n)
<1>1. p \in Node /\ p # n
  BY LinkFacts DEF IdentifyArrives, IndInv
<1>2. PICK A \in Advertised[p] :
        msgs' = msgs (+) Only(Message("inbox", 0, "Identify", p, n, [q \in {p} |-> A]))
  BY DEF IdentifyArrives
<1> HIDE DEF p
<1>3. A \in SUBSET Addr /\ \A a \in A : a.peer = p
  BY <1>1, AddressAssumption
<1>4. GoodRecord([q \in {p} |-> A])
  BY <1>1, <1>3 DEF GoodRecord, IsRecord
<1>5. 0 \in 0..MaxLinks
  BY BoundAssumption
<1>6. GoodMsg(Message("inbox", 0, "Identify", p, n, [q \in {p} |-> A]))
  BY <1>1, <1>4, <1>5, MessageGood
<1>7. GoodMsgs(msgs')
  BY <1>2, <1>6, OnlyGood, BagUnionGood DEF IndInv
<1>8. GoodLinks(links')
  <2> DEFINE f == [links[k] EXCEPT !.told = @ \cup {n}]
  <2>1. f \in Link /\ f.addr = links[k].addr /\ f.dialer = links[k].dialer
    BY LinkFacts DEF IndInv, Link
  <2>2. links' = [links EXCEPT ![k] = f]
    BY DEF IdentifyArrives
  <2> QED BY <2>1, <2>2, SetLink
<1>9. stimuli' \in 0..MaxStimuli
  BY StimulusGood DEF IdentifyArrives, IndInv
<1> QED BY <1>7, <1>8, <1>9 DEF IdentifyArrives, IndInv

LEMMA ReplyGood ==
  ASSUME IndInv, NEW m \in BagToSet(msgs), NEW ty \in Response,
         NEW rec, GoodRecord(rec), m.from \notin DOMAIN rec
  PROVE  GoodMsgs(Reply(m, ty, rec))
<1>1. GoodMsg(Message("wire", m.link, ty, m.to, m.from, rec))
  BY MsgFacts, MessageGood DEF Response
<1> QED BY <1>1, OnlyGood DEF Reply

LEMMA HandlePingGood ==
  ASSUME IndInv, NEW n \in Node, NEW m \in BagToSet(msgs), HandlePing(n, m)
  PROVE  IndInv'
<1>1. GoodMsgs(Reply(m, "Pong", NoNodes))
  BY ReplyGood, NoNodesGood DEF Response
<1> QED BY <1>1, ConsumeGood DEF HandlePing, IndInv

LEMMA HandleGetNetworkNodesGood ==
  ASSUME IndInv, NEW n \in Node, NEW m \in BagToSet(msgs),
         HandleGetNetworkNodes(n, m)
  PROVE  IndInv'
<1> DEFINE rec == get_network_record(table, n, m.from)
<1>1. GoodRecord(rec) /\ m.from \notin DOMAIN rec
  BY NetworkRecordGood, MsgFacts DEF IndInv
<1> HIDE DEF rec
<1>2. GoodMsgs(Reply(m, "Record", rec))
  BY <1>1, ReplyGood DEF Response
<1> QED BY <1>2, ConsumeGood DEF HandleGetNetworkNodes, IndInv, rec

LEMMA HandleSendNodeRecordGood ==
  ASSUME IndInv, NEW n \in Node, NEW m \in BagToSet(msgs),
         HandleSendNodeRecord(n, m)
  PROVE  IndInv'
<1>1. n = m.to /\ GoodRecord(m.nodes) /\ n \notin DOMAIN m.nodes
  BY MsgFacts DEF HandleSendNodeRecord, Event
<1>2. GoodTable(table')
  BY <1>1, LoadedTableGood DEF HandleSendNodeRecord, IndInv
<1>3. GoodMsgs(loaded_pings(n, m.nodes)) /\ GoodMsgs(Reply(m, "GotNetworkRecord", NoNodes))
  BY <1>1, LoadedPingsGood, ReplyGood, NoNodesGood DEF Response
<1>4. GoodMsgs(msgs')
  BY <1>3, BagUnionGood, ConsumeGood DEF HandleSendNodeRecord, IndInv
<1> QED BY <1>2, <1>4 DEF HandleSendNodeRecord, IndInv

LEMMA HandleRecordGood ==
  ASSUME IndInv, NEW n \in Node, NEW m \in BagToSet(msgs), HandleRecord(n, m)
  PROVE  IndInv'
<1>1. n = m.to /\ GoodRecord(m.nodes) /\ n \notin DOMAIN m.nodes
  BY MsgFacts DEF HandleRecord, Event
<1>2. GoodTable(table')
  BY <1>1, LoadedTableGood DEF HandleRecord, IndInv
<1>3. GoodMsgs(msgs')
  BY <1>1, LoadedPingsGood, ConsumeGood DEF HandleRecord, IndInv
<1> QED BY <1>2, <1>3 DEF HandleRecord, IndInv

LEMMA HandlePongGood ==
  ASSUME IndInv, NEW n \in Node, NEW m \in BagToSet(msgs), HandlePong(n, m)
  PROVE  IndInv'
BY ConsumeGood, EmptyGood DEF HandlePong, IndInv

LEMMA PanicGood ==
  ASSUME IndInv, NEW n \in Node, NEW m \in BagToSet(msgs),
         ReplyPanic(n, m) \/ RelayPanic(n, m)
  PROVE  IndInv'
<1>1. End(n, "reply_panic") \/ End(n, "relay_panic")
  BY DEF ReplyPanic, RelayPanic
<1>2. stimuli' = stimuli
  BY DEF ReplyPanic, RelayPanic
<1> QED BY <1>1, <1>2, EndGood DEF Status, IndInv

LEMMA HandleIdentifyGood ==
  ASSUME IndInv, NEW n \in Node, NEW m \in BagToSet(msgs), HandleIdentify(n, m)
  PROVE  IndInv'
<1> DEFINE A == m.nodes[m.from]
           B == identified_addrs(n, m.from, A)
           t == add_address(table, n, m.from, B)
           rec == get_network_record(t, n, m.from)
<1>1. /\ n = m.to /\ m.from \in Node /\ m.from # n
      /\ A \in SUBSET Addr /\ \A a \in A : a.peer = m.from
  BY MsgFacts DEF HandleIdentify, Event, GoodMsg, GoodRecord, IsRecord
<1>2. B \in SUBSET Addr /\ \A a \in B : a.peer = m.from
  <2>1. CASE n \in RelayDial \ Server
    <3>1. BootNodes[n] # <<>>
      BY <2>1, BootNodesAssumption
    <3> HIDE DEF A
    <3> QED BY <1>1, <3>1, RelayedAddr DEF identified_addrs
  <2>2. CASE n \notin RelayDial \ Server
    BY <1>1, <2>2 DEF identified_addrs
  <2> QED BY <2>1, <2>2
<1>3. GoodTable(t)
  <2> HIDE DEF B
  <2> QED BY <1>1, <1>2, AddAddressGood DEF IndInv
<1>4. GoodRecord(rec) /\ DOMAIN rec \subseteq Node \ {n}
  <2> HIDE DEF t
  <2> QED BY <1>1, <1>3, NetworkRecordGood
<1>5. table' = t
  BY DEF HandleIdentify
<1>6. GoodMsgs(msgs') /\ requests' \in [Node -> SUBSET Node]
  <2>1. CASE /\ Consume(m, EmptyBag)
             /\ UNCHANGED requests
    BY <2>1, ConsumeGood, EmptyGood DEF IndInv
  <2>2. CASE /\ A # {}
             /\ \E first, second \in DOMAIN rec :
                  /\ first # second
                  /\ Consume(m, introductions(n, first, second, rec, Cardinality(A)))
             /\ requests' = [requests EXCEPT ![n] = @ \cup introduced(rec, m.from)]
    <3>1. Cardinality(A) \in Nat \ {0}
      <4> HIDE DEF A
      <4> QED BY <1>1, <2>2, AddrFinite, FS_Subset, FS_CardinalityType, FS_EmptySet
    <3>2. PICK first \in DOMAIN rec, second \in DOMAIN rec :
            /\ first # second
            /\ Consume(m, introductions(n, first, second, rec, Cardinality(A)))
      BY <2>2
    <3>3. requests' \in [Node -> SUBSET Node]
      <4> HIDE DEF rec
      <4> QED BY <1>4, <2>2 DEF IndInv, introduced
    <3> HIDE DEF rec, A
    <3>4. GoodMsgs(introductions(n, first, second, rec, Cardinality(A)))
      BY <1>4, <3>1, <3>2, IntroductionsGood
    <3> QED BY <3>2, <3>3, <3>4, ConsumeGood DEF IndInv
  <2> QED BY <2>1, <2>2 DEF HandleIdentify
<1>7. rendezvous' \in [Node -> SUBSET {"discover", "register"}]
  BY DEF HandleIdentify, IndInv
<1>8. UNCHANGED <<status, links, stimuli>>
  BY DEF HandleIdentify
<1> HIDE DEF t
<1> QED BY <1>3, <1>5, <1>6, <1>7, <1>8 DEF IndInv

LEMMA IssueGood ==
  ASSUME IndInv, NEW n \in Node, NEW kind, NEW sent, GoodMsgs(sent),
         Issue(kind, n, sent)
  PROVE  IndInv'
BY StimulusGood, BagUnionGood DEF Issue, IndInv

LEMMA AskGood ==
  ASSUME NEW n \in Node, NEW S \in SUBSET (Node \ {n}), NEW ty \in Request
  PROVE  GoodMsgs(SetToBag({Send(n, p, ty, NoNodes) : p \in S}))
<1>1. \A p \in S : GoodMsg(Send(n, p, ty, NoNodes))
  BY SendGood, NoNodesGood
<1> QED BY <1>1 DEF GoodMsgs, IsABag, BagToSet, SetToBag

LEMMA OperatorGood ==
  ASSUME IndInv, NEW n \in Node, Operator(n)
  PROVE  IndInv'
<1>1. ASSUME NEW p \in Node, Ping(n, p) PROVE IndInv'
  BY <1>1, SendGood, NoNodesGood, OnlyGood, IssueGood DEF Ping, Request
<1>2. ASSUME NEW p \in Node, GetNodes(n, p) PROVE IndInv'
  BY <1>2, SendGood, NoNodesGood, OnlyGood, IssueGood DEF GetNodes, Request
<1>3. CASE GetNodesFromBootNodes(n)
  <2>1. boot_ids(n) \subseteq Node \ {n}
    <3>1. BootNodes[n] \in Seq({a \in Addr : a.via = a.peer})
      BY BootNodesAssumption
    <3>2. \A i \in 1..Len(BootNodes[n]) : BootNodes[n][i] \in Addr
      BY <3>1, ElementOfSeq
    <3> QED BY <3>2, BootNodesAssumption DEF boot_ids, Addr
  <2>2. GoodMsgs(SetToBag({Send(n, p, "GetNetworkNodes", NoNodes) : p \in boot_ids(n)}))
    BY <2>1, AskGood DEF Request
  <2> QED BY <1>3, <2>2, IssueGood DEF GetNodesFromBootNodes
<1>4. CASE PingTick(n)
  <2>1. Known(n) \ boot_ids(n) \in SUBSET (Node \ {n})
    BY DEF Known, IndInv, GoodTable
  <2>2. GoodMsgs(SetToBag({Send(n, p, "Ping", NoNodes) : p \in Known(n) \ boot_ids(n)}))
    BY <2>1, AskGood DEF Request
  <2> QED BY <1>4, <2>2, IssueGood DEF PingTick
<1> QED BY <1>1, <1>2, <1>3, <1>4, StopGood, RestartGood DEF Operator

LEMMA HandleGood ==
  ASSUME IndInv, NEW n \in Node, NEW m \in BagToSet(msgs), Handle(n, m)
  PROVE  IndInv'
BY HandlePingGood, HandleGetNetworkNodesGood, HandleSendNodeRecordGood,
   HandlePongGood, HandleRecordGood, HandleIdentifyGood, PanicGood DEF Handle

LEMMA StepGood == IndInv /\ [Next]_vars => IndInv'
<1> SUFFICES ASSUME IndInv, [Next]_vars PROVE IndInv'
  OBVIOUS
<1>1. ASSUME NEW n \in Node, Connection(n) PROVE IndInv'
  BY <1>1, DialGood, DialFailsGood, ConnectionEstablishedGood,
     ConnectionClosedGood, IdentifyArrivesGood DEF Connection
<1>2. ASSUME NEW n \in Node, Operator(n) PROVE IndInv'
  BY <1>2, OperatorGood
<1>3. ASSUME NEW k \in DOMAIN links, Drop(k) \/ KademliaConfirmed(k) PROVE IndInv'
  BY <1>3, DropGood, KademliaConfirmedGood
<1>4. ASSUME NEW m \in BagToSet(msgs), Deliver(m) PROVE IndInv'
  BY <1>4, DeliverRequestGood, DeliverResponseGood DEF Deliver
<1>5. ASSUME NEW m \in BagToSet(msgs), Lose(m) \/ InboundTimeout(m) PROVE IndInv'
  BY <1>5, LoseGood, InboundTimeoutGood
<1>6. ASSUME NEW m \in BagToSet(msgs), Handle(m.to, m) PROVE IndInv'
  BY <1>6, MsgFacts, HandleGood
<1>7. CASE UNCHANGED vars
  BY <1>7 DEF vars, IndInv
<1> QED BY <1>1, <1>2, <1>3, <1>4, <1>5, <1>6, <1>7 DEF Next

-----------------------------------------------------------------------------
(* Theorems *)

THEOREM Invariance == Spec => []IndInv
BY InitGood, StepGood, PTL DEF Spec

\* The state keeps its shape, whatever the network does.
THEOREM TypeCorrect == Spec => []TypeOK
<1>1. IndInv => TypeOK
  BY DEF IndInv, TypeOK, GoodTable, GoodLinks, GoodMsgs, GoodMsg
<1> QED BY <1>1, Invariance, PTL

\* No node is told of itself, knows itself or sends itself a message: neither
\* an exchange nor a load of a record turns a node's loop on itself.
THEOREM NeverSelfTalk == Spec => []NoSelfTalk
<1>1. IndInv => NoSelfTalk
  BY DEF IndInv, NoSelfTalk, Known, GoodTable, GoodMsgs, GoodMsg
<1> QED BY <1>1, Invariance, PTL

\* Whatever way an address was learnt, it leads to the peer it is filed under.
THEOREM AddressesAlwaysLeadHome == Spec => []AddressesLeadHome
<1>1. IndInv => AddressesLeadHome
  BY DEF IndInv, AddressesLeadHome, GoodTable, GoodMsgs, GoodMsg, GoodRecord
<1> QED BY <1>1, Invariance, PTL
=============================================================================
