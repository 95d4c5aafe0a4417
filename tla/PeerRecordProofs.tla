-------------------------- MODULE PeerRecordProofs --------------------------
(***************************************************************************)
(* What else TLAPS proves of PeerExchange, on top of PeerExchangeProofs:   *)
(* what records may list, who is noted when peers are introduced, and that *)
(* a client in dial mode files relayed addresses.  The connections and,    *)
(* while a process lives, its `requests` only grow, so a message that was  *)
(* right stays right: what is left to prove is that every message a        *)
(* handler sends is right.  On these rest the last two results: that the   *)
(* exchange implements AddressBook, action by action, with an invariant    *)
(* that says who is up and what Identify is about; and that exchanges run  *)
(* down between connections, every message being further on than the one   *)
(* it comes from or brought once by a connection.                          *)
(***************************************************************************)
EXTENDS PeerExchangeProofs

ListsPublic(m) ==
  m.ty \in Listing =>
    /\ DOMAIN m.nodes \cap boot_ids(m.from) = {}
    /\ \A p \in DOMAIN m.nodes : \A a \in m.nodes[p] : a.wan

Noted(m) ==
  m.ty = "SendNodeRecord" /\ m.at = "wire" =>
    {m.to} \cup DOMAIN m.nodes \subseteq requests[m.from]

Bound(m) ==
  m.link # 0 => /\ m.link \in DOMAIN links
                /\ ends(m.link) = {m.from, m.to}
                /\ m.at = "inbox" => m.to \in links[m.link].seen

Right(m) == ListsPublic(m) /\ Noted(m) /\ Bound(m)
NoSingles == \A n, p \in Node : requests[n] # {p}

SafeInv ==
  /\ IndInv
  /\ \A m \in BagToSet(msgs) : Right(m)
  /\ NoSingles
  /\ RelayedAddressesOnly

-----------------------------------------------------------------------------
(* What grows *)

LinksGrow ==
  \A k \in DOMAIN links :
    /\ k \in DOMAIN links' /\ links'[k].dialer = links[k].dialer
    /\ links'[k].addr = links[k].addr /\ links[k].seen \subseteq links'[k].seen

LEMMA EndGrows ==
  ASSUME IndInv, NEW n \in Node, NEW why, End(n, why)
  PROVE  LinksGrow
<1> DEFINE L == {k \in DOMAIN links : involves(k, n)}
<1> SUFFICES ASSUME NEW k \in DOMAIN links
             PROVE  /\ k \in DOMAIN links' /\ links'[k].dialer = links[k].dialer
                    /\ links'[k].addr = links[k].addr /\ links[k].seen \subseteq links'[k].seen
  BY DEF LinksGrow
<1>1. links[k] \in Link
  BY LinkFacts DEF IndInv
<1>2. LET l == Broken(L)[k] IN
      l \in Link /\ l.dialer = links[k].dialer /\ l.addr = links[k].addr /\ l.seen = links[k].seen
  BY <1>1 DEF Broken, Link
<1>3. /\ k \in DOMAIN links'
      /\ links'[k] = LET l == Broken(L)[k] IN
                     IF n \in ends(k) THEN [l EXCEPT !.seen = @ \cup {n}, !.closed = @ \cup {n}]
                     ELSE l
  BY DEF End
<1> DEFINE b == Broken(L)[k]
<1>4. b \in Link /\ b.dialer = links[k].dialer /\ b.addr = links[k].addr /\ b.seen = links[k].seen
  BY <1>2
<1>5. links'[k] = IF n \in ends(k) THEN [b EXCEPT !.seen = @ \cup {n}, !.closed = @ \cup {n}] ELSE b
  BY <1>3
<1> HIDE DEF b
<1>6. CASE n \in ends(k)
  <2>1. LET c == [b EXCEPT !.seen = @ \cup {n}, !.closed = @ \cup {n}] IN
        c.dialer = b.dialer /\ c.addr = b.addr /\ c.seen = b.seen \cup {n}
    BY <1>4 DEF Link
  <2> QED BY <1>3, <1>4, <1>5, <1>6, <2>1
<1>7. CASE n \notin ends(k)
  BY <1>3, <1>4, <1>5, <1>7
<1> QED BY <1>6, <1>7

LEMMA BrokenGrows ==
  ASSUME IndInv, NEW L, links' = Broken(L)
  PROVE  LinksGrow
<1>1. \A k \in DOMAIN links : links[k] \in Link
  BY LinkFacts DEF IndInv
<1> QED BY <1>1 DEF Broken, Link, LinksGrow

LEMMA SetLinkGrows ==
  ASSUME IndInv, NEW k \in DOMAIN links, NEW f, links' = [links EXCEPT ![k] = f],
         f.addr = links[k].addr, f.dialer = links[k].dialer, links[k].seen \subseteq f.seen
  PROVE  LinksGrow
BY DEF LinksGrow

LEMMA DialGrows ==
  ASSUME IndInv, NEW n \in Node, NEW a \in Addr, Dial(n, a)
  PROVE  LinksGrow
<1> DEFINE l == [dialer |-> n, addr |-> a, up |-> TRUE,
                 kad |-> FALSE, seen |-> {}, closed |-> {}, told |-> {}]
<1>1. l \in Link
  BY DEF Link
<1>2. links \in Seq(Link) /\ links' = Append(links, l)
  BY DEF IndInv, GoodLinks, Dial
<1> HIDE DEF l
<1>3. /\ \A k \in 1..Len(links) : links'[k] = links[k]
      /\ DOMAIN links = 1..Len(links) /\ DOMAIN links' = 1..(Len(links) + 1)
      /\ Len(links) \in Nat
  BY <1>1, <1>2, AppendProperties, LenProperties
<1> QED BY <1>3 DEF LinksGrow

\* A right message stays right.
LEMMA StaysRight ==
  ASSUME NEW m, Right(m), LinksGrow,
         m.at = "wire" => requests[m.from] \subseteq requests'[m.from]
  PROVE  Right(m)'
<1>1. ListsPublic(m)'
  BY DEF Right, ListsPublic, boot_ids
<1>2. Noted(m)'
  BY DEF Right, Noted
<1>3. Bound(m)'
  BY DEF Right, Bound, LinksGrow, ends
<1> QED BY <1>1, <1>2, <1>3 DEF Right

LEMMA ConsumedSet ==
  ASSUME NEW m, NEW sent, Consume(m, sent)
  PROVE  BagToSet(msgs') \subseteq BagToSet(msgs) \cup BagToSet(sent)
BY DEF Consume, BagToSet, (+), (-)

LEMMA MovedSet ==
  ASSUME NEW m, NEW m2, Move(m, m2)
  PROVE  BagToSet(msgs') \subseteq BagToSet(msgs) \cup {m2}
BY DEF Move, BagToSet, SetToBag, Only, (+), (-)

LEMMA AddedSet ==
  ASSUME NEW sent, msgs' = msgs (+) sent
  PROVE  BagToSet(msgs') = BagToSet(msgs) \cup BagToSet(sent)
BY DEF BagToSet, (+)

LEMMA SmallBags ==
  /\ BagToSet(EmptyBag) = {}
  /\ \A m : BagToSet(Only(m)) = {m}
  /\ \A S : BagToSet(SetToBag(S)) = S
BY DEF BagToSet, SetToBag, Only, EmptyBag

\* Where nothing but right messages is added, all messages stay right.
LEMMA RightStep ==
  ASSUME SafeInv, LinksGrow, NEW S, BagToSet(msgs') \subseteq BagToSet(msgs) \cup S,
         \A n \in Node : requests[n] \subseteq requests'[n],
         \A m \in S : Right(m)'
  PROVE  \A m \in BagToSet(msgs') : Right(m)'
<1> SUFFICES ASSUME NEW m \in BagToSet(msgs') PROVE Right(m)'
  OBVIOUS
<1>1. CASE m \in S
  BY <1>1
<1>2. CASE m \in BagToSet(msgs)
  <2>1. m.from \in Node /\ Right(m)
    BY <1>2, MsgFacts DEF SafeInv
  <2> QED BY <2>1, StaysRight
<1> QED BY <1>1, <1>2

\* A message without a connection that lists nothing is right.
LEMMA PlainRight ==
  ASSUME NEW m, m.link = 0, m.ty \notin Listing
  PROVE  Right(m)'
BY DEF Right, ListsPublic, Noted, Bound, Listing

LEMMA PlainSends ==
  ASSUME NEW n, NEW S, NEW ty \in {"Ping", "GetNetworkNodes"}
  PROVE  \A m \in {Send(n, p, ty, NoNodes) : p \in S} : Right(m)'
<1>1. \A p : Send(n, p, ty, NoNodes).link = 0 /\ Send(n, p, ty, NoNodes).ty \notin Listing
  BY DEF Send, Message, Listing
<1> QED BY <1>1, PlainRight

-----------------------------------------------------------------------------
(* Tables of clients in dial mode *)

Relayed(n, p, a) ==
  a.via = p =>
    \/ p = BootNodes[n][1].peer
    \/ a \in Saved[n][p]
    \/ \E k \in DOMAIN links : links[k].dialer = n /\ links[k].addr = a

\* An address that was allowed stays so, and a new one must be.
LEMMA RelayedStep ==
  ASSUME SafeInv, LinksGrow,
         \A n \in RelayDial \ Server : \A p \in Node : \A a \in table'[n][p] :
           a \in table[n][p] \/ Relayed(n, p, a)
  PROVE  RelayedAddressesOnly'
<1> SUFFICES ASSUME NEW n \in RelayDial \ Server, NEW p \in Node, NEW a \in table'[n][p], a.via = p
             PROVE  \/ p = BootNodes[n][1].peer
                    \/ a \in Saved[n][p]
                    \/ \E k \in DOMAIN links' : links'[k].dialer = n /\ links'[k].addr = a
  BY DEF RelayedAddressesOnly
<1>1. Relayed(n, p, a)
  BY DEF SafeInv, RelayedAddressesOnly, Relayed
<1> QED BY <1>1 DEF Relayed, LinksGrow

LEMMA RelayVia ==
  ASSUME NEW n, NEW p PROVE get_relayed_addr(n, p).via = BootNodes[n][1].peer
BY DEF get_relayed_addr

LEMMA LoadedRelayed ==
  ASSUME SafeInv, NEW n \in Node, NEW rec, table' = loaded_table(n, rec)
  PROVE  \A q \in RelayDial \ Server : \A p \in Node : \A a \in table'[q][p] :
           a \in table[q][p] \/ Relayed(q, p, a)
<1> SUFFICES ASSUME NEW q \in RelayDial \ Server, NEW p \in Node, NEW a \in table'[q][p]
             PROVE  a \in table[q][p] \/ Relayed(q, p, a)
  OBVIOUS
<1>1. table \in [Node -> [Node -> SUBSET Addr]] /\ q \in Node
  BY RelayDialAssumption DEF SafeInv, IndInv, GoodTable
<1>2. a \in table[q][p] \/ a = get_relayed_addr(q, p)
  BY <1>1 DEF loaded_table
<1> QED BY <1>2, RelayVia DEF Relayed

-----------------------------------------------------------------------------
(* Every step keeps the invariant *)

Safe == (\A m \in BagToSet(msgs) : Right(m)) /\ NoSingles /\ RelayedAddressesOnly

\* The steps that leave tables and `requests` alone.
LEMMA QuietStep ==
  ASSUME SafeInv, LinksGrow, UNCHANGED <<table, requests>>,
         NEW S, BagToSet(msgs') \subseteq BagToSet(msgs) \cup S, \A m \in S : Right(m)'
  PROVE  Safe'
<1>1. \A m \in BagToSet(msgs') : Right(m)'
  BY RightStep
<1>2. NoSingles'
  BY DEF SafeInv, NoSingles
<1>3. RelayedAddressesOnly'
  BY RelayedStep
<1> QED BY <1>1, <1>2, <1>3 DEF Safe

LEMMA QuietOne ==
  ASSUME SafeInv, LinksGrow, UNCHANGED <<table, requests>>,
         NEW x, BagToSet(msgs') \subseteq BagToSet(msgs) \cup {x}, Right(x)'
  PROVE  Safe'
<1> DEFINE S == {x}
<1>1. (\A y \in S : Right(y)') /\ BagToSet(msgs') \subseteq BagToSet(msgs) \cup S
  OBVIOUS
<1> HIDE DEF S
<1> QED BY <1>1, QuietStep

LEMMA SameLinks == UNCHANGED links => LinksGrow
BY DEF LinksGrow

LEMMA RightMsg ==
  ASSUME SafeInv, NEW m \in BagToSet(msgs)
  PROVE  ListsPublic(m) /\ Noted(m) /\ Bound(m)
BY DEF SafeInv, Right

LEMMA DeliverSafe ==
  ASSUME SafeInv, NEW m \in BagToSet(msgs), Deliver(m) \/ InboundTimeout(m)
  PROVE  Safe'
<1>1. UNCHANGED <<table, requests, links>> /\ LinksGrow
  BY SameLinks DEF Deliver, DeliverRequest, DeliverResponse, InboundTimeout
<1>2. m \in [at : {"wire", "inbox"}, link : 0..MaxLinks,
              ty : Request \cup Response \cup {"Identify"},
              from : Node, to : Node, nodes : {m.nodes}]
  BY MsgFacts DEF SafeInv, GoodMsg, IsMsg
<1>3. ASSUME NEW k \in DOMAIN links, DeliverRequest(m, k) PROVE Safe'
  <2> DEFINE x == [m EXCEPT !.at = "inbox", !.link = k]
  <2>1. /\ x.ty = m.ty /\ x.from = m.from /\ x.to = m.to /\ x.nodes = m.nodes
        /\ x.at = "inbox" /\ x.link = k
    BY <1>2
  <2>2. Move(m, x) /\ ends(k) = {m.from, m.to} /\ m.to \in links[k].seen
    BY <1>3 DEF DeliverRequest, connected
  <2> HIDE DEF x
  <2>3. ListsPublic(x)' /\ Noted(x)' /\ Bound(x)'
    BY <1>1, <2>1, <2>2, RightMsg DEF ListsPublic, Noted, Bound, boot_ids, ends
  <2>4. Right(x)'
    BY <2>3 DEF Right
  <2>5. BagToSet(msgs') \subseteq BagToSet(msgs) \cup {x}
    BY <2>2, MovedSet
  <2> QED BY <1>1, <2>4, <2>5, QuietOne
<1>4. ASSUME NEW x, x = [m EXCEPT !.link = 0] \/ (x = [m EXCEPT !.at = "inbox", !.link = 0]),
             x.at = "inbox", Move(m, x)
      PROVE  Safe'
  <2>1. x.ty = m.ty /\ x.from = m.from /\ x.to = m.to /\ x.nodes = m.nodes /\ x.link = 0
    BY <1>2, <1>4
  <2>2. ListsPublic(x)' /\ Noted(x)' /\ Bound(x)'
    BY <1>4, <2>1, RightMsg DEF ListsPublic, Noted, Bound, boot_ids
  <2>3. Right(x)'
    BY <2>2 DEF Right
  <2>4. BagToSet(msgs') \subseteq BagToSet(msgs) \cup {x}
    BY <1>4, MovedSet
  <2> QED BY <1>1, <2>3, <2>4, QuietOne
<1>5. CASE DeliverResponse(m)
  <2> DEFINE x == [m EXCEPT !.at = "inbox", !.link = 0]
  <2>1. x.at = "inbox" /\ Move(m, x)
    BY <1>2, <1>5 DEF DeliverResponse
  <2> HIDE DEF x
  <2> QED BY <1>4, <2>1 DEF x
<1>6. CASE InboundTimeout(m)
  <2> DEFINE x == [m EXCEPT !.link = 0]
  <2>1. x.at = "inbox" /\ Move(m, x)
    BY <1>2, <1>6 DEF InboundTimeout
  <2> HIDE DEF x
  <2> QED BY <1>4, <2>1 DEF x
<1> QED BY <1>3, <1>5, <1>6 DEF Deliver

LEMMA LoseSafe ==
  ASSUME SafeInv, NEW m \in BagToSet(msgs), Lose(m)
  PROVE  Safe'
<1>1. UNCHANGED <<table, requests, links>> /\ LinksGrow /\ Consume(m, EmptyBag)
  BY SameLinks DEF Lose
<1> QED BY <1>1, ConsumedSet, SmallBags, QuietStep

LEMMA IdentifyArrivesSafe ==
  ASSUME SafeInv, NEW n \in Node, NEW k \in DOMAIN links, IdentifyArrives(n, k)
  PROVE  Safe'
<1>1. UNCHANGED <<table, requests>> /\ LinksGrow
  <2> DEFINE f == [links[k] EXCEPT !.told = @ \cup {n}]
  <2>1. IndInv /\ links[k] \in Link
    BY LinkFacts DEF SafeInv, IndInv
  <2>2. f.addr = links[k].addr /\ f.dialer = links[k].dialer /\ links[k].seen \subseteq f.seen
    BY <2>1 DEF Link
  <2>3. links' = [links EXCEPT ![k] = f] /\ UNCHANGED <<table, requests>>
    BY DEF IdentifyArrives
  <2> HIDE DEF f
  <2> QED BY <2>1, <2>2, <2>3, SetLinkGrows
<1>2. PICK x : /\ x.link = 0 /\ x.ty \notin Listing
               /\ msgs' = msgs (+) Only(x)
  BY DEF IdentifyArrives, Message, Listing
<1>3. Right(x)'
  BY <1>2, PlainRight
<1>4. BagToSet(msgs') \subseteq BagToSet(msgs) \cup {x}
  BY <1>2, AddedSet, SmallBags
<1> QED BY <1>1, <1>3, <1>4, QuietOne

LEMMA OperatorSafe ==
  ASSUME SafeInv, NEW n \in Node,
         \/ \E p \in Node : Ping(n, p) \/ GetNodes(n, p)
         \/ GetNodesFromBootNodes(n) \/ PingTick(n)
  PROVE  Safe'
<1>1. ASSUME NEW kind, NEW ty \in {"Ping", "GetNetworkNodes"}, NEW S, NEW sent,
             Issue(kind, n, sent), BagToSet(sent) = {Send(n, p, ty, NoNodes) : p \in S}
      PROVE  Safe'
  <2>1. UNCHANGED <<table, requests, links>> /\ LinksGrow /\ msgs' = msgs (+) sent
    BY <1>1, SameLinks DEF Issue
  <2> QED BY <1>1, <2>1, PlainSends, AddedSet, QuietStep
<1>2. \A p, ty : BagToSet(Only(Send(n, p, ty, NoNodes))) = {Send(n, q, ty, NoNodes) : q \in {p}}
  BY SmallBags
<1>3. ASSUME NEW p \in Node, Ping(n, p) \/ GetNodes(n, p) PROVE Safe'
  BY <1>1, <1>2, <1>3 DEF Ping, GetNodes
<1>4. CASE GetNodesFromBootNodes(n)
  BY <1>1, <1>4, SmallBags DEF GetNodesFromBootNodes
<1>5. CASE PingTick(n)
  BY <1>1, <1>5, SmallBags DEF PingTick
<1> QED BY <1>3, <1>4, <1>5

\* A reply goes back over the connection its request came by.
LEMMA ReplyRight ==
  ASSUME SafeInv, NEW m \in BagToSet(msgs), m.at = "inbox", m.link # 0, UNCHANGED links,
         NEW ty \in Response, NEW rec,
         ty = "Record" => /\ DOMAIN rec \cap boot_ids(m.to) = {}
                          /\ \A p \in DOMAIN rec : \A a \in rec[p] : a.wan
  PROVE  \A x \in BagToSet(Reply(m, ty, rec)) : Right(x)'
<1> DEFINE x == Message("wire", m.link, ty, m.to, m.from, rec)
<1>1. /\ x.at = "wire" /\ x.link = m.link /\ x.ty = ty /\ x.from = m.to /\ x.to = m.from
      /\ x.nodes = rec
  BY DEF Message
<1>2. ty # "SendNodeRecord"
  BY DEF Response
<1>3. BagToSet(Reply(m, ty, rec)) = {x}
  BY SmallBags DEF Reply
<1> HIDE DEF x
<1>4. ListsPublic(x)'
  BY <1>1, <1>2 DEF ListsPublic, Listing, boot_ids
<1>5. Noted(x)' /\ Bound(x)'
  BY <1>1, <1>2, RightMsg DEF Noted, Bound, ends
<1> QED BY <1>3, <1>4, <1>5 DEF Right

\* What get_network_record lists is public and names no boot node.
LEMMA RecordPublic ==
  ASSUME NEW t, NEW n, NEW p
  PROVE  LET rec == get_network_record(t, n, p) IN
         /\ DOMAIN rec \cap boot_ids(n) = {}
         /\ \A q \in DOMAIN rec : \A a \in rec[q] : a.wan
BY DEF get_network_record, get_external_addrs

LEMMA PingsRight ==
  ASSUME NEW n, NEW rec
  PROVE  \A x \in BagToSet(loaded_pings(n, rec)) : Right(x)'
<1>1. BagToSet(loaded_pings(n, rec)) =
        {Send(n, p, "Ping", NoNodes) : p \in {q \in DOMAIN rec : rec[q] # {}}}
  BY DEF BagToSet, loaded_pings
<1> QED BY <1>1, PlainSends

LEMMA RequestSafe ==
  ASSUME SafeInv, NEW n \in Node, NEW m \in BagToSet(msgs),
         HandlePing(n, m) \/ HandleGetNetworkNodes(n, m) \/ HandlePong(n, m)
  PROVE  Safe'
<1>1. UNCHANGED <<table, requests, links>> /\ LinksGrow
  BY SameLinks DEF HandlePing, HandleGetNetworkNodes, HandlePong
<1>2. CASE HandlePing(n, m)
  <2>1. Consume(m, Reply(m, "Pong", NoNodes)) /\ m.at = "inbox" /\ m.link # 0
    BY <1>2 DEF HandlePing, Event, CanReply
  <2>2. \A x \in BagToSet(Reply(m, "Pong", NoNodes)) : Right(x)'
    BY <1>1, <2>1, ReplyRight DEF Response
  <2> QED BY <1>1, <2>1, <2>2, ConsumedSet, QuietStep
<1>3. CASE HandleGetNetworkNodes(n, m)
  <2> DEFINE rec == get_network_record(table, n, m.from)
  <2>1. Consume(m, Reply(m, "Record", rec)) /\ m.at = "inbox" /\ m.link # 0 /\ m.to = n
    BY <1>3 DEF HandleGetNetworkNodes, Event, CanReply
  <2>2. DOMAIN rec \cap boot_ids(n) = {} /\ \A q \in DOMAIN rec : \A a \in rec[q] : a.wan
    BY RecordPublic
  <2> HIDE DEF rec
  <2>3. \A x \in BagToSet(Reply(m, "Record", rec)) : Right(x)'
    BY <1>1, <2>1, <2>2, ReplyRight DEF Response
  <2> QED BY <1>1, <2>1, <2>3, ConsumedSet, QuietStep
<1>4. CASE HandlePong(n, m)
  BY <1>1, <1>4, ConsumedSet, SmallBags, QuietStep DEF HandlePong
<1> QED BY <1>2, <1>3, <1>4

LEMMA LoadSafe ==
  ASSUME SafeInv, NEW n \in Node, NEW m \in BagToSet(msgs),
         HandleSendNodeRecord(n, m) \/ HandleRecord(n, m)
  PROVE  Safe'
<1>1. UNCHANGED <<requests, links>> /\ LinksGrow /\ table' = loaded_table(n, m.nodes)
  BY SameLinks DEF HandleSendNodeRecord, HandleRecord
<1>2. RelayedAddressesOnly'
  BY <1>1, LoadedRelayed, RelayedStep
<1>3. NoSingles'
  BY <1>1 DEF SafeInv, NoSingles
<1>4. \A x \in BagToSet(msgs') : Right(x)'
  <2>1. CASE HandleSendNodeRecord(n, m)
    <3>1. /\ Consume(m, loaded_pings(n, m.nodes) (+) Reply(m, "GotNetworkRecord", NoNodes))
          /\ m.at = "inbox" /\ m.link # 0
      BY <2>1 DEF HandleSendNodeRecord, Event, CanReply
    <3>2. \A x \in BagToSet(Reply(m, "GotNetworkRecord", NoNodes)) : Right(x)'
      BY <1>1, <3>1, ReplyRight DEF Response
    <3>3. BagToSet(loaded_pings(n, m.nodes) (+) Reply(m, "GotNetworkRecord", NoNodes)) =
            BagToSet(loaded_pings(n, m.nodes)) \cup BagToSet(Reply(m, "GotNetworkRecord", NoNodes))
      BY DEF BagToSet, (+)
    <3> QED BY <1>1, <3>1, <3>2, <3>3, PingsRight, ConsumedSet, RightStep
  <2>2. CASE HandleRecord(n, m)
    <3>1. Consume(m, loaded_pings(n, m.nodes))
      BY <2>2 DEF HandleRecord
    <3> QED BY <1>1, <3>1, PingsRight, ConsumedSet, RightStep
  <2> QED BY <2>1, <2>2
<1> QED BY <1>2, <1>3, <1>4 DEF Safe

\* The steps that change tables only, and connections.
LEMMA TableStep ==
  ASSUME SafeInv, LinksGrow, UNCHANGED <<msgs, requests>>,
         \A q \in RelayDial \ Server : \A p \in Node : \A a \in table'[q][p] :
           a \in table[q][p] \/ Relayed(q, p, a)
  PROVE  Safe'
<1>1. \A m \in BagToSet(msgs') : Right(m)'
  <2> DEFINE S == {}
  <2>1. BagToSet(msgs') \subseteq BagToSet(msgs) \cup S /\ \A m \in S : Right(m)'
    BY DEF BagToSet
  <2> HIDE DEF S
  <2> QED BY <2>1, RightStep
<1>2. NoSingles'
  BY DEF SafeInv, NoSingles
<1>3. RelayedAddressesOnly'
  BY RelayedStep
<1> QED BY <1>1, <1>2, <1>3 DEF Safe

LEMMA TableFacts ==
  ASSUME SafeInv
  PROVE  /\ table \in [Node -> [Node -> SUBSET Addr]] /\ RelayDial \subseteq Node
         /\ requests \in [Node -> SUBSET Node]
BY RelayDialAssumption DEF SafeInv, IndInv, GoodTable

LEMMA SurvivingSet == \A L : BagToSet(Surviving(L)) \subseteq BagToSet(msgs)
BY DEF BagToSet, Surviving

LEMMA ConnectionSafe ==
  ASSUME SafeInv, NEW n \in Node,
         \/ \E a \in Addr : Dial(n, a)
         \/ \E p \in Node : DialFails(n, p)
         \/ \E k \in DOMAIN links : Drop(k)
  PROVE  Safe'
<1>1. IndInv
  BY DEF SafeInv
<1>2. ASSUME NEW a \in Addr, Dial(n, a) PROVE Safe'
  <2>1. LinksGrow /\ UNCHANGED <<msgs, requests, table>>
    BY <1>1, <1>2, DialGrows DEF Dial
  <2> QED BY <2>1, TableStep
<1>3. ASSUME NEW k \in DOMAIN links, Drop(k) PROVE Safe'
  <2> DEFINE S == {}
  <2>1. LinksGrow /\ UNCHANGED <<requests, table>>
    BY <1>1, <1>3, BrokenGrows DEF Drop
  <2>2. BagToSet(msgs') \subseteq BagToSet(msgs) \cup S /\ \A m \in S : Right(m)'
    BY <1>3, SurvivingSet DEF Drop
  <2> HIDE DEF S
  <2> QED BY <2>1, <2>2, QuietStep
<1>4. ASSUME NEW p \in Node, DialFails(n, p) PROVE Safe'
  <2>1. PICK A : table' = [table EXCEPT ![n][p] = @ \ A]
    BY <1>4 DEF DialFails
  <2>2. LinksGrow /\ UNCHANGED <<msgs, requests>>
    BY <1>4, SameLinks DEF DialFails
  <2>3. ASSUME NEW q \in RelayDial \ Server, NEW r \in Node
        PROVE  table'[q][r] \subseteq table[q][r]
    BY <2>1, TableFacts
  <2> QED BY <2>2, <2>3, TableStep
<1> QED BY <1>2, <1>3, <1>4

LEMMA LinkEventSafe ==
  ASSUME SafeInv, NEW n \in Node, NEW k \in DOMAIN links,
         ConnectionEstablished(n, k) \/ ConnectionClosed(n, k)
  PROVE  Safe'
<1>1. IndInv /\ links[k] \in Link
  BY LinkFacts DEF SafeInv, IndInv
<1>2. UNCHANGED <<msgs, requests>>
  BY DEF ConnectionEstablished, ConnectionClosed
<1>3. LinksGrow
  <2>1. CASE ConnectionEstablished(n, k)
    <3> DEFINE f == [links[k] EXCEPT !.seen = @ \cup {n}]
    <3>1. f.addr = links[k].addr /\ f.dialer = links[k].dialer /\ links[k].seen \subseteq f.seen
      BY <1>1 DEF Link
    <3>2. links' = [links EXCEPT ![k] = f]
      BY <2>1 DEF ConnectionEstablished
    <3> HIDE DEF f
    <3> QED BY <1>1, <3>1, <3>2, SetLinkGrows
  <2>2. CASE ConnectionClosed(n, k)
    <3> DEFINE f == [links[k] EXCEPT !.closed = @ \cup {n}]
    <3>1. f.addr = links[k].addr /\ f.dialer = links[k].dialer /\ links[k].seen \subseteq f.seen
      BY <1>1 DEF Link
    <3>2. links' = [links EXCEPT ![k] = f]
      BY <2>2 DEF ConnectionClosed
    <3> HIDE DEF f
    <3> QED BY <1>1, <3>1, <3>2, SetLinkGrows
  <2> QED BY <2>1, <2>2
<1>4. ASSUME NEW q \in RelayDial \ Server, NEW p \in Node
      PROVE  table'[q][p] \subseteq table[q][p]
  <2>1. CASE ConnectionEstablished(n, k)
    BY <2>1, TableFacts DEF ConnectionEstablished, add_address
  <2>2. CASE ConnectionClosed(n, k)
    BY <2>2, TableFacts DEF ConnectionClosed, remove_peer
  <2> QED BY <2>1, <2>2
<1> QED BY <1>2, <1>3, <1>4, TableStep

LEMMA KademliaSafe ==
  ASSUME SafeInv, NEW k \in DOMAIN links, KademliaConfirmed(k)
  PROVE  Safe'
<1>1. IndInv /\ links[k] \in Link
  BY LinkFacts DEF SafeInv, IndInv
<1>2. UNCHANGED <<msgs, requests>>
  BY DEF KademliaConfirmed
<1>3. LinksGrow
  <2> DEFINE f == [links[k] EXCEPT !.kad = TRUE]
  <2>1. f.addr = links[k].addr /\ f.dialer = links[k].dialer /\ links[k].seen \subseteq f.seen
    BY <1>1 DEF Link
  <2>2. links' = [links EXCEPT ![k] = f]
    BY DEF KademliaConfirmed
  <2> HIDE DEF f
  <2> QED BY <1>1, <2>1, <2>2, SetLinkGrows
<1>4. ASSUME NEW q \in RelayDial \ Server, NEW p \in Node, NEW a \in table'[q][p]
      PROVE  a \in table[q][p] \/ (q = links[k].dialer /\ a = links[k].addr)
  BY TableFacts DEF KademliaConfirmed, add_address
<1>5. ASSUME NEW q \in RelayDial \ Server, NEW p \in Node, NEW a \in table'[q][p]
      PROVE  a \in table[q][p] \/ Relayed(q, p, a)
  BY <1>4 DEF Relayed
<1> QED BY <1>2, <1>3, <1>5, TableStep

LEMMA EndSafe ==
  ASSUME SafeInv, NEW n \in Node, NEW why, End(n, why)
  PROVE  Safe'
<1>1. IndInv /\ LinksGrow
  BY EndGrows DEF SafeInv
<1>2. /\ requests' = [requests EXCEPT ![n] = {}]
      /\ table' = [table EXCEPT ![n] = [p \in Node |-> {}]]
  BY DEF End
<1>3. ASSUME NEW m \in BagToSet(msgs') PROVE Right(m)'
  <2>1. m \in BagToSet(msgs) /\ (m.at = "wire" => m.from # n)
    BY SurvivingSet DEF End, BagToSet
  <2>2. Right(m) /\ m.from \in Node
    BY <1>1, <2>1, MsgFacts DEF SafeInv
  <2>3. m.at = "wire" => requests[m.from] \subseteq requests'[m.from]
    BY <1>2, <2>1, <2>2, TableFacts
  <2> QED BY <1>1, <2>2, <2>3, StaysRight
<1>4. NoSingles'
  BY <1>2, TableFacts DEF SafeInv, NoSingles
<1>5. ASSUME NEW q \in RelayDial \ Server, NEW p \in Node
      PROVE  table'[q][p] \subseteq table[q][p]
  BY <1>2, TableFacts
<1>6. RelayedAddressesOnly'
  BY <1>1, <1>5, RelayedStep
<1> QED BY <1>3, <1>4, <1>6 DEF Safe

LEMMA LifeSafe ==
  ASSUME SafeInv, NEW n \in Node, Stop(n) \/ Restart(n)
  PROVE  Safe'
<1>1. CASE Stop(n)
  BY <1>1, EndSafe DEF Stop
<1>2. CASE Restart(n)
  <2>1. LinksGrow /\ UNCHANGED <<msgs, requests>> /\ table' = [table EXCEPT ![n] = Saved[n]]
    BY <1>2, SameLinks DEF Restart
  <2>2. ASSUME NEW q \in RelayDial \ Server, NEW p \in Node, NEW a \in table'[q][p]
        PROVE  a \in table[q][p] \/ a \in Saved[q][p]
    BY <2>1, TableFacts
  <2> QED BY <2>1, <2>2, TableStep DEF Relayed
<1> QED BY <1>1, <1>2

-----------------------------------------------------------------------------
(* Introductions *)

LEMMA IntroductionsRight ==
  ASSUME NEW n, NEW first, NEW second, NEW rec, NEW copies,
         first \in DOMAIN rec, second \in DOMAIN rec,
         DOMAIN rec \cap boot_ids(n) = {},
         \A q \in DOMAIN rec : \A a \in rec[q] : a.wan,
         DOMAIN rec \subseteq requests'[n]
  PROVE  \A m \in BagToSet(introductions(n, first, second, rec, copies)) : Right(m)'
<1> SUFFICES ASSUME NEW m \in BagToSet(introductions(n, first, second, rec, copies))
             PROVE  Right(m)'
  OBVIOUS
<1>1. PICK p \in DOMAIN rec :
        m = Send(n, p, "SendNodeRecord",
                 [q \in {IF p = first THEN second ELSE first} |-> rec[q]])
  BY DEF introductions, BagToSet
<1>2. PICK q \in DOMAIN rec : m = Send(n, p, "SendNodeRecord", [r \in {q} |-> rec[r]])
  BY <1>1
<1>3. /\ m.link = 0 /\ m.ty = "SendNodeRecord" /\ m.from = n /\ m.to = p
      /\ m.nodes = [r \in {q} |-> rec[r]]
  BY <1>2 DEF Send, Message
<1>4. DOMAIN m.nodes = {q} /\ m.nodes[q] = rec[q]
  BY <1>3
<1>5. ListsPublic(m)'
  BY <1>3, <1>4 DEF ListsPublic, boot_ids
<1>6. Noted(m)' /\ Bound(m)'
  BY <1>3, <1>4 DEF Noted, Bound
<1> QED BY <1>5, <1>6 DEF Right

LEMMA IdentifySafe ==
  ASSUME SafeInv, NEW n \in Node, NEW m \in BagToSet(msgs), HandleIdentify(n, m)
  PROVE  Safe'
<1> DEFINE A == m.nodes[m.from]
           B == identified_addrs(n, m.from, A)
           t == add_address(table, n, m.from, B)
           rec == get_network_record(t, n, m.from)
<1>1. LinksGrow /\ table' = t
  BY SameLinks DEF HandleIdentify
<1>2. RelayedAddressesOnly'
  <2>1. ASSUME NEW q \in RelayDial \ Server, NEW p \in Node, NEW a \in table'[q][p],
               a \notin table[q][p]
        PROVE  q = n /\ p = m.from /\ a \in B
    <3> HIDE DEF B
    <3> QED BY <1>1, <2>1, TableFacts DEF add_address
  <2>2. ASSUME NEW a \in B, n \in RelayDial \ Server
        PROVE  Relayed(n, m.from, a)
    BY <2>2, RelayVia DEF identified_addrs, Relayed
  <2> HIDE DEF B
  <2> QED BY <1>1, <2>1, <2>2, RelayedStep
<1>3. DOMAIN rec \cap boot_ids(n) = {} /\ \A q \in DOMAIN rec : \A a \in rec[q] : a.wan
  <2> HIDE DEF t
  <2> QED BY RecordPublic
<1> HIDE DEF rec
<1>4. CASE Consume(m, EmptyBag) /\ UNCHANGED requests
  <2>1. \A x \in BagToSet(msgs') : Right(x)'
    BY <1>1, <1>4, ConsumedSet, SmallBags, RightStep
  <2>2. NoSingles'
    BY <1>4 DEF SafeInv, NoSingles
  <2> QED BY <1>2, <2>1, <2>2 DEF Safe
<1>5. ASSUME NEW first \in DOMAIN rec, NEW second \in DOMAIN rec, first # second,
             Consume(m, introductions(n, first, second, rec, Cardinality(A))),
             requests' = [requests EXCEPT ![n] = @ \cup introduced(rec, m.from)]
      PROVE  Safe'
  <2>1. /\ \A q \in Node : requests[q] \subseteq requests'[q] /\ (q # n => requests'[q] = requests[q])
        /\ DOMAIN rec \subseteq requests'[n]
    BY <1>5, TableFacts DEF introduced
  <2> DEFINE S == BagToSet(introductions(n, first, second, rec, Cardinality(A)))
  <2>2. \A x \in S : Right(x)'
    BY <1>3, <1>5, <2>1, IntroductionsRight
  <2>3. BagToSet(msgs') \subseteq BagToSet(msgs) \cup S
    BY <1>5, ConsumedSet
  <2> HIDE DEF S
  <2>4. \A x \in BagToSet(msgs') : Right(x)'
    BY <1>1, <2>1, <2>2, <2>3, RightStep
  <2>5. NoSingles'
    BY <1>5, <2>1 DEF SafeInv, NoSingles
  <2> QED BY <1>2, <2>4, <2>5 DEF Safe
<1> QED BY <1>4, <1>5 DEF HandleIdentify, rec

-----------------------------------------------------------------------------
(* The invariant *)

LEMMA InitSafe == Init => SafeInv
<1> SUFFICES ASSUME Init PROVE SafeInv
  OBVIOUS
<1>1. IndInv
  BY InitGood
<1>2. BagToSet(msgs) = {}
  BY SmallBags DEF Init
<1>3. NoSingles
  BY DEF Init, NoSingles
<1>4. RelayedAddressesOnly
  BY DEF Init, RelayedAddressesOnly
<1> QED BY <1>1, <1>2, <1>3, <1>4 DEF SafeInv

LEMMA StepSafe == SafeInv /\ [Next]_vars => SafeInv'
<1> SUFFICES ASSUME SafeInv, [Next]_vars PROVE Safe'
  BY StepGood DEF SafeInv, Safe
<1>1. ASSUME NEW n \in Node, Connection(n) PROVE Safe'
  BY <1>1, ConnectionSafe, LinkEventSafe, IdentifyArrivesSafe DEF Connection
<1>2. ASSUME NEW n \in Node, Operator(n) PROVE Safe'
  BY <1>2, OperatorSafe, LifeSafe DEF Operator
<1>3. ASSUME NEW k \in DOMAIN links, Drop(k) \/ KademliaConfirmed(k) PROVE Safe'
  <2>1. links[k].dialer \in Node
    BY LinkFacts DEF SafeInv, IndInv, Link
  <2> QED BY <1>3, <2>1, ConnectionSafe, KademliaSafe
<1>4. ASSUME NEW m \in BagToSet(msgs), Deliver(m) \/ Lose(m) \/ InboundTimeout(m)
      PROVE  Safe'
  BY <1>4, DeliverSafe, LoseSafe
<1>5. ASSUME NEW m \in BagToSet(msgs), Handle(m.to, m) PROVE Safe'
  <2>1. m.to \in Node
    BY MsgFacts DEF SafeInv
  <2>2. ReplyPanic(m.to, m) \/ RelayPanic(m.to, m) => Safe'
    BY <2>1, EndSafe DEF ReplyPanic, RelayPanic
  <2> QED BY <1>5, <2>1, <2>2, RequestSafe, LoadSafe, IdentifySafe DEF Handle
<1>6. CASE UNCHANGED vars
  <2>1. UNCHANGED <<msgs, requests, table>> /\ LinksGrow
    BY <1>6, SameLinks DEF vars
  <2> QED BY <2>1, TableStep
<1> QED BY <1>1, <1>2, <1>3, <1>4, <1>5, <1>6 DEF Next

-----------------------------------------------------------------------------
(* Theorems *)

THEOREM SafeInvariance == Spec => []SafeInv
BY InitSafe, StepSafe, PTL DEF Spec

\* No record a node sends, whether it answers a request or introduces two
\* peers, lists a boot node of the sender or an address of a private network.
THEOREM RecordsStayPublic == Spec => []RecordsArePublic
<1>1. SafeInv => RecordsArePublic
  BY DEF SafeInv, Right, ListsPublic, RecordsArePublic
<1> QED BY <1>1, SafeInvariance, PTL

\* Both sides of every introduction under way are in its sender's `requests`,
\* through restarts of the sender, and no node has introduced one peer only.
THEOREM IntroductionsStayMutual == Spec => []IntroductionsAreMutual
<1>1. SafeInv => IntroductionsAreMutual
  BY DEF SafeInv, Right, Noted, NoSingles, IntroductionsAreMutual
<1> QED BY <1>1, SafeInvariance, PTL

\* Whatever Identify messages and records bring, a client that dials through
\* relays files direct addresses only of its first boot node, of the node it
\* saved and of peers it dialled itself.
THEOREM DialersHoldRelayed == Spec => []RelayedAddressesOnly
<1>1. SafeInv => RelayedAddressesOnly
  BY DEF SafeInv
<1> QED BY <1>1, SafeInvariance, PTL

-----------------------------------------------------------------------------
(* PeerExchange implements AddressBook *)

\* Only an Identify is about its sender, and about nobody else.
OwnNews(m) ==
  /\ m.ty = "Identify" => DOMAIN m.nodes = {m.from}
  /\ m.ty \in Listing => m.from \notin DOMAIN m.nodes
\* A connection that is up has running ends.
UpRuns == \A k \in DOMAIN links : links[k].up => \A p \in ends(k) : status[p] = "running"

BookInv == SafeInv /\ (\A m \in BagToSet(msgs) : OwnNews(m)) /\ UpRuns

Refines == Promise!ANext \/ UNCHANGED Promise!avars
Says(m) == m.ty \in Listing \cup {"Identify"}

LEMMA LettersFrom ==
  ASSUME NEW S, BagToSet(msgs') \subseteq BagToSet(msgs) \cup S
  PROVE  \A l \in Letters' : l \in Letters \/ \E m \in S : Says(m) /\ l = Letter(m)
<1> SUFFICES ASSUME NEW l \in Letters'
             PROVE  l \in Letters \/ \E m \in S : Says(m) /\ l = Letter(m)
  OBVIOUS
<1>1. PICK m \in BagToSet(msgs') : Says(m) /\ l = Letter(m)
  BY DEF Letters, Letter, Says
<1> QED BY <1>1 DEF Letters, Says

LEMMA FewerLetters ==
  ASSUME NEW S, BagToSet(msgs') \subseteq BagToSet(msgs) \cup S,
         \A m \in S : Says(m) => Letter(m) \in Letters
  PROVE  Letters' \subseteq Letters
BY LettersFrom

LEMMA SameDialled ==
  ASSUME LinksGrow, DOMAIN links' = DOMAIN links
  PROVE  Dialled' = Dialled
BY DEF LinksGrow, Dialled

LEMMA LostRefines ==
  ASSUME UNCHANGED <<status, table>>, Dialled' = Dialled, Letters' \subseteq Letters
  PROVE  Refines
<1>1. Alive' = Alive
  BY DEF Alive
<1> QED BY <1>1 DEF Refines, Promise!ANext, Promise!Lost

LEMMA QuietRefines ==
  ASSUME UNCHANGED <<status, table, links>>, NEW S,
         BagToSet(msgs') \subseteq BagToSet(msgs) \cup S,
         \A m \in S : Says(m) => Letter(m) \in Letters
  PROVE  Refines
BY SameLinks, SameDialled, FewerLetters, LostRefines

\* Sending what says nothing of nodes, or nothing new.
LEMMA PlainRefines ==
  ASSUME UNCHANGED <<status, table, links>>, NEW S,
         BagToSet(msgs') \subseteq BagToSet(msgs) \cup S, \A m \in S : ~ Says(m)
  PROVE  Refines
BY QuietRefines

LEMMA IdleRefines ==
  ASSUME UNCHANGED <<status, table, msgs>>, Dialled' = Dialled
  PROVE  Refines
<1>1. Letters' = Letters
  BY DEF Letters, Letter
<1> QED BY <1>1, LostRefines

LEMMA BookTable ==
  ASSUME BookInv
  PROVE  /\ table \in [Node -> [Node -> SUBSET Addr]]
         /\ \A n \in Node : table[n][n] = {}
         /\ \A n, p \in Node : \A a \in table[n][p] : a.peer = p
         /\ status \in [Node -> Status] /\ SafeInv /\ IndInv
BY DEF BookInv, SafeInv, IndInv, GoodTable

LEMMA LinkDialled ==
  ASSUME BookInv, NEW k \in DOMAIN links
  PROVE  LET d == <<links[k].dialer, links[k].addr>> IN
         /\ d \in Dialled /\ d[1] = links[k].dialer /\ d[2] = links[k].addr
         /\ ends(k) = {d[1], d[2].peer} /\ d[1] \in Node /\ d[2].peer \in Node
         /\ d[1] # d[2].peer /\ links[k] \in Link
<1>1. links[k].addr.peer # links[k].dialer /\ links[k] \in Link
      /\ links[k].dialer \in Node /\ links[k].addr.peer \in Node
  BY LinkFacts DEF BookInv, SafeInv, IndInv, GoodLinks
<1> QED BY <1>1 DEF Dialled, ends

\* Filing addresses in a table is filing them in the book.
LEMMA FileRefines ==
  ASSUME BookInv, NEW n \in Node, NEW p \in Node, n # p, NEW A, status[n] = "running",
         table' = add_address(table, n, p, A), UNCHANGED <<status, msgs>>, Dialled' = Dialled
  PROVE  Promise!File(n, p, A)
<1>1. Letters' = Letters /\ Alive' = Alive /\ n \in Alive
  BY DEF Letters, Letter, Alive
<1>2. table' = [table EXCEPT ![n][p] = @ \cup A]
  BY DEF add_address
<1> QED BY <1>1, <1>2 DEF Promise!File

LEMMA DialRefines ==
  ASSUME BookInv, NEW n \in Node, NEW a \in Addr, Dial(n, a)
  PROVE  Refines
<1> DEFINE l == [dialer |-> n, addr |-> a, up |-> TRUE,
                 kad |-> FALSE, seen |-> {}, closed |-> {}, told |-> {}]
<1>1. l \in Link /\ l.dialer = n /\ l.addr = a
  BY DEF Link
<1>2. links \in Seq(Link) /\ links' = Append(links, l)
  BY DEF BookInv, SafeInv, IndInv, GoodLinks, Dial
<1> HIDE DEF l
<1>3. /\ \A k \in 1..Len(links) : links'[k] = links[k]
      /\ DOMAIN links = 1..Len(links) /\ DOMAIN links' = 1..(Len(links) + 1)
      /\ Len(links) \in Nat /\ links'[Len(links) + 1] = l
  BY <1>1, <1>2, AppendProperties, LenProperties
<1>4. Dialled' = Dialled \cup {<<n, a>>}
  <2>1. ASSUME NEW d \in Dialled' PROVE d \in Dialled \cup {<<n, a>>}
    <3>1. PICK k \in DOMAIN links' : d = <<links'[k].dialer, links'[k].addr>>
      BY DEF Dialled
    <3> QED BY <1>1, <1>3, <3>1 DEF Dialled
  <2>2. ASSUME NEW d \in Dialled PROVE d \in Dialled'
    BY <1>3 DEF Dialled
  <2>3. <<n, a>> \in Dialled'
    <3>1. Len(links) + 1 \in DOMAIN links'
      BY <1>3
    <3> QED BY <1>1, <1>3, <3>1 DEF Dialled
  <2> QED BY <2>1, <2>2, <2>3
<1>5. /\ a.peer # n /\ {n, a.peer} \subseteq Alive /\ a.peer \in Node
      /\ a \in table[n][a.peer] \/ <<n, a>> \in DialPlan
  BY DEF Dial, Reachable, Alive, Addr
<1>6. UNCHANGED <<Alive, table, Letters>>
  BY DEF Dial, Alive, Letters, Letter
<1>7. Promise!ADial(n, a)
  BY <1>4, <1>5, <1>6 DEF Promise!ADial
<1>8. a \in table[n][a.peer] \cup {d[2] : d \in DialPlan}
  <2>1. <<n, a>>[2] = a
    OBVIOUS
  <2> QED BY <1>5, <2>1
<1> QED BY <1>5, <1>7, <1>8 DEF Refines, Promise!ANext

LEMMA DialFailsRefines ==
  ASSUME BookInv, NEW n \in Node, NEW p \in Node, DialFails(n, p)
  PROVE  Refines
<1>1. PICK A \in SUBSET table[n][p] : A # table[n][p] /\ table' = [table EXCEPT ![n][p] = @ \ A]
  BY DEF DialFails
<1>2. UNCHANGED <<Alive, Dialled, Letters>> /\ n \in Alive
  BY DEF DialFails, Alive, Dialled, Letters, Letter
<1>3. Promise!Strike(n, p)
  BY <1>1, <1>2 DEF Promise!Strike
<1> QED BY <1>3 DEF Refines, Promise!ANext

LEMMA LinkEventRefines ==
  ASSUME BookInv, NEW n \in Node, NEW k \in DOMAIN links,
         ConnectionEstablished(n, k) \/ ConnectionClosed(n, k)
  PROVE  Refines
<1> DEFINE d == <<links[k].dialer, links[k].addr>>
           p == other(k, n)
<1>1. /\ d \in Dialled /\ d[1] = links[k].dialer /\ d[2] = links[k].addr
      /\ ends(k) = {d[1], d[2].peer} /\ d[1] # d[2].peer /\ links[k] \in Link
  BY LinkDialled
<1>2. n \in ends(k) /\ p \in Node /\ p # n /\ ends(k) = {n, p} /\ status[n] = "running"
  BY <1>1, LinkFacts DEF ConnectionEstablished, ConnectionClosed, ends, other, BookInv, SafeInv, IndInv
<1>3. UNCHANGED <<status, msgs>> /\ Dialled' = Dialled
  <2>1. UNCHANGED <<status, msgs>>
    BY DEF ConnectionEstablished, ConnectionClosed
  <2>2. /\ DOMAIN links' = DOMAIN links
        /\ \A j \in DOMAIN links : /\ links'[j].dialer = links[j].dialer
                                   /\ links'[j].addr = links[j].addr
    BY <1>1 DEF ConnectionEstablished, ConnectionClosed, Link
  <2> QED BY <2>1, <2>2 DEF Dialled
<1> HIDE DEF d, p
<1>4. CASE ConnectionEstablished(n, k) /\ UNCHANGED table
  BY <1>3, <1>4, IdleRefines
<1>5. CASE ConnectionEstablished(n, k) /\ n # links[k].dialer
           /\ table' = add_address(table, n, p, {SendBack[p]})
  <2>1. d[1] = p /\ d[2].peer = n
    BY <1>1, <1>2, <1>5
  <2>2. Promise!File(n, p, {SendBack[p]})
    BY <1>2, <1>3, <1>5, FileRefines
  <2>3. Promise!Greet(n, p)
    BY <1>1, <2>1, <2>2 DEF Promise!Greet
  <2> QED BY <1>2, <2>3 DEF Refines, Promise!ANext
<1>6. CASE ConnectionClosed(n, k)
  <2>1. table' = [table EXCEPT ![n][p] = {}]
    BY <1>6 DEF ConnectionClosed, remove_peer, p
  <2>2. UNCHANGED <<Alive, Letters>> /\ n \in Alive
    BY <1>2, <1>3 DEF Alive, Letters, Letter
  <2>3. Promise!Forget(n, p)
    BY <1>1, <1>2, <1>3, <2>1, <2>2 DEF Promise!Forget, Promise!Met
  <2> QED BY <1>2, <2>3 DEF Refines, Promise!ANext
<1> QED BY <1>4, <1>5, <1>6 DEF ConnectionEstablished, p

LEMMA KademliaRefines ==
  ASSUME BookInv, NEW k \in DOMAIN links, KademliaConfirmed(k)
  PROVE  Refines
<1> DEFINE d == <<links[k].dialer, links[k].addr>>
<1>1. /\ d \in Dialled /\ d[1] = links[k].dialer /\ d[2] = links[k].addr
      /\ ends(k) = {d[1], d[2].peer} /\ d[1] \in Node /\ d[2].peer \in Node
      /\ d[1] # d[2].peer /\ links[k] \in Link
  BY LinkDialled
<1>2. UNCHANGED <<status, msgs>> /\ Dialled' = Dialled
  <2>1. UNCHANGED <<status, msgs>>
    BY DEF KademliaConfirmed
  <2>2. /\ DOMAIN links' = DOMAIN links
        /\ \A j \in DOMAIN links : /\ links'[j].dialer = links[j].dialer
                                   /\ links'[j].addr = links[j].addr
    BY <1>1 DEF KademliaConfirmed, Link
  <2> QED BY <2>1, <2>2 DEF Dialled
<1>3. status[d[1]] = "running"
  BY <1>1 DEF KademliaConfirmed, BookInv, UpRuns
<1>4. table' = add_address(table, d[1], d[2].peer, {d[2]})
  BY <1>1 DEF KademliaConfirmed, other
<1> HIDE DEF d
<1>5. Promise!File(d[1], d[2].peer, {d[2]})
  BY <1>1, <1>2, <1>3, <1>4, FileRefines
<1>6. Promise!Confirm(d)
  BY <1>1, <1>5 DEF Promise!Confirm
<1> QED BY <1>1, <1>6 DEF Refines, Promise!ANext

LEMMA AnnounceRefines ==
  ASSUME BookInv, NEW n \in Node, NEW k \in DOMAIN links, IdentifyArrives(n, k)
  PROVE  Refines
<1> DEFINE d == <<links[k].dialer, links[k].addr>>
           p == other(k, n)
<1>1. /\ d \in Dialled /\ ends(k) = {d[1], d[2].peer}
  BY LinkDialled
<1>2. /\ n \in ends(k) /\ p \in Node /\ ends(k) = {n, p} /\ {n, p} \subseteq Alive
  <2>1. n \in ends(k) /\ p \in Node /\ links[k].up /\ ends(k) = {n, p}
    BY LinkFacts DEF IdentifyArrives, connected, BookInv, SafeInv, IndInv
  <2> QED BY <2>1 DEF BookInv, UpRuns, Alive
<1>3. PICK A \in Advertised[p] :
        msgs' = msgs (+) Only(Message("inbox", 0, "Identify", p, n, [q \in {p} |-> A]))
  BY DEF IdentifyArrives
<1> DEFINE m == Message("inbox", 0, "Identify", p, n, [q \in {p} |-> A])
           l == [from |-> p, to |-> n, about |-> [q \in {p} |-> A]]
<1>4. Says(m) /\ Letter(m) = l
  BY DEF Message, Says, Letter
<1>5. BagToSet(msgs') = BagToSet(msgs) \cup {m}
  BY <1>3, AddedSet, SmallBags
<1> HIDE DEF m, l
<1>6. Letters' = Letters \cup {l}
  BY <1>4, <1>5 DEF Letters, Letter, Says
<1>7. UNCHANGED <<Alive, table, Dialled>>
  <2>1. UNCHANGED <<status, table>>
    BY DEF IdentifyArrives
  <2>2. /\ DOMAIN links' = DOMAIN links
        /\ \A j \in DOMAIN links : /\ links'[j].dialer = links[j].dialer
                                   /\ links'[j].addr = links[j].addr
    BY LinkDialled DEF IdentifyArrives, Link
  <2> QED BY <2>1, <2>2 DEF Alive, Dialled
<1> HIDE DEF p, d
<1>8. Promise!Announce(p, n)
  BY <1>1, <1>2, <1>6, <1>7 DEF Promise!Announce, Promise!Met, l
<1> QED BY <1>2, <1>8 DEF Refines, Promise!ANext

LEMMA EndRefines ==
  ASSUME BookInv, NEW n \in Node, status[n] = "running",
         NEW why \in Status \ {"running"}, End(n, why)
  PROVE  Refines
<1>1. /\ status' = [status EXCEPT ![n] = why]
      /\ table' = [table EXCEPT ![n] = [p \in Node |-> {}]]
  BY DEF End
<1>2. Alive' = Alive \ {n} /\ n \in Alive
  BY <1>1, BookTable DEF Alive
<1>3. Dialled' = Dialled
  <2>1. DOMAIN links' = DOMAIN links
    BY DEF End
  <2>2. LinksGrow
    BY EndGrows, BookTable
  <2> QED BY <2>1, <2>2, SameDialled
<1>4. ASSUME NEW m \in BagToSet(msgs') PROVE m \in BagToSet(msgs)
  BY <1>4, SurvivingSet DEF End, BagToSet
<1>5. Letters' \subseteq Letters
  <2> DEFINE S == {}
  <2>1. BagToSet(msgs') \subseteq BagToSet(msgs) \cup S /\ \A m \in S : Says(m) => Letter(m) \in Letters
    BY <1>4
  <2> HIDE DEF S
  <2> QED BY <2>1, FewerLetters
<1>6. Promise!AEnd(n)
  BY <1>1, <1>2, <1>3, <1>5 DEF Promise!AEnd
<1> QED BY <1>6 DEF Refines, Promise!ANext

LEMMA OperatorRefines ==
  ASSUME BookInv, NEW n \in Node, Operator(n)
  PROVE  Refines
<1>1. ASSUME NEW kind, NEW ty \in {"Ping", "GetNetworkNodes"}, NEW S, NEW sent,
             Issue(kind, n, sent), BagToSet(sent) = {Send(n, p, ty, NoNodes) : p \in S}
      PROVE  Refines
  <2>1. UNCHANGED <<status, table, links>> /\ msgs' = msgs (+) sent
    BY <1>1 DEF Issue
  <2>2. \A m \in BagToSet(sent) : ~ Says(m)
    BY <1>1 DEF Send, Message, Says, Listing
  <2> QED BY <2>1, <2>2, AddedSet, PlainRefines
<1>2. \A p, ty : BagToSet(Only(Send(n, p, ty, NoNodes))) = {Send(n, q, ty, NoNodes) : q \in {p}}
  BY SmallBags
<1>3. ASSUME NEW p \in Node, Ping(n, p) \/ GetNodes(n, p) PROVE Refines
  BY <1>1, <1>2, <1>3 DEF Ping, GetNodes
<1>4. CASE GetNodesFromBootNodes(n)
  BY <1>1, <1>4, SmallBags DEF GetNodesFromBootNodes
<1>5. CASE PingTick(n)
  BY <1>1, <1>5, SmallBags DEF PingTick
<1>6. CASE Stop(n)
  BY <1>6, EndRefines DEF Stop, Status
<1>7. CASE Restart(n)
  <2>1. /\ UNCHANGED <<Dialled, Letters>> /\ table' = [table EXCEPT ![n] = Saved[n]]
        /\ n \notin Alive /\ Alive' = Alive \cup {n}
    BY <1>7, BookTable DEF Restart, Dialled, Letters, Letter, Alive
  <2>2. Promise!ARestart(n)
    BY <2>1 DEF Promise!ARestart
  <2> QED BY <2>2 DEF Refines, Promise!ANext
<1> QED BY <1>3, <1>4, <1>5, <1>6, <1>7 DEF Operator

LEMMA DropRefines ==
  ASSUME BookInv, NEW k \in DOMAIN links, Drop(k)
  PROVE  Refines
<1>1. links' = Broken({k}) /\ msgs' = Surviving({k}) /\ UNCHANGED <<status, table>>
  BY DEF Drop
<1>2. Dialled' = Dialled
  <2>1. DOMAIN links' = DOMAIN links
    BY <1>1 DEF Broken
  <2> QED BY <1>1, <2>1, BrokenGrows, BookTable, SameDialled
<1>3. Letters' \subseteq Letters
  <2> DEFINE S == {}
  <2>1. /\ BagToSet(msgs') \subseteq BagToSet(msgs) \cup S
        /\ \A m \in S : Says(m) => Letter(m) \in Letters
    BY <1>1, SurvivingSet
  <2> HIDE DEF S
  <2> QED BY <2>1, FewerLetters
<1> QED BY <1>1, <1>2, <1>3, LostRefines

\* A message that moves on says what it said.
LEMMA MovedLetter ==
  ASSUME BookInv, NEW m \in BagToSet(msgs), Deliver(m) \/ InboundTimeout(m)
  PROVE  \E x : Move(m, x) /\ Letter(x) = Letter(m) /\ x.ty = m.ty
<1>1. m \in [at : {"wire", "inbox"}, link : 0..MaxLinks,
            ty : Request \cup Response \cup {"Identify"},
            from : Node, to : Node, nodes : {m.nodes}]
  BY MsgFacts, BookTable DEF GoodMsg, IsMsg
<1>2. CASE DeliverResponse(m)
  <2> DEFINE x == [m EXCEPT !.at = "inbox", !.link = 0]
  <2>1. x.ty = m.ty /\ x.from = m.from /\ x.to = m.to /\ x.nodes = m.nodes
    BY <1>1
  <2>2. Move(m, x)
    BY <1>2 DEF DeliverResponse
  <2> HIDE DEF x
  <2> QED BY <2>1, <2>2 DEF Letter
<1>3. ASSUME NEW k \in DOMAIN links, DeliverRequest(m, k)
      PROVE  \E x : Move(m, x) /\ Letter(x) = Letter(m) /\ x.ty = m.ty
  <2> DEFINE x == [m EXCEPT !.at = "inbox", !.link = k]
  <2>1. x.ty = m.ty /\ x.from = m.from /\ x.to = m.to /\ x.nodes = m.nodes
    BY <1>1
  <2>2. Move(m, x)
    BY <1>3 DEF DeliverRequest
  <2> HIDE DEF x
  <2> QED BY <2>1, <2>2 DEF Letter
<1>4. CASE InboundTimeout(m)
  <2> DEFINE x == [m EXCEPT !.link = 0]
  <2>1. x.ty = m.ty /\ x.from = m.from /\ x.to = m.to /\ x.nodes = m.nodes
    BY <1>1
  <2>2. Move(m, x)
    BY <1>4 DEF InboundTimeout
  <2> HIDE DEF x
  <2> QED BY <2>1, <2>2 DEF Letter
<1> QED BY <1>2, <1>3, <1>4 DEF Deliver

LEMMA MoveRefines ==
  ASSUME BookInv, NEW m \in BagToSet(msgs), Deliver(m) \/ Lose(m) \/ InboundTimeout(m)
  PROVE  Refines
<1>1. UNCHANGED <<status, table, links>>
  BY DEF Deliver, DeliverRequest, DeliverResponse, Lose, InboundTimeout
<1>2. CASE Lose(m)
  BY <1>1, <1>2, ConsumedSet, SmallBags, PlainRefines DEF Lose
<1>3. CASE Deliver(m) \/ InboundTimeout(m)
  <2>1. PICK x : Move(m, x) /\ Letter(x) = Letter(m) /\ x.ty = m.ty
    BY <1>3, MovedLetter
  <2> DEFINE S == {x}
  <2>2. BagToSet(msgs') \subseteq BagToSet(msgs) \cup S
    BY <2>1, MovedSet
  <2>3. \A y \in S : Says(y) => Letter(y) \in Letters
    BY <2>1 DEF Says, Letters
  <2> HIDE DEF S
  <2> QED BY <1>1, <2>2, <2>3, QuietRefines
<1> QED BY <1>2, <1>3

\* A letter of n about what the table t holds: Promise!Telling, of either state.
Tells(n, l, t) ==
  /\ l.from = n /\ l.to # n
  /\ \A p \in DOMAIN l.about : /\ p \notin boot_ids(n) \cup {l.to, n}
                               /\ t[n][p] # {} /\ l.about[p] = {a \in t[n][p] : a.wan}

LEMMA TellsWrites ==
  ASSUME NEW n \in Node, \A l \in Letters' : l \in Letters \/ Tells(n, l, table')
  PROVE  Promise!Writes(n)
BY DEF Promise!Writes, Promise!Telling, Promise!Public, Tells, boot_ids

\* What get_network_record lists is what its node may tell.
LEMMA RecordTells ==
  ASSUME NEW t, NEW n \in Node, t[n][n] = {}, NEW r, r # n, NEW p,
         NEW l, l.from = n, l.to = r, r \notin DOMAIN l.about,
         DOMAIN l.about \subseteq DOMAIN get_network_record(t, n, p),
         \A q \in DOMAIN l.about : l.about[q] = get_network_record(t, n, p)[q]
  PROVE  Tells(n, l, t)
<1> DEFINE rec == get_network_record(t, n, p)
<1>1. /\ DOMAIN rec = {q \in Node : t[n][q] # {}} \ (boot_ids(n) \cup {p})
      /\ \A q \in DOMAIN rec : rec[q] = {a \in t[n][q] : a.wan}
  BY DEF get_network_record, get_external_addrs
<1>2. DOMAIN l.about \subseteq DOMAIN rec /\ \A q \in DOMAIN l.about : l.about[q] = rec[q]
  OBVIOUS
<1> HIDE DEF rec
<1>3. \A q \in DOMAIN l.about : /\ q \notin boot_ids(n) \cup {l.to, n}
                                /\ t[n][q] # {}
                                /\ l.about[q] = {a \in t[n][q] : a.wan}
  BY <1>1, <1>2
<1> QED BY <1>3 DEF Tells

LEMMA RequestRefines ==
  ASSUME BookInv, NEW m \in BagToSet(msgs),
         HandlePing(m.to, m) \/ HandleGetNetworkNodes(m.to, m) \/ HandlePong(m.to, m)
  PROVE  Refines
<1> DEFINE n == m.to
<1>1. UNCHANGED <<status, table, links>> /\ status[n] = "running"
  BY DEF HandlePing, HandleGetNetworkNodes, HandlePong, Event
<1>2. n \in Node /\ m.from \in Node /\ m.from # n
  BY MsgFacts, BookTable
<1>3. CASE HandlePing(n, m)
  <2>1. Consume(m, Reply(m, "Pong", NoNodes))
    BY <1>3 DEF HandlePing
  <2>2. \A x \in BagToSet(Reply(m, "Pong", NoNodes)) : ~ Says(x)
    BY SmallBags DEF Reply, Message, Says, Listing
  <2> QED BY <1>1, <2>1, <2>2, ConsumedSet, PlainRefines
<1>4. CASE HandlePong(n, m)
  BY <1>1, <1>4, ConsumedSet, SmallBags, PlainRefines DEF HandlePong
<1>5. CASE HandleGetNetworkNodes(n, m)
  <2> DEFINE rec == get_network_record(table, n, m.from)
             x == Message("wire", m.link, "Record", n, m.from, rec)
  <2>1. Consume(m, Reply(m, "Record", rec))
    BY <1>5 DEF HandleGetNetworkNodes
  <2>2. BagToSet(Reply(m, "Record", rec)) = {x}
    BY SmallBags DEF Reply
  <2>3. m.from \notin DOMAIN rec
    BY DEF get_network_record
  <2>4. Letter(x).from = n /\ Letter(x).to = m.from /\ Letter(x).about = rec
    BY DEF Letter, Message
  <2>5. Tells(n, Letter(x), table)
    <3> DEFINE l == Letter(x)
    <3>1. l.from = n /\ l.to = m.from /\ l.about = get_network_record(table, n, m.from)
      BY <2>4
    <3> HIDE DEF l, n, x
    <3>2. Tells(n, l, table)
      BY <1>2, <2>3, <3>1, RecordTells, BookTable
    <3> QED BY <3>2 DEF l
  <2> HIDE DEF n, x, rec
  <2>6. \A l \in Letters' : l \in Letters \/ l = Letter(x)
    BY <2>1, <2>2, ConsumedSet, LettersFrom
  <2>7. Promise!Writes(n)
    BY <1>1, <1>2, <2>5, <2>6, TellsWrites
  <2>8. UNCHANGED <<Alive, table, Dialled>> /\ n \in Alive
    BY <1>1, <1>2 DEF Alive, Dialled, n
  <2>9. Promise!Tell(n)
    BY <2>7, <2>8 DEF Promise!Tell
  <2> QED BY <1>2, <2>9 DEF Refines, Promise!ANext
<1> QED BY <1>3, <1>4, <1>5

LEMMA PingsSayNothing ==
  ASSUME NEW n, NEW rec PROVE \A x \in BagToSet(loaded_pings(n, rec)) : ~ Says(x)
BY DEF loaded_pings, BagToSet, Send, Message, Says, Listing

\* A table row that grows by what is filed from a letter.
LEMMA ReadRefines ==
  ASSUME BookInv, NEW m \in BagToSet(msgs), Says(m), status[m.to] = "running",
         table' = [table EXCEPT ![m.to] =
                     [p \in Node |-> @[p] \cup Promise!Filed(m.to, Letter(m), p)]],
         UNCHANGED <<status, links>>,
         \A l \in Letters' : l \in Letters \/ Tells(m.to, l, table')
  PROVE  Refines
<1> DEFINE n == m.to
<1>1. n \in Node /\ n \in Alive /\ Letter(m) \in Letters /\ Letter(m).to = n
  BY MsgFacts, BookTable DEF Alive, Letters, Says, Letter
<1>2. UNCHANGED <<Alive, Dialled>>
  BY DEF Alive, Dialled
<1>3. Promise!Writes(n)
  BY <1>1, TellsWrites
<1>4. Promise!Read(n, Letter(m))
  BY <1>1, <1>2, <1>3 DEF Promise!Read
<1> QED BY <1>1, <1>4 DEF Refines, Promise!ANext

LEMMA LoadRefines ==
  ASSUME BookInv, NEW m \in BagToSet(msgs),
         HandleSendNodeRecord(m.to, m) \/ HandleRecord(m.to, m)
  PROVE  Refines
<1> DEFINE n == m.to
           rec == m.nodes
<1>1. /\ UNCHANGED <<status, links>> /\ status[n] = "running" /\ m.ty \in Listing
      /\ table' = loaded_table(n, rec) /\ ~ RelayMissing(n, rec)
  BY DEF HandleSendNodeRecord, HandleRecord, Event, Listing
<1>2. n \in Node /\ m.from \notin DOMAIN rec /\ Says(m)
  BY <1>1, MsgFacts, BookTable DEF BookInv, OwnNews, Says
<1>3. n \in RelayDial \cap Server => \A p \in DOMAIN rec : rec[p] = {}
  BY <1>1, <1>2, BootNodesAssumption DEF RelayMissing
<1>4. ASSUME NEW p \in Node
      PROVE  Promise!Filed(n, Letter(m), p) =
               IF p \notin DOMAIN rec \ {n} \/ rec[p] = {} THEN {}
               ELSE IF n \in RelayDial THEN {get_relayed_addr(n, p)} ELSE rec[p]
  <2>1. Letter(m).about = rec /\ Letter(m).from = m.from
    BY DEF Letter
  <2>2. n \in RelayDial \ Server => Promise!Relayed(n, p) = get_relayed_addr(n, p)
    BY DEF Promise!Relayed, get_relayed_addr
  <2> HIDE DEF n, rec
  <2> QED BY <1>2, <1>3, <2>1, <2>2 DEF Promise!Filed
<1>5. table' = [table EXCEPT ![n] = [p \in Node |-> @[p] \cup Promise!Filed(n, Letter(m), p)]]
  <2> DEFINE new(p) == IF p \notin DOMAIN rec \ {n} \/ rec[p] = {} THEN {}
                       ELSE IF n \in RelayDial THEN {get_relayed_addr(n, p)} ELSE rec[p]
  <2>1. [p \in Node |-> table[n][p] \cup Promise!Filed(n, Letter(m), p)] =
          [p \in Node |-> table[n][p] \cup new(p)]
    BY <1>4
  <2>2. [p \in Node |-> IF p \notin DOMAIN rec \ {n} \/ rec[p] = {} THEN table[n][p]
                        ELSE table[n][p] \cup IF n \in RelayDial THEN {get_relayed_addr(n, p)}
                                                                 ELSE rec[p]] =
          [p \in Node |-> table[n][p] \cup new(p)]
    OBVIOUS
  <2>3. table' = [table EXCEPT ![n] = [p \in Node |-> table[n][p] \cup new(p)]]
    BY <1>1, <1>2, <2>2, BookTable DEF loaded_table
  <2> QED BY <1>2, <2>1, <2>3, BookTable
<1>6. Letters' \subseteq Letters
  <2>1. CASE HandleRecord(n, m)
    <3>1. Consume(m, loaded_pings(n, rec))
      BY <2>1 DEF HandleRecord
    <3> QED BY <3>1, ConsumedSet, PingsSayNothing, FewerLetters
  <2>2. CASE HandleSendNodeRecord(n, m)
    <3> DEFINE r == Reply(m, "GotNetworkRecord", NoNodes)
    <3>1. Consume(m, loaded_pings(n, rec) (+) r)
      BY <2>2 DEF HandleSendNodeRecord
    <3>2. \A x \in BagToSet(r) : ~ Says(x)
      BY SmallBags DEF Reply, Message, Says, Listing
    <3>3. BagToSet(loaded_pings(n, rec) (+) r) = BagToSet(loaded_pings(n, rec)) \cup BagToSet(r)
      BY DEF BagToSet, (+)
    <3> QED BY <3>1, <3>2, <3>3, ConsumedSet, PingsSayNothing, FewerLetters
  <2> QED BY <2>1, <2>2
<1> QED BY <1>1, <1>2, <1>5, <1>6, ReadRefines

LEMMA IdentifyRefines ==
  ASSUME BookInv, NEW m \in BagToSet(msgs), HandleIdentify(m.to, m)
  PROVE  Refines
<1> DEFINE n == m.to
           p == m.from
           A == m.nodes[p]
           B == identified_addrs(n, p, A)
           rec == get_network_record(table', n, p)
<1>1. /\ UNCHANGED <<status, links>> /\ status[n] = "running" /\ m.ty = "Identify"
      /\ table' = add_address(table, n, p, B)
  BY DEF HandleIdentify, Event
<1>2. n \in Node /\ p \in Node /\ p # n /\ DOMAIN m.nodes = {p} /\ Says(m)
  BY <1>1, MsgFacts, BookTable DEF BookInv, OwnNews, Says
<1>3. ASSUME NEW q \in Node
      PROVE  Promise!Filed(n, Letter(m), q) = IF q = p THEN B ELSE {}
  <2>1. Letter(m).about = m.nodes /\ Letter(m).from = p
    BY DEF Letter
  <2>2. n \in RelayDial \ Server =>
          /\ Promise!Relayed(n, q) = get_relayed_addr(n, q)
          /\ [k \in RelayDial \ Server |-> BootNodes[k][1]][n] = BootNodes[n][1]
    BY DEF Promise!Relayed, get_relayed_addr
  <2> HIDE DEF n, p
  <2> QED BY <1>2, <2>1, <2>2 DEF Promise!Filed, identified_addrs
<1>4. table' = [table EXCEPT ![n] = [q \in Node |-> @[q] \cup Promise!Filed(n, Letter(m), q)]]
  <2> HIDE DEF n, p, B
  <2>1. [q \in Node |-> table[n][q] \cup Promise!Filed(n, Letter(m), q)] =
          [q \in Node |-> table[n][q] \cup IF q = p THEN B ELSE {}]
    BY <1>3
  <2>2. table' = [table EXCEPT ![n] = [q \in Node |-> table[n][q] \cup IF q = p THEN B ELSE {}]]
    BY <1>1, <1>2, BookTable DEF add_address
  <2> QED BY <1>2, <2>1, <2>2, BookTable
<1>5. table'[n][n] = {}
  <2> HIDE DEF n, p, B
  <2> QED BY <1>1, <1>2, BookTable DEF add_address
<1>6. ASSUME NEW l \in Letters' PROVE l \in Letters \/ Tells(n, l, table')
  <2>1. CASE Consume(m, EmptyBag)
    BY <1>6, <2>1, ConsumedSet, SmallBags, LettersFrom
  <2>2. ASSUME NEW first \in DOMAIN rec, NEW second \in DOMAIN rec, first # second,
               NEW copies, Consume(m, introductions(n, first, second, rec, copies)),
               l \notin Letters
        PROVE  Tells(n, l, table')
    <3> HIDE DEF n, p, rec
    <3>1. PICK x \in BagToSet(introductions(n, first, second, rec, copies)) : l = Letter(x)
      BY <1>6, <2>2, ConsumedSet, LettersFrom
    <3>2. PICK r \in DOMAIN rec :
            x = Send(n, r, "SendNodeRecord",
                     [q \in {IF r = first THEN second ELSE first} |-> rec[q]])
      BY <3>1 DEF introductions, BagToSet
    <3>3. PICK s \in DOMAIN rec : r # s /\ x = Send(n, r, "SendNodeRecord", [q \in {s} |-> rec[q]])
      BY <2>2, <3>2
    <3>4. l.from = n /\ l.to = r /\ l.about = [q \in {s} |-> rec[q]]
      BY <3>1, <3>3 DEF Send, Message, Letter
    <3>5. r # n
      BY <1>5 DEF rec, get_network_record
    <3>6. /\ DOMAIN l.about = {s} /\ l.about[s] = rec[s]
          /\ r \notin DOMAIN l.about /\ DOMAIN l.about \subseteq DOMAIN rec
          /\ \A q \in DOMAIN l.about : l.about[q] = rec[q]
      BY <3>3, <3>4
    <3> QED BY <1>2, <1>5, <3>4, <3>5, <3>6, RecordTells DEF rec
  <2> QED BY <1>1, <2>1, <2>2 DEF HandleIdentify
<1> QED BY <1>1, <1>2, <1>4, <1>6, ReadRefines

LEMMA StepRefines == BookInv /\ [Next]_vars => Refines
<1> SUFFICES ASSUME BookInv, [Next]_vars PROVE Refines
  OBVIOUS
<1>1. ASSUME NEW n \in Node, Connection(n) PROVE Refines
  BY <1>1, DialRefines, DialFailsRefines, LinkEventRefines, AnnounceRefines DEF Connection
<1>2. ASSUME NEW k \in DOMAIN links, Drop(k) \/ KademliaConfirmed(k) PROVE Refines
  BY <1>2, DropRefines, KademliaRefines
<1>3. ASSUME NEW m \in BagToSet(msgs), Handle(m.to, m) PROVE Refines
  <2>1. ReplyPanic(m.to, m) \/ RelayPanic(m.to, m) => Refines
    BY MsgFacts, BookTable, EndRefines DEF ReplyPanic, RelayPanic, Event, Status
  <2> QED BY <1>3, <2>1, RequestRefines, LoadRefines, IdentifyRefines DEF Handle
<1>4. CASE UNCHANGED vars
  BY <1>4 DEF vars, Refines, Promise!avars, Alive, Dialled, Letters, Letter
<1> QED BY <1>1, <1>2, <1>3, <1>4, OperatorRefines, MoveRefines DEF Next

LEMMA InitRefines == Init => Promise!AInit
<1> SUFFICES ASSUME Init PROVE Promise!AInit
  OBVIOUS
<1>1. BagToSet(msgs) = {}
  BY SmallBags DEF Init
<1> QED BY <1>1 DEF Init, Promise!AInit, Alive, Dialled, Letters

\* The invariant of the refinement.
News == \A m \in BagToSet(msgs) : OwnNews(m)

LEMMA NewsStep ==
  ASSUME BookInv, NEW S, BagToSet(msgs') \subseteq BagToSet(msgs) \cup S,
         \A m \in S : Says(m) => OwnNews(m)
  PROVE  News'
<1>1. \A m : ~ Says(m) => OwnNews(m)
  BY DEF Says, OwnNews
<1> QED BY <1>1 DEF BookInv, News

LEMMA FewerNews ==
  ASSUME BookInv, BagToSet(msgs') \subseteq BagToSet(msgs)
  PROVE  News'
BY DEF BookInv, News

LEMMA ConnectionNews ==
  ASSUME BookInv, NEW n \in Node, Connection(n)
  PROVE  News'
<1>1. ASSUME NEW k \in DOMAIN links, IdentifyArrives(n, k) PROVE News'
  <2> DEFINE p == other(k, n)
  <2>1. PICK A \in Advertised[p] :
          msgs' = msgs (+) Only(Message("inbox", 0, "Identify", p, n, [q \in {p} |-> A]))
    BY <1>1 DEF IdentifyArrives
  <2> DEFINE x == Message("inbox", 0, "Identify", p, n, [q \in {p} |-> A])
             S == {x}
  <2>2. \A y \in S : OwnNews(y)
    BY DEF Message, OwnNews, Listing
  <2>3. BagToSet(msgs') = BagToSet(msgs) \cup S
    BY <2>1, AddedSet, SmallBags
  <2> HIDE DEF S
  <2> QED BY <2>2, <2>3, NewsStep
<1>2. CASE UNCHANGED msgs
  BY <1>2, FewerNews
<1> QED BY <1>1, <1>2
        DEF Connection, Dial, DialFails, ConnectionEstablished, ConnectionClosed

LEMMA EndNews ==
  ASSUME BookInv, NEW n, NEW why, End(n, why)
  PROVE  News'
<1>1. ASSUME NEW m \in BagToSet(msgs') PROVE m \in BagToSet(msgs)
  BY <1>1, SurvivingSet DEF End, BagToSet
<1> QED BY <1>1, FewerNews

LEMMA OperatorNews ==
  ASSUME BookInv, NEW n \in Node, Operator(n)
  PROVE  News'
<1>1. ASSUME NEW kind, NEW ty \in {"Ping", "GetNetworkNodes"}, NEW S, NEW sent,
             Issue(kind, n, sent), BagToSet(sent) = {Send(n, p, ty, NoNodes) : p \in S}
      PROVE  News'
  <2>1. msgs' = msgs (+) sent
    BY <1>1 DEF Issue
  <2>2. \A m \in BagToSet(sent) : ~ Says(m)
    BY <1>1 DEF Send, Message, Says, Listing
  <2> QED BY <2>1, <2>2, AddedSet, NewsStep
<1>2. \A p, ty : BagToSet(Only(Send(n, p, ty, NoNodes))) = {Send(n, q, ty, NoNodes) : q \in {p}}
  BY SmallBags
<1>3. ASSUME NEW p \in Node, Ping(n, p) \/ GetNodes(n, p) PROVE News'
  BY <1>1, <1>2, <1>3 DEF Ping, GetNodes
<1>4. CASE GetNodesFromBootNodes(n)
  BY <1>1, <1>4, SmallBags DEF GetNodesFromBootNodes
<1>5. CASE PingTick(n)
  BY <1>1, <1>5, SmallBags DEF PingTick
<1>6. CASE Stop(n)
  BY <1>6, EndNews DEF Stop
<1>7. CASE Restart(n)
  BY <1>7, FewerNews DEF Restart
<1> QED BY <1>3, <1>4, <1>5, <1>6, <1>7 DEF Operator

LEMMA MoveNews ==
  ASSUME BookInv, NEW m \in BagToSet(msgs), Deliver(m) \/ Lose(m) \/ InboundTimeout(m)
  PROVE  News'
<1>1. CASE Lose(m)
  BY <1>1, ConsumedSet, SmallBags, FewerNews DEF Lose
<1>2. CASE Deliver(m) \/ InboundTimeout(m)
  <2>1. PICK x : Move(m, x) /\ Letter(x) = Letter(m) /\ x.ty = m.ty
    BY <1>2, MovedLetter
  <2> DEFINE S == {x}
  <2>2. BagToSet(msgs') \subseteq BagToSet(msgs) \cup S
    BY <2>1, MovedSet
  <2>3. \A y \in S : OwnNews(y)
    <3>1. Letter(x).from = x.from /\ Letter(m).from = m.from
          /\ Letter(x).about = x.nodes /\ Letter(m).about = m.nodes
      BY DEF Letter
    <3> QED BY <2>1, <3>1 DEF OwnNews, BookInv
  <2> HIDE DEF S
  <2> QED BY <2>2, <2>3, NewsStep
<1> QED BY <1>1, <1>2

LEMMA HandleNews ==
  ASSUME BookInv, NEW m \in BagToSet(msgs), Handle(m.to, m)
  PROVE  News'
<1> DEFINE n == m.to
<1>1. n \in Node /\ m.from \in Node /\ m.from # n
  BY MsgFacts, BookTable
<1>2. ASSUME NEW ty \in {"Pong", "GotNetworkRecord"}, NEW rec
      PROVE  \A x \in BagToSet(Reply(m, ty, rec)) : ~ Says(x)
  BY SmallBags DEF Reply, Message, Says, Listing
<1>3. CASE HandlePing(n, m)
  BY <1>2, <1>3, ConsumedSet, NewsStep DEF HandlePing
<1>4. CASE HandlePong(n, m)
  BY <1>4, ConsumedSet, SmallBags, FewerNews DEF HandlePong
<1>5. CASE HandleGetNetworkNodes(n, m)
  <2> DEFINE rec == get_network_record(table, n, m.from)
             x == Message("wire", m.link, "Record", n, m.from, rec)
  <2>1. BagToSet(Reply(m, "Record", rec)) = {x}
    BY SmallBags DEF Reply
  <2>2. n \notin DOMAIN rec
    BY <1>1, BookTable DEF get_network_record
  <2> HIDE DEF rec
  <2>3. OwnNews(x)
    BY <2>2 DEF OwnNews, Message
  <2>4. Consume(m, Reply(m, "Record", rec))
    BY <1>5 DEF HandleGetNetworkNodes, rec
  <2> HIDE DEF x
  <2> QED BY <2>1, <2>3, <2>4, ConsumedSet, NewsStep
<1>6. CASE HandleRecord(n, m)
  <2>1. Consume(m, loaded_pings(n, m.nodes))
    BY <1>6 DEF HandleRecord
  <2> QED BY <2>1, ConsumedSet, PingsSayNothing, NewsStep
<1>7. CASE HandleSendNodeRecord(n, m)
  <2> DEFINE r == Reply(m, "GotNetworkRecord", NoNodes)
  <2>1. Consume(m, loaded_pings(n, m.nodes) (+) r)
    BY <1>7 DEF HandleSendNodeRecord
  <2>2. BagToSet(loaded_pings(n, m.nodes) (+) r) = BagToSet(loaded_pings(n, m.nodes)) \cup BagToSet(r)
    BY DEF BagToSet, (+)
  <2> QED BY <1>2, <2>1, <2>2, ConsumedSet, PingsSayNothing, NewsStep
<1>8. CASE HandleIdentify(n, m)
  <2> DEFINE rec == get_network_record(table', n, m.from)
  <2>1. n \notin DOMAIN rec
    <3>1. \E B : table' = add_address(table, n, m.from, B)
      BY <1>8 DEF HandleIdentify
    <3> QED BY <1>1, <3>1, BookTable DEF add_address, get_network_record
  <2>2. ASSUME NEW first \in DOMAIN rec, NEW second \in DOMAIN rec, NEW copies,
               NEW x \in BagToSet(introductions(n, first, second, rec, copies))
        PROVE  OwnNews(x)
    <3> HIDE DEF rec
    <3>1. PICK r, s \in DOMAIN rec : x = Send(n, r, "SendNodeRecord", [q \in {s} |-> rec[q]])
      BY <2>2 DEF introductions, BagToSet
    <3> QED BY <2>1, <3>1 DEF Send, Message, OwnNews
  <2>3. CASE Consume(m, EmptyBag)
    BY <2>3, ConsumedSet, SmallBags, FewerNews
  <2>4. ASSUME NEW first \in DOMAIN rec, NEW second \in DOMAIN rec, NEW copies,
               Consume(m, introductions(n, first, second, rec, copies))
        PROVE  News'
    <3> HIDE DEF rec
    <3> QED BY <2>2, <2>4, ConsumedSet, NewsStep
  <2> QED BY <1>8, <2>3, <2>4 DEF HandleIdentify
<1>9. CASE ReplyPanic(n, m) \/ RelayPanic(n, m)
  BY <1>9, EndNews DEF ReplyPanic, RelayPanic
<1> QED BY <1>3, <1>4, <1>5, <1>6, <1>7, <1>8, <1>9 DEF Handle

LEMMA SameUp ==
  ASSUME BookInv, DOMAIN links' = DOMAIN links,
         \A k \in DOMAIN links :
           /\ links'[k].dialer = links[k].dialer /\ links'[k].addr = links[k].addr
           /\ links'[k].up => /\ links[k].up
                             /\ \A p \in ends(k) : status'[p] = status[p]
  PROVE  UpRuns'
BY DEF BookInv, UpRuns, ends

LEMMA EndUp ==
  ASSUME BookInv, NEW n \in Node, NEW why, End(n, why)
  PROVE  UpRuns'
<1> DEFINE L == {k \in DOMAIN links : involves(k, n)}
<1>1. status' = [status EXCEPT ![n] = why]
  BY DEF End
<1>2. DOMAIN links' = DOMAIN links
  BY DEF End
<1>3. LinksGrow
  BY EndGrows, BookTable
<1>4. ASSUME NEW k \in DOMAIN links, links'[k].up
      PROVE  links[k].up /\ n \notin ends(k)
  <2>1. links[k] \in Link
    BY LinkFacts, BookTable DEF IndInv
  <2> DEFINE b == Broken(L)[k]
  <2>2. b \in Link /\ (b.up => links[k].up /\ k \notin L)
    BY <2>1 DEF Broken, Link
  <2>3. links'[k] = IF n \in ends(k) THEN [b EXCEPT !.seen = @ \cup {n}, !.closed = @ \cup {n}] ELSE b
    BY DEF End
  <2> HIDE DEF b
  <2>4. links'[k].up = b.up
    BY <2>2, <2>3 DEF Link
  <2>5. n \in ends(k) => k \in L
    BY DEF involves
  <2> QED BY <1>4, <2>2, <2>4, <2>5
<1>5. \A k \in DOMAIN links : \A p \in ends(k) : p \in Node
  BY LinkFacts, BookTable DEF IndInv
<1> QED BY <1>1, <1>2, <1>3, <1>4, <1>5, SameUp, BookTable DEF LinksGrow

LEMMA UpStep == BookInv /\ [Next]_vars => UpRuns'
<1> SUFFICES ASSUME BookInv, [Next]_vars PROVE UpRuns'
  OBVIOUS
<1>1. \A k \in DOMAIN links : links[k] \in Link /\ \A p \in ends(k) : p \in Node
  BY LinkFacts, BookTable DEF IndInv
<1>2. UNCHANGED <<status, links>> => UpRuns'
  BY DEF BookInv, UpRuns, ends
<1>3. ASSUME NEW n \in Node, Connection(n) PROVE UpRuns'
  <2>1. ASSUME NEW a \in Addr, Dial(n, a) PROVE UpRuns'
    <3> DEFINE l == [dialer |-> n, addr |-> a, up |-> TRUE,
                     kad |-> FALSE, seen |-> {}, closed |-> {}, told |-> {}]
    <3>1. l \in Link /\ l.dialer = n /\ l.addr = a
      BY DEF Link
    <3>2. /\ links \in Seq(Link) /\ links' = Append(links, l) /\ UNCHANGED status
          /\ status[n] = "running" /\ status[a.peer] = "running"
      BY <2>1, BookTable DEF IndInv, GoodLinks, Dial, Reachable
    <3> HIDE DEF l
    <3>3. /\ \A k \in 1..Len(links) : links'[k] = links[k]
          /\ DOMAIN links = 1..Len(links) /\ DOMAIN links' = 1..(Len(links) + 1)
          /\ Len(links) \in Nat /\ links'[Len(links) + 1] = l
      BY <3>1, <3>2, AppendProperties, LenProperties
    <3> QED BY <3>1, <3>2, <3>3 DEF BookInv, UpRuns, ends
  <2>2. ASSUME NEW k \in DOMAIN links,
               \/ ConnectionEstablished(n, k) \/ ConnectionClosed(n, k)
               \/ IdentifyArrives(n, k)
        PROVE  UpRuns'
    <3>1. UNCHANGED status
      BY <2>2 DEF ConnectionEstablished, ConnectionClosed, IdentifyArrives
    <3>2. /\ DOMAIN links' = DOMAIN links
          /\ \A j \in DOMAIN links : /\ links'[j].dialer = links[j].dialer
                                     /\ links'[j].addr = links[j].addr
                                     /\ links'[j].up = links[j].up
      BY <1>1, <2>2 DEF ConnectionEstablished, ConnectionClosed, IdentifyArrives, Link
    <3> QED BY <3>1, <3>2, SameUp
  <2> QED BY <1>2, <1>3, <2>1, <2>2 DEF Connection, DialFails
<1>4. ASSUME NEW n \in Node, Operator(n) PROVE UpRuns'
  <2>1. CASE Restart(n)
    <3>1. status' = [status EXCEPT ![n] = "running"] /\ UNCHANGED links
      BY <2>1 DEF Restart
    <3> QED BY <1>1, <3>1, BookTable DEF BookInv, UpRuns, ends
  <2> QED BY <1>2, <1>4, <2>1, EndUp
          DEF Operator, Stop, Ping, GetNodes, GetNodesFromBootNodes, PingTick, Issue
<1>5. ASSUME NEW k \in DOMAIN links, Drop(k) \/ KademliaConfirmed(k) PROVE UpRuns'
  <2>1. UNCHANGED status
    BY <1>5 DEF Drop, KademliaConfirmed
  <2>2. /\ DOMAIN links' = DOMAIN links
        /\ \A j \in DOMAIN links : /\ links'[j].dialer = links[j].dialer
                                   /\ links'[j].addr = links[j].addr
                                   /\ links'[j].up => links[j].up
    <3>1. CASE Drop(k)
      BY <1>1, <3>1 DEF Drop, Broken, Link
    <3>2. CASE KademliaConfirmed(k)
      BY <1>1, <3>2 DEF KademliaConfirmed, Link
    <3> QED BY <1>5, <3>1, <3>2
  <2> QED BY <2>1, <2>2, SameUp
<1>6. ASSUME NEW m \in BagToSet(msgs), Deliver(m) \/ Lose(m) \/ InboundTimeout(m)
      PROVE  UpRuns'
  BY <1>2, <1>6 DEF Deliver, DeliverRequest, DeliverResponse, Lose, InboundTimeout
<1>7. ASSUME NEW m \in BagToSet(msgs), Handle(m.to, m) PROVE UpRuns'
  <2>1. ReplyPanic(m.to, m) \/ RelayPanic(m.to, m) => UpRuns'
    BY MsgFacts, BookTable, EndUp DEF ReplyPanic, RelayPanic
  <2> QED BY <1>2, <1>7, <2>1 DEF Handle, HandlePing, HandleGetNetworkNodes,
          HandleSendNodeRecord, HandlePong, HandleRecord, HandleIdentify
<1>8. CASE UNCHANGED vars
  BY <1>2, <1>8 DEF vars
<1> QED BY <1>3, <1>4, <1>5, <1>6, <1>7, <1>8 DEF Next

LEMMA StepBook == BookInv /\ [Next]_vars => BookInv'
<1> SUFFICES ASSUME BookInv, [Next]_vars PROVE BookInv'
  OBVIOUS
<1>1. SafeInv'
  BY StepSafe DEF BookInv
<1>2. News'
  <2>1. ASSUME NEW k \in DOMAIN links, Drop(k) \/ KademliaConfirmed(k) PROVE News'
    BY <2>1, SurvivingSet, FewerNews DEF Drop, KademliaConfirmed
  <2>2. CASE UNCHANGED vars
    BY <2>2, FewerNews DEF vars
  <2> QED BY <2>1, <2>2, ConnectionNews, OperatorNews, MoveNews, HandleNews DEF Next
<1>3. UpRuns'
  BY UpStep
<1> QED BY <1>1, <1>2, <1>3 DEF BookInv, News

LEMMA InitBook == Init => BookInv
<1> SUFFICES ASSUME Init PROVE BookInv
  OBVIOUS
<1>1. SafeInv
  BY InitSafe
<1>2. BagToSet(msgs) = {} /\ DOMAIN links = {}
  BY SmallBags DEF Init
<1> QED BY <1>1, <1>2 DEF BookInv, UpRuns

\* Whatever connections break, whichever dials fail or processes stop, panic or
\* start again and however often a message is sent, the nodes do what AddressBook
\* says: what they file and tell is what they saw, dialled or heard, an entry
\* goes once its two nodes have met, and struck-out addresses never empty one.
THEOREM ExchangeRefinesBook == Spec => RefinesAddressBook
<1>1. Init => BookInv /\ Promise!AInit
  BY InitBook, InitRefines
<1>2. BookInv /\ [Next]_vars => BookInv' /\ [Promise!ANext]_(Promise!avars)
  BY StepBook, StepRefines DEF Refines
<1> QED BY <1>1, <1>2, PTL DEF Spec, RefinesAddressBook, Promise!ASpec

-----------------------------------------------------------------------------
(* Exchanges run down *)

\* The body of ExchangesRunDown.
RunDownStep ==
  stimuli' = stimuli =>
    \A x \in BagToSet(msgs') : Copies(x, msgs') > Copies(x, msgs) =>
      \/ FirstIdentify(x)
      \/ \E m \in BagToSet(msgs) : /\ Copies(m, msgs') < Copies(m, msgs)
                                   /\ Progress(m) < Progress(x)

LEMMA FewerRunDown ==
  ASSUME IndInv, NEW S, S \subseteq DOMAIN msgs, msgs' = [m \in S |-> msgs[m]]
  PROVE  RunDownStep
<1>1. \A x \in DOMAIN msgs : msgs[x] \in Nat
  BY DEF IndInv, GoodMsgs, IsABag
<1>2. \A x \in BagToSet(msgs') : Copies(x, msgs') = Copies(x, msgs)
  BY DEF Copies, BagToSet
<1>3. \A x \in BagToSet(msgs') : Copies(x, msgs) \in Nat
  BY <1>1 DEF Copies, BagToSet
<1> QED BY <1>2, <1>3 DEF RunDownStep

LEMMA ReplacedCopies ==
  ASSUME IndInv, NEW m \in BagToSet(msgs), NEW sent, m \notin DOMAIN sent, Consume(m, sent)
  PROVE  /\ Copies(m, msgs') < Copies(m, msgs)
         /\ \A x : Copies(x, msgs') > Copies(x, msgs) => x \in DOMAIN sent
<1> DEFINE C == msgs (-) Only(m)
<1>1. m \in DOMAIN msgs /\ \A x \in DOMAIN msgs : msgs[x] \in Int /\ msgs[x] > 0
  BY DEF IndInv, GoodMsgs, IsABag, BagToSet
<1>2. DOMAIN Only(m) = {m} /\ Only(m)[m] = 1
  BY DEF Only, SetToBag
<1>3. /\ DOMAIN C = {x \in DOMAIN msgs : (IF x \in {m} THEN msgs[x] - 1 ELSE msgs[x]) > 0}
      /\ \A x \in DOMAIN C : C[x] = IF x \in {m} THEN msgs[x] - 1 ELSE msgs[x]
  BY <1>2 DEF (-)
<1> HIDE DEF C
<1>4. /\ DOMAIN msgs' = DOMAIN C \cup DOMAIN sent
      /\ \A x \in DOMAIN C \ DOMAIN sent : msgs'[x] = C[x] + 0
  BY DEF C, Consume, (+)
<1>5. Copies(m, msgs') < Copies(m, msgs)
  BY <1>1, <1>3, <1>4 DEF Copies
<1>6. ASSUME NEW x, x \notin DOMAIN sent, Copies(x, msgs') > Copies(x, msgs)
      PROVE  FALSE
  <2>1. CASE x \in DOMAIN C
    BY <1>1, <1>3, <1>4, <1>6, <2>1 DEF Copies
  <2>2. CASE x \notin DOMAIN C
    <3>1. Copies(x, msgs') = 0
      BY <1>4, <1>6, <2>2 DEF Copies
    <3>2. Copies(x, msgs) \in Int /\ Copies(x, msgs) >= 0
      BY <1>1 DEF Copies
    <3> QED BY <1>6, <3>1, <3>2
  <2> QED BY <2>1, <2>2
<1> QED BY <1>5, <1>6

\* Whatever takes a message away and sends only what comes later runs down.
LEMMA ReplacedRunDown ==
  ASSUME IndInv, NEW m \in BagToSet(msgs), NEW sent, Consume(m, sent),
         Progress(m) \in Int, \A x \in BagToSet(sent) : Progress(m) < Progress(x)
  PROVE  RunDownStep
<1>1. m \notin DOMAIN sent /\ DOMAIN sent = BagToSet(sent)
  BY DEF BagToSet
<1> QED BY <1>1, ReplacedCopies DEF RunDownStep

LEMMA SameRunDown == ASSUME IndInv, UNCHANGED msgs PROVE RunDownStep
<1>1. \A x \in BagToSet(msgs) : msgs[x] \in Nat
  BY DEF IndInv, GoodMsgs, IsABag, BagToSet
<1> QED BY <1>1 DEF RunDownStep, Copies, BagToSet

LEMMA StimulusRunDown == ASSUME IndInv, NEW kind, NEW n, Stimulus(kind, n) PROVE RunDownStep
<1>1. stimuli \in Int /\ stimuli' = stimuli + 1
  BY BoundAssumption DEF IndInv, Stimulus
<1> QED BY <1>1 DEF RunDownStep

LEMMA ProgressOf ==
  ASSUME NEW m
  PROVE  /\ m.ty = "Identify" => Progress(m) \in 0..1
         /\ m.ty \in {"GetNetworkNodes", "SendNodeRecord"} => Progress(m) \in 2..3
         /\ m.ty = "Record" => Progress(m) \in 4..5
         /\ m.ty = "Ping" => Progress(m) \in 6..7
         /\ m.ty \in {"Pong", "GotNetworkRecord"} => Progress(m) \in 8..9
BY DEF Progress, Stage

LEMMA EndRunsDown ==
  ASSUME IndInv, NEW n, NEW why, End(n, why)
  PROVE  RunDownStep
<1> DEFINE L == {k \in DOMAIN links : involves(k, n)}
           S == {m \in DOMAIN Surviving(L) : /\ m.at = "inbox" => m.to # n
                                             /\ m.at = "wire" => m.from # n}
<1>1. msgs' = [m \in S |-> msgs[m]]
  BY DEF End
<1>2. S \subseteq DOMAIN msgs
  BY SurvivingGood
<1> HIDE DEF S
<1> QED BY <1>1, <1>2, FewerRunDown

LEMMA DeliverRunsDown ==
  ASSUME IndInv, NEW m \in BagToSet(msgs), Deliver(m)
  PROVE  RunDownStep
<1>1. m \in [at : {"wire", "inbox"}, link : 0..MaxLinks,
            ty : Request \cup Response \cup {"Identify"},
            from : Node, to : Node, nodes : {m.nodes}]
  BY MsgFacts DEF GoodMsg, IsMsg
<1>2. PICK k : Move(m, [m EXCEPT !.at = "inbox", !.link = k]) /\ m.at = "wire"
  BY DEF Deliver, DeliverRequest, DeliverResponse
<1> DEFINE x == [m EXCEPT !.at = "inbox", !.link = k]
<1>3. x.ty = m.ty /\ x.at = "inbox"
  BY <1>1
<1>4. Consume(m, Only(x)) /\ BagToSet(Only(x)) = {x}
  BY <1>2, SmallBags DEF Move, Consume
<1> HIDE DEF x
<1>5. Stage(m.ty) \in 0..4
  BY <1>1 DEF Stage, Request, Response
<1>6. Progress(m) \in Int /\ Progress(m) < Progress(x)
  BY <1>2, <1>3, <1>5 DEF Progress
<1> QED BY <1>4, <1>6, ReplacedRunDown

LEMMA IdentifySends ==
  ASSUME NEW n, NEW m, HandleIdentify(n, m)
  PROVE  \/ Consume(m, EmptyBag)
         \/ \E first, second, rec, copies :
              Consume(m, introductions(n, first, second, rec, copies))
<1> DEFINE A == m.nodes[m.from]
           rec == get_network_record(
                    add_address(table, n, m.from, identified_addrs(n, m.from, A)), n, m.from)
<1>1. ASSUME NEW first \in DOMAIN rec, NEW second \in DOMAIN rec,
             Consume(m, introductions(n, first, second, rec, Cardinality(A)))
      PROVE  \E f, s, r, c : Consume(m, introductions(n, f, s, r, c))
  BY <1>1, Zenon
<1>2. Consume(m, EmptyBag) \/ \E first, second \in DOMAIN rec :
                                 Consume(m, introductions(n, first, second, rec, Cardinality(A)))
  BY DEF HandleIdentify
<1> HIDE DEF A, rec
<1> QED BY <1>1, <1>2

LEMMA HandleRunsDown ==
  ASSUME IndInv, NEW m \in BagToSet(msgs), Handle(m.to, m)
  PROVE  RunDownStep
<1> DEFINE n == m.to
<1>1. ASSUME NEW ty, NEW rec
      PROVE  \A x \in BagToSet(Reply(m, ty, rec)) : x.ty = ty
  BY SmallBags DEF Reply, Message
<1>2. ASSUME NEW rec PROVE \A x \in BagToSet(loaded_pings(n, rec)) : x.ty = "Ping"
  BY DEF loaded_pings, BagToSet, Send, Message
<1>3. CASE HandlePing(n, m)
  <2>1. m.ty = "Ping" /\ Consume(m, Reply(m, "Pong", NoNodes))
    BY <1>3 DEF HandlePing, Event
  <2> QED BY <1>1, <2>1, ProgressOf, ReplacedRunDown
<1>4. CASE HandleGetNetworkNodes(n, m)
  <2>1. m.ty = "GetNetworkNodes" /\ \E rec : Consume(m, Reply(m, "Record", rec))
    BY <1>4 DEF HandleGetNetworkNodes, Event
  <2> QED BY <1>1, <2>1, ProgressOf, ReplacedRunDown
<1>5. CASE HandleSendNodeRecord(n, m)
  <2> DEFINE r == Reply(m, "GotNetworkRecord", NoNodes)
  <2>1. m.ty = "SendNodeRecord" /\ Consume(m, loaded_pings(n, m.nodes) (+) r)
    BY <1>5 DEF HandleSendNodeRecord, Event
  <2>2. BagToSet(loaded_pings(n, m.nodes) (+) r) = BagToSet(loaded_pings(n, m.nodes)) \cup BagToSet(r)
    BY DEF BagToSet, (+)
  <2>3. \A x \in BagToSet(loaded_pings(n, m.nodes) (+) r) : x.ty \in {"Ping", "GotNetworkRecord"}
    BY <1>1, <1>2, <2>2
  <2> QED BY <2>1, <2>3, ProgressOf, ReplacedRunDown
<1>6. CASE HandleRecord(n, m)
  <2>1. m.ty = "Record" /\ Consume(m, loaded_pings(n, m.nodes))
    BY <1>6 DEF HandleRecord, Event
  <2> QED BY <1>2, <2>1, ProgressOf, ReplacedRunDown
<1>7. CASE HandlePong(n, m)
  <2>1. m.ty \in {"Pong", "GotNetworkRecord"} /\ Consume(m, EmptyBag)
    BY <1>7 DEF HandlePong, Event
  <2> QED BY <2>1, SmallBags, ProgressOf, ReplacedRunDown
<1>8. CASE HandleIdentify(n, m)
  <2>1. m.ty = "Identify"
    BY <1>8 DEF HandleIdentify, Event
  <2>2. PICK sent : Consume(m, sent) /\ \A x \in BagToSet(sent) : x.ty = "SendNodeRecord"
    <3>1. ASSUME NEW first, NEW second, NEW rec, NEW copies,
                 NEW x \in BagToSet(introductions(n, first, second, rec, copies))
          PROVE  x.ty = "SendNodeRecord"
      <4>1. PICK p, told : x = Send(n, p, "SendNodeRecord", told)
        BY <3>1 DEF introductions, BagToSet
      <4> QED BY <4>1 DEF Send, Message
    <3>2. Consume(m, EmptyBag) \/ \E first, second, rec, copies :
                                    Consume(m, introductions(n, first, second, rec, copies))
      BY <1>8, IdentifySends
    <3>3. CASE Consume(m, EmptyBag)
      BY <3>3, SmallBags
    <3>4. ASSUME NEW first, NEW second, NEW rec, NEW copies,
                 Consume(m, introductions(n, first, second, rec, copies))
          PROVE  \E sent : Consume(m, sent) /\ \A x \in BagToSet(sent) : x.ty = "SendNodeRecord"
      BY <3>1, <3>4
    <3> QED BY <3>2, <3>3, <3>4
  <2> QED BY <2>1, <2>2, ProgressOf, ReplacedRunDown
<1>9. CASE ReplyPanic(n, m) \/ RelayPanic(n, m)
  <2>1. PICK why : End(n, why)
    BY <1>9 DEF ReplyPanic, RelayPanic
  <2> QED BY <2>1, EndRunsDown
<1> QED BY <1>3, <1>4, <1>5, <1>6, <1>7, <1>8, <1>9 DEF Handle

\* A connection brings its end a first Identify, and nothing else.
LEMMA IdentifyRunsDown ==
  ASSUME IndInv, NEW n \in Node, NEW k \in DOMAIN links, IdentifyArrives(n, k)
  PROVE  RunDownStep
<1>1. CASE n \in links[k].told
  BY <1>1, StimulusRunDown DEF IdentifyArrives
<1>2. CASE n \notin links[k].told
  <2>1. PICK m : m.ty = "Identify" /\ m.to = n /\ msgs' = msgs (+) Only(m)
    BY DEF IdentifyArrives, Message
  <2>2. links[k] \in Link /\ links' = [links EXCEPT ![k].told = @ \cup {n}]
    BY LinkFacts DEF IndInv, IdentifyArrives
  <2>3. n \in links'[k].told
    BY <2>2 DEF Link
  <2>4. FirstIdentify(m)
    BY <1>2, <2>1, <2>3 DEF FirstIdentify
  <2>5. ASSUME NEW x, x # m PROVE ~ (Copies(x, msgs') > Copies(x, msgs))
    <3>1. \A y \in DOMAIN msgs : msgs[y] \in Int /\ msgs[y] > 0
      BY DEF IndInv, GoodMsgs, IsABag
    <3>2. /\ DOMAIN msgs' = DOMAIN msgs \cup {m}
          /\ x \in DOMAIN msgs => msgs'[x] = msgs[x] + 0
      BY <2>1, <2>5 DEF Only, SetToBag, (+)
    <3> QED BY <2>5, <3>1, <3>2 DEF Copies
  <2> QED BY <2>4, <2>5 DEF RunDownStep
<1> QED BY <1>1, <1>2

LEMMA StepRunsDown == IndInv /\ [Next]_vars => RunDownStep
<1> SUFFICES ASSUME IndInv, [Next]_vars PROVE RunDownStep
  OBVIOUS
<1>1. ASSUME NEW n \in Node, Connection(n) PROVE RunDownStep
  BY <1>1, SameRunDown, IdentifyRunsDown
     DEF Connection, Dial, DialFails, ConnectionEstablished, ConnectionClosed
<1>2. ASSUME NEW n \in Node, Operator(n) PROVE RunDownStep
  BY <1>2, StimulusRunDown
     DEF Operator, Ping, GetNodes, GetNodesFromBootNodes, PingTick, Issue, Stop, Restart
<1>3. ASSUME NEW k \in DOMAIN links, Drop(k) \/ KademliaConfirmed(k) PROVE RunDownStep
  BY <1>3, SameRunDown, StimulusRunDown DEF Drop, KademliaConfirmed
<1>4. ASSUME NEW m \in BagToSet(msgs), Lose(m) \/ InboundTimeout(m) PROVE RunDownStep
  <2>1. CASE Consume(m, EmptyBag)
    <3>1. Progress(m) \in Int
      BY MsgFacts, ProgressOf DEF GoodMsg, IsMsg, Request, Response
    <3> QED BY <2>1, <3>1, SmallBags, ReplacedRunDown
  <2> QED BY <1>4, <2>1, StimulusRunDown DEF Lose, InboundTimeout
<1>5. CASE UNCHANGED vars
  BY <1>5, SameRunDown DEF vars
<1> QED BY <1>1, <1>2, <1>3, <1>4, <1>5, DeliverRunsDown, HandleRunsDown DEF Next

\* No chain of handlers, through any number of nodes, comes back to where it
\* began without a new connection: each message is further on than the one it
\* answers, loads or introduces from (handler.rs:289-545, 945-956), or it is the
\* first Identify that a connection brings to one of its two ends.
THEOREM ExchangesAlwaysRunDown == Spec => ExchangesRunDown
<1>1. IndInv /\ [Next]_vars =>
        [stimuli' = stimuli =>
           \A x \in BagToSet(msgs') : Copies(x, msgs') > Copies(x, msgs) =>
             \/ FirstIdentify(x)
             \/ \E m \in BagToSet(msgs) : /\ Copies(m, msgs') < Copies(m, msgs)
                                          /\ Progress(m) < Progress(x)]_vars
  BY StepRunsDown DEF RunDownStep
<1> QED BY <1>1, Invariance, PTL DEF Spec, ExchangesRunDown
=============================================================================
