---------------------------- MODULE PeerExchange ----------------------------
(***************************************************************************)
(* How DecentNet nodes learn of one another.  Every node runs one event    *)
(* loop (src/bin/main.rs) over a libp2p Swarm and handles its events one   *)
(* at a time (src/src/network/handler.rs).  What a node knows of the       *)
(* others is its Kademlia table; a node that holds two other peers when a  *)
(* third identifies itself introduces them to each other with              *)
(* SendNodeRecord requests, and any node answers GetNetworkNodes with the  *)
(* peers it knows.                                                         *)
(*                                                                         *)
(* The network is the environment: connections break at any moment, dials  *)
(* and requests may fail, a message may wait at a node while its connection     *)
(* dies, and the events of a connection and those of the protocols reach   *)
(* the loop in different orders (a Swarm reports the connection pool's     *)
(* events before the events its behaviours have queued).                   *)
(***************************************************************************)
EXTENDS Integers, Sequences, FiniteSets, Bags

CONSTANTS
  Node,         \* the network ids
  Server,       \* the nodes started with -s (server_mode)
  RelayDial,    \* the nodes whose config has relay_dial_mode
  BootNodes,    \* BootNodes[n]: the boot nodes in n's config, as addresses
  SendBack,     \* SendBack[n]: the address a listener sees n calling from
  Advertised,   \* Advertised[n]: the listen_addrs n may send with Identify
  Saved,        \* Saved[n][p]: the addresses the first line of data/nodes gives
  DialPlan,     \* <<n, a>>: n dials a at its start or on a "d" command
  MaxRecord,    \* nodes of a record that fit in the codec's 2048 bytes
  MaxLinks,     \* BOUND: connections opened in a behaviour
  Introduces,   \* BOUND: <<p, n>>: the Identify messages of p that get to n
  Stimuli,      \* BOUND: <<kind, n>>: the stimuli that may come to node n
  MaxStimuli    \* BOUND: how many of them in a behaviour

(***************************************************************************)
(* A multiaddr, reduced to where it leads: straight to its peer (via is    *)
(* the peer) or over a relay's circuit to it (via is the relay), and       *)
(* whether is_public_ip holds of it, an ipv4 address of the open internet. *)
(***************************************************************************)
Addr == [peer : Node, via : Node, wan : BOOLEAN]

ASSUME NodeAssumption == IsFiniteSet(Node)
ASSUME ServerAssumption == Server \subseteq Node
ASSUME RelayDialAssumption == RelayDial \subseteq Node

\* A client's main unwraps its first boot node (main.rs:102); a server is
\* started with none (constants.rs BOOT_NODES).
ASSUME BootNodesAssumption ==
  /\ BootNodes \in [Node -> Seq({a \in Addr : a.via = a.peer})]
  /\ \A n \in Node : BootNodes[n] = <<>> <=> n \in Server
  /\ \A n \in Node : \A i \in 1..Len(BootNodes[n]) : BootNodes[n][i].peer # n

ASSUME AddressAssumption ==
  /\ SendBack \in [Node -> Addr]
  /\ \A n \in Node : SendBack[n].peer = n /\ SendBack[n].via = n
  /\ Advertised \in [Node -> SUBSET SUBSET Addr]
  /\ \A n \in Node : \A A \in Advertised[n] : \A a \in A : a.peer = n
  /\ Saved \in [Node -> [Node -> SUBSET Addr]]
  /\ \A n, p \in Node : \A a \in Saved[n][p] : a.peer = p /\ p # n
  /\ DialPlan \subseteq Node \X Addr
  /\ \A d \in DialPlan : d[2].peer # d[1]

Kind == {"dial", "drop", "stop", "restart", "timeout", "identify", "ping",
         "get nodes", "get boot nodes", "ping tick"}
ASSUME BoundAssumption ==
  /\ Stimuli \subseteq Kind \X Node
  /\ Introduces \subseteq Node \X Node
  /\ MaxRecord \in Nat
  /\ MaxLinks \in Nat
  /\ MaxStimuli \in Nat

VARIABLES
  status,      \* status[n]: running, or how its process ended
  table,       \* table[n][p]: the addresses n's Kademlia table holds for p
  requests,    \* requests[n]: the peers named in the behaviour's `requests`
  rendezvous,  \* rendezvous[n]: commands queued on the ignored behaviour
  links,       \* links[k]: the connections opened so far
  msgs,        \* a bag: messages on the wire and events waiting at a node
  stimuli      \* how many commands, ticks, failures and repeats so far

vars == <<status, table, requests, rendezvous, links, msgs, stimuli>>

Status == {"running", "stopped", "reply_panic", "relay_panic"}
\* seen, closed: the ends whose loop handled ConnectionEstablished / Closed;
\* kad: Kademlia has put the dialled address in the dialer's table; told: the
\* ends that the other's Identify message has reached.
Link == [dialer : Node, addr : Addr, up : BOOLEAN, kad : BOOLEAN,
         seen : SUBSET Node, closed : SUBSET Node, told : SUBSET Node]

Request == {"Ping", "GetNetworkNodes", "SendNodeRecord"}
Response == {"Pong", "Record", "GotNetworkRecord"}
IsRecord(rec) == /\ DOMAIN rec \subseteq Node
                 /\ rec \in [DOMAIN rec -> SUBSET Addr]
NoNodes == [p \in {} |-> {}]

\* link: the connection a message is bound to, 0 when there is none (yet, or
\* any more).  An Identify event carries the sender's listen_addrs.
IsMsg(m) ==
  /\ m \in [at : {"wire", "inbox"}, link : 0..MaxLinks,
            ty : Request \cup Response \cup {"Identify"},
            from : Node, to : Node, nodes : {m.nodes}]
  /\ IsRecord(m.nodes)

-----------------------------------------------------------------------------
(* Addresses and tables *)

boot_ids(n) == {BootNodes[n][i].peer : i \in 1..Len(BootNodes[n])}
Known(n) == {p \in Node : table[n][p] # {}}
get_external_addrs_all(A) == A
get_external_addrs(A) == {a \in A : a.wan}

\* Panics when n has no boot node: the actions that call it guard that case.
get_relayed_addr(n, p) ==
  [peer |-> p, via |-> BootNodes[n][1].peer, wan |-> BootNodes[n][1].wan]

\* Kademlia::add_address: a set of addresses per peer, never the local one's.
add_address(t, n, p, A) ==
  IF p = n THEN t ELSE [t EXCEPT ![n][p] = @ \cup A]
\* Kademlia::remove_peer: the whole entry.
remove_peer(t, n, p) == [t EXCEPT ![n][p] = {}]

\* The known peers but the boot nodes and the requester.
get_network_record(t, n, requester) ==
  [p \in {q \in Node : t[n][q] # {}} \ (boot_ids(n) \cup {requester}) |->
     get_external_addrs(t[n][p])]

-----------------------------------------------------------------------------
(* Links and messages *)

ends(k) == {links[k].dialer, links[k].addr.peer}
other(k, n) ==
  IF n = links[k].dialer THEN links[k].addr.peer ELSE links[k].dialer
involves(k, n) == n \in ends(k) \cup {links[k].addr.via}

\* A connection between two nodes over which both behaviours can talk.
connected(k, n, p) ==
  /\ ends(k) = {n, p} /\ n # p
  /\ links[k].up
  /\ {n, p} \subseteq links[k].seen

Message(at, k, ty, n, p, rec) ==
  [at |-> at, link |-> k, ty |-> ty, from |-> n, to |-> p, nodes |-> rec]
Send(n, p, ty, rec) == Message("wire", 0, ty, n, p, rec)

Only(m) == SetToBag({m})
Move(m, m2) == msgs' = (msgs (-) Only(m)) (+) Only(m2)
Consume(m, sent) == msgs' = (msgs (-) Only(m)) (+) sent

\* What is left of the messages once the links L have broken: a response and
\* an unanswered request go with their link, a request waits for a link
\* between its ends as long as there is one.
Surviving(L) ==
  [m \in {x \in BagToSet(msgs) :
            \/ x.at = "inbox"
            \/ /\ x.link \notin L
               /\ ~ \E k \in L : /\ ends(k) = {x.from, x.to}
                                 /\ \A j \in DOMAIN links \ L :
                                      ~ connected(j, x.from, x.to)}
     |-> msgs[m]]
Broken(L) == [k \in DOMAIN links |->
                IF k \in L THEN [links[k] EXCEPT !.up = FALSE] ELSE links[k]]

\* What comes to a node from outside: commands, ticks, failures, and Identify
\* over a connection that has brought it before.
Stimulus(kind, n) ==
  /\ <<kind, n>> \in Stimuli
  /\ stimuli < MaxStimuli
  /\ stimuli' = stimuli + 1

-----------------------------------------------------------------------------
(* Nodes and connections *)

Init ==
  /\ status = [n \in Node |-> "running"]
  /\ table = Saved
  /\ requests = [n \in Node |-> {}]
  /\ rendezvous = [n \in Node |-> {}]
  /\ links = <<>>
  /\ msgs = EmptyBag
  /\ stimuli = 0

\* Over a circuit only a relay-listening peer with a live connection to the
\* relay is reached, and only clients have the relay transport.
Reachable(n, a) ==
  /\ status[a.peer] = "running"
  /\ a.via # a.peer =>
       /\ n \notin Server
       /\ a.peer \notin Server \cup RelayDial
       /\ n # a.via
       /\ \E k \in DOMAIN links : links[k].up /\ ends(k) = {a.peer, a.via}

\* The boot node and the saved node are dialled once in each start.
Started(n, a) ==
  \E k \in DOMAIN links :
    links[k].dialer = n /\ links[k].addr = a /\ n \notin links[k].closed
\* send_request makes its node dial a peer that it is not connected to, at the
\* addresses it has for it.
Seeks(n, p) ==
  /\ \E m \in BagToSet(msgs) : /\ m.at = "wire" /\ m.ty \in Request
                               /\ m.from = n /\ m.to = p
  /\ ~ \E k \in DOMAIN links : links[k].up /\ ends(k) = {n, p}

\* A dial that succeeds: of a start, an operator's "d", or send_request's.
\* BOUND: MaxLinks.
Dial(n, a) ==
  /\ status[n] = "running" /\ a.peer # n
  /\ Reachable(n, a)
  /\ \/ <<n, a>> \in DialPlan /\ ~ Started(n, a) /\ UNCHANGED stimuli
     \/ <<n, a>> \in DialPlan /\ Stimulus("dial", n)
     \/ a \in table[n][a.peer] /\ Seeks(n, a.peer) /\ UNCHANGED stimuli
  /\ Len(links) < MaxLinks
  /\ links' = Append(links, [dialer |-> n, addr |-> a, up |-> TRUE, kad |-> FALSE,
                             seen |-> {}, closed |-> {}, told |-> {}])
  /\ UNCHANGED <<status, table, requests, rendezvous, msgs>>

\* Kademlia drops the addresses at which a dial of p failed, be it all of the
\* dial or a part of one that succeeds after it; the last one it has it keeps.
DialFails(n, p) ==
  /\ status[n] = "running" /\ p # n
  /\ \E A \in (SUBSET table[n][p]) \ {{}, table[n][p]} :
       /\ Seeks(n, p) \/ \E a \in A : A = {a} /\ <<n, a>> \in DialPlan
       /\ table' = [table EXCEPT ![n][p] = @ \ A]
  /\ UNCHANGED <<status, requests, rendezvous, links, msgs, stimuli>>

\* A connection breaks; its ends learn of it later, each on its own.
Drop(k) ==
  /\ links[k].up
  /\ Stimulus("drop", links[k].dialer)
  /\ links' = Broken({k})
  /\ msgs' = Surviving({k})
  /\ UNCHANGED <<status, table, requests, rendezvous>>

\* SwarmEvent::ConnectionEstablished.
ConnectionEstablished(n, k) ==
  /\ status[n] = "running" /\ n \in ends(k)
  /\ n \notin links[k].seen
  /\ links' = [links EXCEPT ![k].seen = @ \cup {n}]
  /\ \/ /\ n \notin Server
        /\ rendezvous' = [rendezvous EXCEPT ![n] = @ \cup {"discover"}]
        /\ UNCHANGED table
     \/ /\ n \in Server /\ n # links[k].dialer
        /\ table' = add_address(table, n, other(k, n), {SendBack[other(k, n)]})
        /\ UNCHANGED rendezvous
     \/ /\ n \in Server /\ n = links[k].dialer
        /\ UNCHANGED <<table, rendezvous>>
  /\ UNCHANGED <<status, requests, msgs, stimuli>>

\* Kademlia's own reaction to a dialled peer that speaks its protocol.
KademliaConfirmed(k) ==
  LET n == links[k].dialer IN
  /\ links[k].up /\ n \in links[k].seen /\ ~ links[k].kad
  /\ links' = [links EXCEPT ![k].kad = TRUE]
  /\ table' = add_address(table, n, other(k, n), {links[k].addr})
  /\ UNCHANGED <<status, requests, rendezvous, msgs, stimuli>>

\* SwarmEvent::ConnectionClosed: the peer leaves the table, whatever other
\* connection to it there is.
ConnectionClosed(n, k) ==
  /\ status[n] = "running" /\ n \in ends(k)
  /\ ~ links[k].up
  /\ n \in links[k].seen \ links[k].closed
  /\ links' = [links EXCEPT ![k].closed = @ \cup {n}]
  /\ table' = remove_peer(table, n, other(k, n))
  /\ UNCHANGED <<status, requests, rendezvous, msgs, stimuli>>

\* The end of n's process: its links break, its memory and its events go.
End(n, why) ==
  LET L == {k \in DOMAIN links : involves(k, n)} IN
  /\ status' = [status EXCEPT ![n] = why]
  /\ table' = [table EXCEPT ![n] = [p \in Node |-> {}]]
  /\ requests' = [requests EXCEPT ![n] = {}]
  /\ rendezvous' = [rendezvous EXCEPT ![n] = {}]
  /\ links' = [k \in DOMAIN links |->
                 LET l == Broken(L)[k] IN
                 IF n \in ends(k)
                 THEN [l EXCEPT !.seen = @ \cup {n}, !.closed = @ \cup {n}]
                 ELSE l]
  /\ msgs' = [m \in {x \in DOMAIN Surviving(L) :
                       /\ x.at = "inbox" => x.to # n
                       /\ x.at = "wire" => x.from # n}
                |-> msgs[m]]

Stop(n) ==
  /\ status[n] = "running"
  /\ Stimulus("stop", n)
  /\ End(n, "stopped")

\* A start after an exit or a panic: only the node saved on the first line of
\* data/nodes is known again.
Restart(n) ==
  /\ status[n] # "running"
  /\ Stimulus("restart", n)
  /\ status' = [status EXCEPT ![n] = "running"]
  /\ table' = [table EXCEPT ![n] = Saved[n]]
  /\ UNCHANGED <<requests, rendezvous, links, msgs>>

-----------------------------------------------------------------------------
(* Messages: the transport and the request-response protocol *)

Fits(m) == Cardinality(DOMAIN m.nodes) <= MaxRecord

\* A request reaches the loop of its receiver over any connection of the two,
\* a response comes back on its request's.
DeliverRequest(m, k) ==
  /\ m.at = "wire" /\ m.ty \in Request
  /\ Fits(m)
  /\ status[m.to] = "running"
  /\ connected(k, m.from, m.to)
  /\ Move(m, [m EXCEPT !.at = "inbox", !.link = k])
  /\ UNCHANGED <<status, table, requests, rendezvous, links, stimuli>>

DeliverResponse(m) ==
  /\ m.at = "wire" /\ m.ty \in Response
  /\ Fits(m)
  /\ connected(m.link, m.from, m.to)
  /\ Move(m, [m EXCEPT !.at = "inbox", !.link = 0])
  /\ UNCHANGED <<status, table, requests, rendezvous, links, stimuli>>

\* OutboundFailure at the requester, which only logs it: no connection could
\* be made, the record is over the codec's limit, or 30 seconds went by.
Lose(m) ==
  /\ m.at = "wire"
  /\ \/ /\ ~ Fits(m) \/ ~ \E k \in DOMAIN links : links[k].up /\ ends(k) = {m.from, m.to}
        /\ UNCHANGED stimuli
     \/ Stimulus("timeout", m.from)
  /\ Consume(m, EmptyBag)
  /\ UNCHANGED <<status, table, requests, rendezvous, links>>

\* InboundFailure::Timeout: a request waited 30 seconds at its receiver. The
\* event stays in the queue, its ResponseChannel leads nowhere any more.
InboundTimeout(m) ==
  /\ m.at = "inbox" /\ m.ty \in Request /\ m.link # 0
  /\ Stimulus("timeout", m.to)
  /\ Move(m, [m EXCEPT !.link = 0])
  /\ UNCHANGED <<status, table, requests, rendezvous, links>>

\* The peer's Identify message comes in over link k and is queued for n: over
\* every connection, and every few minutes again.
IdentifyArrives(n, k) ==
  /\ n \in ends(k) /\ connected(k, n, other(k, n))
  /\ <<other(k, n), n>> \in Introduces
  /\ \/ n \notin links[k].told /\ UNCHANGED stimuli
     \/ n \in links[k].told /\ Stimulus("identify", n)
  /\ links' = [links EXCEPT ![k].told = @ \cup {n}]
  /\ \E A \in Advertised[other(k, n)] :
       msgs' = msgs (+) Only(Message("inbox", 0, "Identify", other(k, n), n,
                                     [p \in {other(k, n)} |-> A]))
  /\ UNCHANGED <<status, table, requests, rendezvous>>

-----------------------------------------------------------------------------
(* The event loop's handlers: one action per request, response and event *)

Event(n, m, ty) ==
  /\ status[n] = "running"
  /\ m.at = "inbox" /\ m.to = n /\ m.ty = ty

\* send_response(..) with its unwrap: it works as long as the connection's
\* task holds the other end of the ResponseChannel.
CanReply(n, m) == m.link # 0 /\ n \notin links[m.link].closed
MayNotReply(m) == m.link # 0 => ~ links[m.link].up
Reply(m, ty, rec) == Only(Message("wire", m.link, ty, m.to, m.from, rec))

\* load_node_record: every address of every named peer enters the table,
\* behind the first boot node when this node dials through relays, and is
\* followed by a Ping to the peer.
loaded_table(n, rec) ==
  [table EXCEPT ![n] =
     [p \in Node |->
        IF p \notin DOMAIN rec \ {n} \/ rec[p] = {} THEN @[p]
        ELSE @[p] \cup IF n \in RelayDial THEN {get_relayed_addr(n, p)}
                                          ELSE rec[p]]]
loaded_pings(n, rec) ==
  [m \in {Send(n, p, "Ping", NoNodes) : p \in {q \in DOMAIN rec : rec[q] # {}}}
     |-> Cardinality(rec[m.to])]
\* get_relayed_addr's unwrap meets an empty list of boot nodes.
RelayMissing(n, rec) ==
  /\ n \in RelayDial /\ BootNodes[n] = <<>>
  /\ \E p \in DOMAIN rec : rec[p] # {}

HandlePing(n, m) ==
  /\ Event(n, m, "Ping") /\ CanReply(n, m)
  /\ Consume(m, Reply(m, "Pong", NoNodes))
  /\ UNCHANGED <<status, table, requests, rendezvous, links, stimuli>>

HandleGetNetworkNodes(n, m) ==
  /\ Event(n, m, "GetNetworkNodes") /\ CanReply(n, m)
  /\ Consume(m, Reply(m, "Record", get_network_record(table, n, m.from)))
  /\ UNCHANGED <<status, table, requests, rendezvous, links, stimuli>>

HandleSendNodeRecord(n, m) ==
  /\ Event(n, m, "SendNodeRecord") /\ CanReply(n, m)
  /\ ~ RelayMissing(n, m.nodes)
  /\ table' = loaded_table(n, m.nodes)
  /\ Consume(m, loaded_pings(n, m.nodes) (+) Reply(m, "GotNetworkRecord", NoNodes))
  /\ UNCHANGED <<status, requests, rendezvous, links, stimuli>>

ReplyPanic(n, m) ==
  /\ \E ty \in Request : Event(n, m, ty)
  /\ MayNotReply(m)
  /\ ~ (m.ty = "SendNodeRecord" /\ RelayMissing(n, m.nodes))
  /\ End(n, "reply_panic")
  /\ UNCHANGED stimuli

HandlePong_echo(n, m) ==
  /\ Event(n, m, "Pong") \/ Event(n, m, "GotNetworkRecord")
  /\ Consume(m, Only(Send(n, m.from, "Ping", NoNodes)))
  /\ UNCHANGED <<status, table, requests, rendezvous, links, stimuli>>
\* Pong and GotNetworkRecord are only logged.
HandlePong(n, m) ==
  /\ Event(n, m, "Pong") \/ Event(n, m, "GotNetworkRecord")
  /\ Consume(m, EmptyBag)
  /\ UNCHANGED <<status, table, requests, rendezvous, links, stimuli>>

HandleRecord(n, m) ==
  /\ Event(n, m, "Record")
  /\ ~ RelayMissing(n, m.nodes)
  /\ table' = loaded_table(n, m.nodes)
  /\ Consume(m, loaded_pings(n, m.nodes))
  /\ UNCHANGED <<status, requests, rendezvous, links, stimuli>>

RelayPanic(n, m) ==
  /\ Event(n, m, "Record") \/ Event(n, m, "SendNodeRecord")
  /\ RelayMissing(n, m.nodes)
  /\ End(n, "relay_panic")
  /\ UNCHANGED stimuli

identified_addrs_direct(n, p, A) == A
\* The addresses handle_identify_event keeps for a peer that sent A.
identified_addrs(n, p, A) ==
  IF n \in RelayDial \ Server /\ p # BootNodes[n][1].peer /\ A # {}
  THEN {get_relayed_addr(n, p)} ELSE A

introductions_self(n, first, second, rec, copies) ==
  [m \in {Send(n, p, "SendNodeRecord", [q \in {first} |-> rec[q]])
            : p \in DOMAIN rec}
     |-> copies]
introductions_half(n, first, second, rec, copies) ==
  [m \in {Send(n, p, "SendNodeRecord", [q \in {first} |-> rec[q]])
            : p \in DOMAIN rec \ {first}}
     |-> copies]
introductions_mixed(n, first, second, rec, copies) ==
  [m \in {Send(n, p, "SendNodeRecord",
               [q \in {IF p = first THEN second ELSE first} |-> rec[p]])
            : p \in DOMAIN rec}
     |-> copies]
\* One introduction per peer of the record: the first peer of the buckets to
\* all the others, the second to the first; sent again for every address.
introductions(n, first, second, rec, copies) ==
  [m \in {Send(n, p, "SendNodeRecord",
               [q \in {IF p = first THEN second ELSE first} |-> rec[q]])
            : p \in DOMAIN rec}
     |-> copies]

introduced_addrs(rec, trigger) == {rec[p] : p \in DOMAIN rec}
introduced_trigger(rec, trigger) == {trigger}
\* Whom the introducer notes in `requests`: those it wrote to, never the peer
\* whose Identify set the introductions off.
introduced(rec, trigger) == DOMAIN rec

\* handle_identify_event. The order of the Kademlia buckets is arbitrary.
HandleIdentify(n, m) ==
  LET A == m.nodes[m.from]
      t == add_address(table, n, m.from, identified_addrs(n, m.from, A))
      rec == get_network_record(t, n, m.from)
      introduce == /\ A # {} /\ m.from \notin requests[n]
                   /\ \E p, q \in DOMAIN rec : p # q
  IN
  /\ Event(n, m, "Identify")
  /\ table' = t
  /\ \/ /\ introduce
        /\ \E first, second \in DOMAIN rec :
             /\ first # second
             /\ Consume(m, introductions(n, first, second, rec, Cardinality(A)))
        /\ requests' = [requests EXCEPT ![n] = @ \cup introduced(rec, m.from)]
     \/ /\ ~ introduce
        /\ Consume(m, EmptyBag)
        /\ UNCHANGED requests
  /\ rendezvous' = IF n \in Server THEN rendezvous
                   ELSE [rendezvous EXCEPT ![n] = @ \cup {"register"}]
  /\ UNCHANGED <<status, links, stimuli>>

-----------------------------------------------------------------------------
(* The operator's commands and the loop's ping tick *)

Issue(kind, n, sent) ==
  /\ status[n] = "running"
  /\ Stimulus(kind, n)
  /\ msgs' = msgs (+) sent
  /\ UNCHANGED <<status, table, requests, rendezvous, links>>

Ping(n, p) == n # p /\ Issue("ping", n, Only(Send(n, p, "Ping", NoNodes)))

GetNodes(n, p) ==
  n # p /\ Issue("get nodes", n, Only(Send(n, p, "GetNetworkNodes", NoNodes)))

GetNodesFromBootNodes(n) ==
  /\ BootNodes[n] # <<>>
  /\ Issue("get boot nodes", n, SetToBag({Send(n, p, "GetNetworkNodes", NoNodes)
                             : p \in boot_ids(n)}))

PingTick(n) ==
  /\ Known(n) \ boot_ids(n) # {}
  /\ Issue("ping tick", n, SetToBag({Send(n, p, "Ping", NoNodes)
                             : p \in Known(n) \ boot_ids(n)}))

-----------------------------------------------------------------------------
Handle(n, m) ==
  \/ HandlePing(n, m) \/ HandleGetNetworkNodes(n, m)
  \/ HandleSendNodeRecord(n, m) \/ HandlePong(n, m) \/ HandleRecord(n, m)
  \/ HandleIdentify(n, m) \/ ReplyPanic(n, m) \/ RelayPanic(n, m)

Deliver(m) ==
  DeliverResponse(m) \/ \E k \in DOMAIN links : DeliverRequest(m, k)

Operator(n) ==
  \/ \E p \in Node : Ping(n, p) \/ GetNodes(n, p)
  \/ GetNodesFromBootNodes(n) \/ PingTick(n)
  \/ Stop(n) \/ Restart(n)

Connection(n) ==
  \/ \E a \in Addr : Dial(n, a)
  \/ \E p \in Node : DialFails(n, p)
  \/ \E k \in DOMAIN links :
       ConnectionEstablished(n, k) \/ ConnectionClosed(n, k) \/ IdentifyArrives(n, k)

Next ==
  \/ \E n \in Node : Connection(n) \/ Operator(n)
  \/ \E k \in DOMAIN links : Drop(k) \/ KademliaConfirmed(k)
  \/ \E m \in BagToSet(msgs) : Deliver(m) \/ Lose(m) \/ InboundTimeout(m) \/ Handle(m.to, m)

Spec == Init /\ [][Next]_vars

-----------------------------------------------------------------------------
(* Properties *)

\* The shape of the state.
TypeOK ==
  /\ status \in [Node -> Status]
  /\ table \in [Node -> [Node -> SUBSET Addr]]
  /\ requests \in [Node -> SUBSET Node]
  /\ rendezvous \in [Node -> SUBSET {"discover", "register"}]
  /\ links \in Seq(Link) /\ Len(links) <= MaxLinks
  /\ IsABag(msgs) /\ \A m \in BagToSet(msgs) : IsMsg(m)
  /\ stimuli \in 0..MaxStimuli

Listing == {"Record", "SendNodeRecord"}

\* No node is ever told of itself, lists itself or talks to itself: the
\* requester is left out of the record it asked for, and an introduction goes
\* to a peer other than the one it names, so load_node_record's Pings, too,
\* all go to others.
NoSelfTalk ==
  /\ \A n \in Node : n \notin Known(n)
  /\ \A m \in BagToSet(msgs) : m.from # m.to /\ m.to \notin DOMAIN m.nodes

\* Every address a node holds or is sent for a peer leads to that peer: over
\* all the ways one is learnt (send_back_addr, dial, Identify, records, the
\* nodes file) no handler files an address under another peer's id.
AddressesLeadHome ==
  /\ \A n, p \in Node : \A a \in table[n][p] : a.peer = p
  /\ \A m \in BagToSet(msgs) : \A p \in DOMAIN m.nodes :
       \A a \in m.nodes[p] : a.peer = p

\* Records list neither a boot node of their sender nor an address that is
\* not public: what a node knows of its own network never leaves it.
RecordsArePublic ==
  \A m \in BagToSet(msgs) : m.ty \in Listing =>
    /\ DOMAIN m.nodes \cap boot_ids(m.from) = {}
    /\ \A p \in DOMAIN m.nodes : \A a \in m.nodes[p] : a.wan

\* Both sides of an introduction on its way are in the introducer's `requests`
\* of this same life of its process: whoever is introduced will not set off a
\* round of introductions itself. No set of introduced peers is a singleton.
IntroductionsAreMutual ==
  /\ \A m \in BagToSet(msgs) : m.ty = "SendNodeRecord" /\ m.at = "wire" =>
       {m.to} \cup DOMAIN m.nodes \subseteq requests[m.from]
  /\ \A n, p \in Node : requests[n] # {p}

\* A client that dials through relays holds a direct address only of its first
\* boot node, of the node it saved and of peers it dialled directly itself.
RelayedAddressesOnly ==
  \A n \in RelayDial \ Server : \A p \in Node : \A a \in table[n][p] :
    a.via = p =>
      \/ p = BootNodes[n][1].peer
      \/ a \in Saved[n][p]
      \/ \E k \in DOMAIN links : links[k].dialer = n /\ links[k].addr = a

\* How far an exchange has come: what answers, loads or introduces comes after
\* what set it off, and what waits at a node after what is on the wire.
Stage(ty) ==
  CASE ty = "Identify" -> 0
    [] ty \in {"GetNetworkNodes", "SendNodeRecord"} -> 1
    [] ty = "Record" -> 2
    [] ty = "Ping" -> 3
    [] ty \in {"Pong", "GotNetworkRecord"} -> 4
Copies(m, B) == IF m \in DOMAIN B THEN B[m] ELSE 0
Progress(m) == 2 * Stage(m.ty) + IF m.at = "inbox" THEN 1 ELSE 0

\* The first Identify message that a connection brings to one of its ends.
FirstIdentify(x) ==
  /\ x.ty = "Identify"
  /\ \E k \in DOMAIN links : x.to \notin links[k].told /\ x.to \in links'[k].told

\* Exchanges run down between connections: without a new stimulus, a message
\* comes from one that goes and was less far on, or is what a connection brings
\* an end of it once.  Loading a record, answering a Ping, telling of a new
\* peer: no chain of handlers, through any number of nodes, comes back to where
\* it began but by having made its node dial a peer that it had no connection to.
ExchangesRunDown ==
  [][stimuli' = stimuli =>
       \A x \in BagToSet(msgs') : Copies(x, msgs') > Copies(x, msgs) =>
         \/ FirstIdentify(x)
         \/ \E m \in BagToSet(msgs) : /\ Copies(m, msgs') < Copies(m, msgs)
                                      /\ Progress(m) < Progress(x)]_vars

\* Every handled request is answered: the code unwraps send_response.
NoReplyPanic == \A n \in Node : status[n] # "reply_panic"

\* Every node with relay_dial_mode has a boot node to relay through: the code
\* unwraps boot_nodes.first().
NoRelayPanic == \A n \in Node : status[n] # "relay_panic"

\* What a node writes its peer's codec can read: both sides of the protocol
\* share one limit.
RecordsFit == \A m \in BagToSet(msgs) : Fits(m)

-----------------------------------------------------------------------------
(* Refinement *)

\* What a message says of nodes, wherever it waits and however often it is sent.
Letter(m) == [from |-> m.from, to |-> m.to, about |-> m.nodes]
Alive == {n \in Node : status[n] = "running"}
Dialled == {<<links[k].dialer, links[k].addr>> : k \in DOMAIN links}
Letters == {Letter(m) : m \in {x \in BagToSet(msgs) : x.ty \in Listing \cup {"Identify"}}}

Promise == INSTANCE AddressBook WITH
  Dialers <- RelayDial \ Server,
  Relay <- [n \in RelayDial \ Server |-> BootNodes[n][1]],
  Boot <- [n \in Node |-> boot_ids(n)],
  alive <- Alive, book <- table, dialled <- Dialled, letters <- Letters

\* The nodes keep what AddressBook promises, over lost connections, restarts,
\* panics, failed dials and copies: an address is filed as the node itself saw,
\* dialled or heard it, a record tells exactly the public part of its sender's
\* table, and a relay dialer files the relayed address for any other.
RefinesAddressBook == Promise!ASpec

-----------------------------------------------------------------------------
(* Liveness *)

\* What the nodes' loops and the transport do of their own accord: a running
\* node handles what waits for it, its turns coming from tokio's select!, which
\* polls a ready branch after finitely many others; a message on the wire is
\* delivered while there is a connection, and request-response gives up on a
\* peer that it cannot dial.
Work ==
  \/ \E m \in BagToSet(msgs) : Deliver(m) \/ Lose(m) \/ Handle(m.to, m)
  \/ \E n \in Node : \E k \in DOMAIN links :
       ConnectionEstablished(n, k) \/ ConnectionClosed(n, k)

\* As long as there is work, some of it gets done: no loop and no connection need
\* be preferred, and that there is an end of it is no assumption.
FairSpec == Spec /\ WF_vars(Work)

\* Where Stimuli has none, a whole exchange dies out: the Identify messages of
\* the first connections, the introductions they set off, the Pings to whom one
\* was told of, the connections made for these and the Identify messages that
\* they bring in turn.
Quiescence == <>[](BagToSet(msgs) = {})

\* Where Stimuli has no failures (no connection breaks, no request times out),
\* two peers that a server has introduced get to know each other, in whatever
\* order its peers identify themselves: the SendNodeRecord of each is sent,
\* read, delivered and loaded.
IntroducedMeet ==
  \A n \in Server : \A S \in {T \in SUBSET (Node \ {n}) : Cardinality(T) = 2} :
    requests[n] = S ~> \A p \in S : S \ {p} \subseteq Known(p)
=============================================================================
