--------------------------- MODULE RecipeExchange ---------------------------
(***************************************************************************)
(* The recipe commands between nodes: mDNS finds the nodes of the local    *)
(* networks (handler.rs), floodsub carries what a node publishes to those  *)
(* it found, and on from them, and the main loop (src/bin/main.rs) takes   *)
(* every message apart: it prints what is addressed to this node and       *)
(* spawns an answer to a request.  Floodsub and mDNS are libraries; here   *)
(* they are the external operators below.  Each floodsub message has a     *)
(* substream of its own, so messages overtake each other.                  *)
(***************************************************************************)
EXTENDS Integers, Sequences, SequencesExt

CONSTANTS
  Node,       \* the nodes
  Local,      \* those started with local_discovery, and not in server mode
  Asker,      \* BOUND: the nodes whose user types recipe commands
  Named,      \* BOUND: the nodes that "ls r <id>" names
  Record,     \* what mDNS can find: [at, peer, addr]
  MaxAsks,    \* BOUND: recipe commands typed
  MaxFaults   \* BOUND: records expired, connections lost, files not readable

ASSUME LocalAssumption ==
  /\ Local \subseteq Node /\ Asker \subseteq Node /\ Named \subseteq Node
  /\ \A r \in Record : r.at \in Local /\ r.peer \in Local \ {r.at}
ASSUME NodeAssumption == IsFiniteSet(Node) /\ Node \cap {"All", "none"} = {}
ASSUME ExchangeBoundAssumption == MaxAsks \in Nat /\ MaxFaults \in Nat

VARIABLES
  status,        \* status[n]: "running", or how the main task ended
  discovered,    \* discovered[n]: the records mDNS keeps
  view,          \* view[n]: floodsub's target_peers
  kademlia,      \* kademlia[n]: the addresses added for what mDNS found
  links,         \* the connections, as sets of two nodes
  subscribers,   \* subscribers[n]: the peers whose subscription n has heard
  wire,          \* floodsub messages under way: [from, to, what]
  posts,         \* everything published, in order: [source, json]
  received,      \* received[n]: floodsub's filter of what it has seen
  responders,    \* responders[n]: the tasks of respond_with_public_recipes
  response_rcv, broadcast_rcv,   \* the channels to n's main loop
  heard,         \* heard[n]: what n printed: the post, and as what
  answerable,    \* history: <<q, i>>, q can answer request i, and no fault since
  asks, faults   \* the bounded counters

library == <<links, subscribers, wire, posts, received>>
loop == <<responders, response_rcv, broadcast_rcv, heard>>
local == <<discovered, view, kademlia>>
vars == <<status, local, library, loop, answerable, asks, faults>>

\* A message is its JSON fields; `re` is history: the request a response answers.
Field == {"mode", "data", "receiver"}
Json == [fields : SUBSET Field, mode : Node \cup {"All"},
         receiver : Node \cup {"none"}, re : Nat]
ListRequest(m) ==
  [fields |-> {"mode"}, mode |-> m, receiver |-> "none", re |-> 0]
ListResponse(p, i) ==
  [fields |-> {"mode", "data", "receiver"}, mode |-> "All", receiver |-> p, re |-> i]
ListBroadcast(p) ==
  [fields |-> {"data", "receiver"}, mode |-> "All", receiver |-> p, re |-> 0]

Subscription == 0      \* on the wire: a subscription, or the index of a post

Init ==
  /\ status = [n \in Node |-> "running"]
  /\ discovered = [n \in Node |-> {}]
  /\ view = [n \in Node |-> {}] /\ kademlia = [n \in Node |-> {}]
  /\ links = {} /\ subscribers = [n \in Node |-> {}]
  /\ wire = {} /\ posts = <<>> /\ received = [n \in Node |-> {}]
  /\ responders = [n \in Node |-> {}]
  /\ response_rcv = [n \in Node |-> <<>>] /\ broadcast_rcv = [n \in Node |-> <<>>]
  /\ heard = [n \in Node |-> {}]
  /\ answerable = {} /\ asks = 0 /\ faults = 0

Running(n) == status[n] = "running"

-----------------------------------------------------------------------------
(* Floodsub (external) *)

\* To the peers that are in the view and have subscribed.
Targets(n) == view[n] \cap subscribers[n]
Send(n, to, what) == {[from |-> n, to |-> p, what |-> what] : p \in to}

publish(n, json) ==
  LET i == Len(posts) + 1 IN
  /\ posts' = Append(posts, [source |-> n, json |-> json])
  /\ received' = [received EXCEPT ![n] = @ \cup {i}]
  /\ wire' = wire \cup Send(n, Targets(n), i)
  /\ UNCHANGED <<links, subscribers>>

\* Floodsub dials what enters the view and redials what it loses; an end that
\* has the other in its view sends its subscription.
Connect(p, q) ==
  /\ Running(p) /\ Running(q) /\ q \in view[p] /\ {p, q} \notin links
  /\ links' = links \cup {{p, q}}
  /\ wire' = wire \cup Send(p, {q}, Subscription)
                  \cup (IF p \in view[q] THEN Send(q, {p}, Subscription) ELSE {})
  /\ UNCHANGED <<status, local, loop, subscribers, posts, received, answerable, asks, faults>>

\* What is left of the connections and of the wire when the links L break.
Break(L) ==
  /\ links' = links \ L
  /\ wire' = {m \in wire : {m.from, m.to} \notin L}
  /\ subscribers' = [n \in Node |-> {p \in subscribers[n] : {n, p} \notin L}]
  /\ UNCHANGED <<posts, received>>

-----------------------------------------------------------------------------
(* mDNS *)

peers(R) == {r.peer : r \in R}

\* BOUND: MaxFaults.
Fault ==
  /\ faults < MaxFaults
  /\ faults' = faults + 1
  /\ answerable' = {}

\* Mutant: the topic goes to nodes that are not connected.
\* add_node_to_partial_view, which tells a connected node this one's topic, and
\* add_address for every record found.
Discovered_unlinked(n, R) ==
  /\ Running(n) /\ R # {} /\ R \subseteq {r \in Record : r.at = n} \ discovered[n]
  /\ discovered' = [discovered EXCEPT ![n] = @ \cup R]
  /\ view' = [view EXCEPT ![n] = @ \cup peers(R)]
  /\ kademlia' = [kademlia EXCEPT ![n] = @ \cup R]
  /\ wire' = wire \cup Send(n, peers(R), Subscription)
  /\ UNCHANGED <<status, links, subscribers, posts, received, loop, answerable, asks, faults>>
Discovered(n, R) ==
  /\ Running(n) /\ R # {} /\ R \subseteq {r \in Record : r.at = n} \ discovered[n]
  /\ discovered' = [discovered EXCEPT ![n] = @ \cup R]
  /\ view' = [view EXCEPT ![n] = @ \cup peers(R)]
  /\ kademlia' = [kademlia EXCEPT ![n] = @ \cup R]
  /\ wire' = wire \cup Send(n, {p \in peers(R) : {n, p} \in links}, Subscription)
  /\ UNCHANGED <<status, links, subscribers, posts, received, loop, answerable, asks, faults>>

\* A node leaves the view with the last of its records (mutant: with any).
stale_any(n, R) == peers(R)
stale(n, R) == {p \in peers(R) : p \notin peers(discovered[n] \ R)}
Expired(n, R) ==
  /\ Running(n) /\ Fault /\ R # {} /\ R \subseteq discovered[n]
  /\ discovered' = [discovered EXCEPT ![n] = @ \ R]
  /\ view' = [view EXCEPT ![n] = @ \ stale(n, R)]
  /\ UNCHANGED <<status, kademlia, library, loop, asks>>

\* At both ends of a lost connection the loop removes the other from Kademlia's
\* table; mDNS and floodsub's view do not change.
Lose(L) ==
  /\ Break(L)
  /\ kademlia' = [n \in Node |-> {r \in kademlia[n] : {n, r.peer} \notin L}]

Disconnect(p, q) ==
  /\ {p, q} \in links /\ Fault
  /\ Lose({{p, q}})
  /\ UNCHANGED <<status, discovered, view, loop, asks>>

-----------------------------------------------------------------------------
(* Commands *)

\* BOUND: Asker, MaxAsks.
Typed(n) == n \in Asker /\ Running(n) /\ asks < MaxAsks /\ asks' = asks + 1

handle_list_recipes(n) ==
  /\ Typed(n)
  /\ \E m \in {"All"} \cup Named : publish(n, ListRequest(m))
  /\ UNCHANGED <<status, local, loop, answerable, faults>>

\* "b r": one ListBroadcast for every node mDNS knows, in any order.
handle_broadcast_recipe(n) ==
  /\ Typed(n) /\ n \in Local
  /\ \E s \in SetToSeqs(peers(discovered[n])) :
       broadcast_rcv' = [broadcast_rcv EXCEPT ![n] =
                           @ \o [i \in DOMAIN s |-> ListBroadcast(s[i])]]
  /\ UNCHANGED <<status, local, library, responders, response_rcv, heard, answerable, faults>>

\* The main task ends, its connections with it: the mDNS behaviour is disabled and
\* unwrapped, or the recipes of the first node cannot be read.
Panic(n, how) ==
  /\ status' = [status EXCEPT ![n] = how]
  /\ Lose({l \in links : n \in l})
  /\ answerable' = {}
  /\ UNCHANGED <<discovered, view, loop>>
BroadcastPanic(n) ==
  /\ Typed(n)
  /\ \/ n \notin Local /\ Panic(n, "mdns_panic") /\ UNCHANGED faults
     \/ /\ peers(discovered[n]) # {} /\ Fault
        /\ Panic(n, "read_panic")

-----------------------------------------------------------------------------
(* The main loop *)

\* serde ignores fields it does not know: a message is of a kind if it has at
\* least its fields, and the first kind in the chain of else-ifs wins (mutants:
\* two other orders of the chain).
has(json, fields) == fields \subseteq json.fields
kind_request_first(json) ==
  IF has(json, {"mode"}) THEN "request"
  ELSE IF has(json, {"mode", "data", "receiver"}) THEN "response" ELSE "broadcast"
kind_broadcast_first(json) ==
  IF has(json, {"data", "receiver"}) THEN "broadcast"
  ELSE IF has(json, {"mode", "data", "receiver"}) THEN "response" ELSE "request"
kind(json) ==
  IF has(json, {"mode", "data", "receiver"}) THEN "response"
  ELSE IF has(json, {"data", "receiver"}) THEN "broadcast"
  ELSE IF has(json, {"mode"}) THEN "request" ELSE "none"

addressed(n, json) == kind(json) \in {"response", "broadcast"} /\ json.receiver = n
\* Mutant: without the test of the mode.
asked_any(n, json) == kind(json) = "request"
asked(n, json) == kind(json) = "request" /\ json.mode \in {"All", n}

HandleMessage(n, i) ==
  LET json == posts[i].json  source == posts[i].source IN
  /\ heard' = IF addressed(n, json)
              THEN [heard EXCEPT ![n] = @ \cup {<<i, kind(json)>>}] ELSE heard
  /\ responders' = IF asked(n, json)
                   THEN [responders EXCEPT ![n] = @ \cup {[to |-> source, re |-> i]}]
                   ELSE responders
  /\ answerable' = IF asked(n, json) /\ source \in Targets(n)
                   THEN answerable \cup {<<n, i>>} ELSE answerable
  /\ UNCHANGED <<response_rcv, broadcast_rcv>>

\* Floodsub drops what it has seen, passes the rest on and to the loop.
Receive(m) ==
  LET n == m.to IN
  /\ m \in wire /\ m.what # Subscription
  /\ IF m.what \in received[n]
     THEN /\ wire' = wire \ {m}
          /\ UNCHANGED <<received, loop, answerable>>
     ELSE /\ wire' = (wire \ {m}) \cup Send(n, Targets(n) \ {m.from}, m.what)
          /\ received' = [received EXCEPT ![n] = @ \cup {m.what}]
          /\ HandleMessage(n, m.what)
  /\ UNCHANGED <<status, local, links, subscribers, posts, asks, faults>>

Subscribed(m) ==
  /\ m \in wire /\ m.what = Subscription
  /\ wire' = wire \ {m}
  /\ subscribers' = [subscribers EXCEPT ![m.to] = @ \cup {m.from}]
  /\ UNCHANGED <<status, local, links, posts, received, loop, answerable, asks, faults>>

\* The spawned task reads the recipes, or logs that it cannot.
respond_with_public_recipes(n, r) ==
  /\ Running(n) /\ r \in responders[n]
  /\ responders' = [responders EXCEPT ![n] = @ \ {r}]
  /\ \/ /\ response_rcv' = [response_rcv EXCEPT ![n] = Append(@, ListResponse(r.to, r.re))]
        /\ UNCHANGED <<answerable, faults>>
     \/ Fault /\ UNCHANGED response_rcv
  /\ UNCHANGED <<status, local, library, broadcast_rcv, heard, asks>>

PublishResponse(n) ==
  /\ Running(n) /\ response_rcv[n] # <<>>
  /\ publish(n, Head(response_rcv[n]))
  /\ response_rcv' = [response_rcv EXCEPT ![n] = Tail(@)]
  /\ UNCHANGED <<status, local, responders, broadcast_rcv, heard, answerable, asks, faults>>
PublishBroadcast(n) ==
  /\ Running(n) /\ broadcast_rcv[n] # <<>>
  /\ publish(n, Head(broadcast_rcv[n]))
  /\ broadcast_rcv' = [broadcast_rcv EXCEPT ![n] = Tail(@)]
  /\ UNCHANGED <<status, local, responders, response_rcv, heard, answerable, asks, faults>>

-----------------------------------------------------------------------------
Mdns(n) == \E R \in SUBSET Record : Discovered(n, R) \/ Expired(n, R)
Command(n) == handle_list_recipes(n) \/ handle_broadcast_recipe(n) \/ BroadcastPanic(n)
Turn(n) ==
  \/ \E r \in responders[n] : respond_with_public_recipes(n, r)
  \/ PublishResponse(n) \/ PublishBroadcast(n)
Network ==
  \/ \E m \in wire : Receive(m) \/ Subscribed(m)
  \/ \E p, q \in Node : Connect(p, q) \/ Disconnect(p, q)

Next == Network \/ \E n \in Node : Mdns(n) \/ Command(n) \/ Turn(n)

Spec == Init /\ [][Next]_vars

\* A connection delivers what it carries unless it breaks; tokio runs every task
\* that is ready, and the loop's select! polls both channels.
Delivery(n) == \E m \in wire : m.to = n /\ Receive(m)
Fairness ==
  \A n \in Node : WF_vars(Delivery(n)) /\ WF_vars(Turn(n))
FairSpec == Spec /\ Fairness

-----------------------------------------------------------------------------
(* Properties *)

Post == [source : Node, json : Json]

\* The shape of the state; messages and subscriptions need a connection.
TypeOK ==
  /\ status \in [Node -> {"running", "mdns_panic", "read_panic"}]
  /\ discovered \in [Node -> SUBSET Record] /\ kademlia \in [Node -> SUBSET Record]
  /\ view \in [Node -> SUBSET Node] /\ subscribers \in [Node -> SUBSET Node]
  /\ links \subseteq SUBSET Node
  /\ wire \subseteq [from : Node, to : Node, what : 0..Len(posts)]
  /\ \A m \in wire : {m.from, m.to} \in links
  /\ \A n \in Node : \A p \in subscribers[n] : {n, p} \in links
  /\ posts \in Seq(Post)
  /\ received \in [Node -> SUBSET (1..Len(posts))]
  /\ responders \in [Node -> SUBSET [to : Node, re : Nat]]
  /\ response_rcv \in [Node -> Seq(Json)] /\ broadcast_rcv \in [Node -> Seq(Json)]
  /\ heard \in [Node -> SUBSET ((1..Len(posts)) \X {"response", "broadcast"})]
  /\ answerable \subseteq Node \X Nat
  /\ asks \in 0..MaxAsks /\ faults \in 0..MaxFaults

\* Floodsub talks to exactly the nodes mDNS has a record of: a node with two
\* addresses stays when one expires and goes when both have.
ViewFollowsDiscovery == \A n \in Node : view[n] = peers(discovered[n])

IsRequestFor(i, p, q) ==
  /\ i \in DOMAIN posts /\ posts[i].source = p
  /\ posts[i].json = ListRequest("All") \/ posts[i].json = ListRequest(q)

\* An answer, from the task that reads the recipes to the topic, answers a
\* request that its receiver sent, that means the sender and has reached it: an
\* answer is never answered, though it has all the fields of a request.
Answers(q) ==
  responders[q] \cup {[to |-> j.receiver, re |-> j.re] : j \in Range(response_rcv[q])}
  \cup {[to |-> posts[k].json.receiver, re |-> posts[k].json.re] :
          k \in {k \in DOMAIN posts : posts[k].source = q /\ posts[k].json.fields = Field}}
AnswersAreAsked ==
  \A q \in Node : \A a \in Answers(q) : IsRequestFor(a.re, a.to, q) /\ a.re \in received[q]

\* A node prints as a response only what answers its own request, however many
\* nodes passed the answer on, and as a broadcast only what "b r" made for it.
HeardIsMeant ==
  \A n \in Node : \A h \in heard[n] :
    LET json == posts[h[1]].json IN
    \/ /\ h[2] = "response" /\ json.receiver = n
       /\ IsRequestFor(json.re, n, posts[h[1]].source)
    \/ h[2] = "broadcast" /\ json = ListBroadcast(n)

\* A request that reaches a node while floodsub there would send to the asker
\* is answered, and the answer printed, unless a record expires, a connection
\* is lost or the recipes cannot be read meanwhile: when the last command is
\* typed and the last fault past, no such request stays without its answer.
Answered(q, i) ==
  \E k \in DOMAIN posts : /\ posts[k].source = q /\ posts[k].json.re = i
                          /\ <<k, "response">> \in heard[posts[i].source]
AnswersArrive == <>[](\A a \in answerable : Answered(a[1], a[2]))

\* What AnswersArrive rests on: until it is printed, such an answer is with the
\* node's task, in its channel, or on its way straight to the asker; a redial, a
\* new record, or a copy that comes first by another way does not lose it.
UnderWay(q, i) ==
  \/ \E r \in responders[q] : r.re = i
  \/ \E k \in DOMAIN response_rcv[q] : response_rcv[q][k].re = i
  \/ \E m \in wire : /\ m.from = q /\ m.to = posts[i].source /\ m.what # Subscription
                     /\ posts[m.what].source = q /\ posts[m.what].json.re = i
AnswersNotLost ==
  \A a \in answerable : Answered(a[1], a[2]) \/ UnderWay(a[1], a[2])

-----------------------------------------------------------------------------
(* Refinement *)

note(p) == [by |-> p.source, what |-> kind(p.json), re |-> p.json.re,
            to |-> IF kind(p.json) = "request" THEN p.json.mode ELSE p.json.receiver]
owed(n) == {r.re : r \in responders[n]}
           \cup {response_rcv[n][k].re : k \in DOMAIN response_rcv[n]}

Board == INSTANCE RecipeBoard WITH
  alive <- {n \in Node : Running(n)},
  notes <- [i \in DOMAIN posts |-> note(posts[i])],
  read <- received,
  owes <- [n \in Node |-> owed(n)],
  planned <- [n \in Node |-> [i \in DOMAIN broadcast_rcv[n] |-> broadcast_rcv[n][i].receiver]],
  told <- heard

\* Mdns, floodsub and the tasks implement one board of notes, on which every
\* message is what its sender meant, whatever the parsers make of its fields, is
\* read at most once by each node, and by none whose process has ended.
RefinesBoard == Board!BSpec
=============================================================================
