# DecentNet: a verification project

DecentNet (`src/`) is a peer-to-peer node written in Rust over libp2p.  This
directory holds TLA+ models of it, the TLC configurations that check them on
small instances, and TLAPS proofs for every size.

## 1. The system

A node is one process (`bin/main.rs`).  Its main task is a loop over one
`tokio::select!` that takes, in no fixed order, a UI connection, a line of
standard input, an answer or a broadcast to publish, a Swarm event, or a tick.
Everything a handler does to the node's state it does in one turn of this loop;
the only other tasks are libp2p's connection tasks and the readers of the recipe
file that a request spawns.

| part | state | operations | talks to |
|---|---|---|---|
| Peer exchange (`src/network/handler.rs`, `behaviour.rs`, `protocol.rs`, `src/api/mod.rs`) | Kademlia table, `requests`, connections, messages in flight | ConnectionEstablished/Closed, Identify, Ping, GetNetworkNodes, SendNodeRecord and their answers, dial, ping tick | other nodes, through libp2p |
| Recipe store (`bin/handlers.rs`, `bin/utils.rs`) | `data/<id>/recipes.json`, answer and broadcast channels | create, delete, publish, list, broadcast, respond | main loop (commands, channels), floodsub |
| Identity and start (`bin/constants.rs`, `src/network/identity.rs`) | `data/usercredentials`, the key | read or generate the key, create the default recipes, load boot nodes | recipe store (whose directory is the id) |
| Main loop (`bin/main.rs`) | which branch runs, the channels, the exit | the branches of select!, `z` | everything |
| Nodes file (`bin/main.rs`) | `data/nodes` | write at exit, load the first line at start | Kademlia table, dial |
| Listeners (`behaviour.rs:205-227`, `handler.rs:83-107`) | listener ids in two copies of the config | listen, replace by the relayed listener, close at exit | relay, main loop |
| Web UI (`bin/ui/web.rs`) | a WebSocket session inside the loop's turn | nine commands | the Swarm, which it borrows |
| Library API (`src/api/common.rs`, `lib.rs`) | five `static mut` globals | initialise, start, consume, calls | an embedding program |
| Rendezvous (`behaviour.rs:59-60`) | a behaviour the Swarm ignores | register, discover: queued, never sent | nobody |
| Relay, DCUtR, ping, Kademlia events | none of their own | logging | - |
| Recipe exchange (`handler.rs:637-669`, `main.rs:165-251`) | floodsub's partial view, what floodsub has seen, the tasks of responders | mDNS discovered and expired, publish, messages in (mDNS is off by default) | recipe store, local network |

What is hard here, and what has to hold:

- **Peer exchange.** No node sees the whole: who introduces whom depends on the
  order in which the Identify events, the connections and the records of all
  nodes reach each loop.  Messages wait in a node's queue while the connection
  they came over breaks; connections come back while the old one's end has not
  been handled.  Correct is: nobody is told of itself or of a boot node, private
  addresses stay private, addresses lead to the peer they are filed under, a
  client that must dial through relays does, introductions are two-sided, make the
  introduced meet and die out, though each may bring a new connection and with it
  new Identify messages.
- **Recipe store.** A rewrite truncates the file and then fills it; responders
  read it in between; the default recipes are written by a thread nobody waits
  for; the process may end before any of these steps.  Correct is that all this
  looks like one book that changes in single steps, with unique ids, and that
  every question is answered or refused.
- **Identity and start.** Two files are written one after the other at the first
  start, and the existence of the first decides about both at every later one.
- **Main loop.** One turn may take long: a UI session is one turn, and every turn
  drops the UI server's pending accept.  Correct is that every branch gets its
  turn and that `z` ends the loop.
- **Listeners.** The relay's announcement removes what was announced before it;
  `z` removes what the start opened.  Correct is that a node stays reachable and
  can still be left.
- **Web UI.** Frames are read by one branch of the session's select! and handled
  by the other.  Correct is that the session ends with its client and that a
  reply finds a client; what a client does that ends neither is named exactly.
- **Nodes file.** What is written has to be what is read: empty lists, one line
  against many, processes that share the file, a kill or a full disk between its
  truncation and its write.
- **Library API.** Calls have an order, and five globals remember how far one got,
  for all threads at once.
- **Recipe exchange.** A message goes to whoever is found and subscribed at the
  moment it passes, over several nodes, and is told apart from the other two kinds
  by its fields only.  Correct is that answers are not answered, that a node prints
  only what is meant for it, and that a question that can be answered is.

PROJECT.json lists these hazards one by one, each at its line.

## 2. Plan

Modules in order of writing; all are done.

1. `AddressBook`, what the exchange of addresses promises, and `PeerExchange`, the
   program's own protocol, which implements it, with `PeerExchangeProofs` and
   `PeerRecordProofs`.  `MCPeerExchange` gives it nodes, addresses and stimuli.
2. `RecipeBook`, what a recipe store promises, and `RecipeStore`, the code, which
   implements it (`Promise == INSTANCE RecipeBook WITH ...`), with
   `RecipeStoreProofs` and `RecipeBookProofs`.  `MCRecipeStore` gives names and default recipes.
3. `NodeLoop` with `NodeLoopProofs`: the select!, the listeners, the UI session.
   It needs no MC module; its configurations give it its two bounds.
4. `RecipeBoard`, what the recipe messages promise, and `RecipeExchange`, which
   implements it: mDNS, floodsub and what the main loop does with a message, with
   `RecipeExchangeProofs`.  `MCRecipeExchange` gives it the local networks.
5. `NodesFile` with `NodesFileProofs`: the writer and the reader of `data/nodes`.
6. `ApiSession` with `ApiSessionProofs`: the globals of `common.rs`.

The modules meet at values, not by EXTENDS: what `NodesFile` loads is the constant
`Saved` of `PeerExchange`; what `RecipeStore` publishes is what `RecipeExchange`
floods, and a request that `RecipeExchange` delivers is `Request` of `RecipeStore`;
`NodeLoop` sees both only as work that takes a turn.

## 3. PeerExchange

**State.** `status[n]` is the process of node n; `table[n]` its Kademlia table,
a set of addresses per peer; `requests[n]` the behaviour's set of that name
(`behaviour.rs`, `handler.rs:518`); `rendezvous[n]` the commands queued on the
behaviour that the Swarm ignores; `links` the connections ever opened, with the
ends whose loop has handled ConnectionEstablished (`seen`) and ConnectionClosed
(`closed`) and those that the other's Identify has reached (`told`); `msgs` a bag of requests, responses and Identify events, on the wire
or in the inbox of a node.

**Actions and code.** One action per arm of a handler:

| action | code |
|---|---|
| `ConnectionEstablished`, `ConnectionClosed` | `handler.rs:108-163` |
| `HandleIdentify` (with `identified_addrs`, `introductions`, `introduced`) | `handler.rs:487-562` |
| `HandlePing`, `HandleGetNetworkNodes`, `HandleSendNodeRecord`, `ReplyPanic` | `handler.rs:276-302` |
| `HandlePong`, `HandleRecord` | `handler.rs:306-326` |
| `loaded_table`, `loaded_pings`, `RelayPanic` | `handler.rs:934-967` |
| `get_network_record`, `get_external_addrs` | `handler.rs:890-932`, `utils.rs:5-45` |
| `Ping`, `GetNodes`, `GetNodesFromBootNodes`, `PingTick`, `Dial` (`Started`) | `src/api/mod.rs:55-95`, `main.rs:129-142`, `226-334` |
| `Stop`, `Restart` | `main.rs:253-263`, `408-431` |
| `Lose`, `InboundTimeout` | the failure arms, `handler.rs:348-373` |
| `DeliverRequest`, `DeliverResponse`, `IdentifyArrives`, `KademliaConfirmed`, `DialFails`, `Drop` | libp2p, as the code uses it |

A handler is one action because it runs to its end without an await in one turn
of the loop.  Delivery, the break of a connection and the two ends' notice of it
are separate actions, since a Swarm reports the connection pool's events and its
behaviours' queued events in different orders.

What libp2p does of its own accord is part of the exchange.  A request to a peer
without a connection makes its node dial it (`Seeks`), so the Ping that follows a
loaded record may open a connection.  Over every connection each end's Identify
message comes to the other once without anybody's doing, and again as a stimulus,
for libp2p repeats it every few minutes (`IdentifyArrives`).  A failed dial, or the
failed part of one that succeeds in the end, makes Kademlia drop the addresses it
was made to, all but the last that it has of the peer (`DialFails`); the handler
only logs it (`handler.rs:164-216`).

**Abstractions.** An address is reduced to the peer it leads to, the relay it
goes through (or none) and whether `is_public_ip` holds of it.  Bucket size (20)
and replacement in Kademlia are left out: the runs stay below them.  mDNS is off,
its default; what it adds to the table is in `RecipeExchange`.  A start's table is the constant `Saved`, what the first line of
`data/nodes` gives; servers read none.  Failed outbound requests are removed by `Lose`;
the handler only logs them.  The rendezvous behaviour is never polled, so its events, among them the
one that the discover tick waits for, do not occur.

**Properties.** `NoSelfTalk`, `AddressesLeadHome`, `RecordsArePublic`,
`IntroductionsAreMutual`, `RelayedAddressesOnly` (invariants), `ExchangesRunDown`
(action property), `Quiescence`, `IntroducedMeet` (liveness).  Each is stated in
words at its definition.

An exchange can feed itself through the network: an introduction is loaded, the
record's Pings dial, the new connection brings Identify messages, and these may set
off introductions.  `ExchangesRunDown` says that this is the only way round: every
new message is of a later stage than one that went, or is the first Identify that a
connection brings to one of its ends (`FirstIdentify`); repeated ones are stimuli.  So
between two connections everything comes to its end, for any number of nodes.
`Quiescence` says that in the instance below the whole of it ends, connections included;
with more nodes that rests on `requests` and on there being no new peer to dial, and is
not proved.

**The refinement** (`RefinesAddressBook`).  `AddressBook` has no connections, no
requests and no events: nodes have books of addresses and write letters.  An address
gets into a book as a caller's, as one that was dialled and answered, by an announcement
of the peer itself, or by a letter that tells exactly the public part of what its writer's
book had when it was written; a relay dialer files a relayed address instead; an entry is
crossed out as a whole only of somebody one has met, and of the addresses of anybody some
may be struck out, never the last.  It does not promise that a peer one is connected to
is known: the code forgets a peer with any of its connections (`handler.rs:162`).  The map reads `table` as the
book, a connection as a call, an Identify message as an announcement, and every record or
introduction on its way as a letter; requests, empty answers and everything that only
moves a message are steps in which nothing happens.

## 4. RecipeBook and RecipeStore

`RecipeBook` is the promise: one book per identity, changed by commands in one
step each; an answer is the public part of the book at some moment after the
question; a question is refused only while there is no whole book to read.  A
crash loses a book only in the middle of a change or before it exists.  Answers
that wait when the process ends are lost.  It does not promise that an answer is
still up to date when it is published: the code does not either.

`RecipeStore` is the code: the start (`StartAnonymous`, `StartKnown`,
`StartNew`, `SaveKey`: `constants.rs:139-164`), the default recipes
(`CreateDefaultRecipes`, `Flush`: `utils.rs:9-21`), a command as read and change
(`CreateRecipe`, `DeleteRecipe`, `PublishRecipe`: `handlers.rs:64-166`),
`Truncate` and `Write` (`handlers.rs:188-192`), requests and responders
(`Request`: `main.rs:171-204`; `respond`: `handlers.rs:194-210`), the two channel
branches (`main.rs:238-251`), `b r` (`handlers.rs:105-122`, `168-178`), the exit
(`main.rs:253-263`, `354-398`) and `Crash` anywhere.  `pc` says between which two
of these the main task is.  `flushing` is the write that tokio's File hands to
the blocking pool: `write_all` returns before it has happened.

Assumed: a read of the file returns one state of it (the files are far smaller
than one read), and the content of `fs::write` arrives whole (the torn states
are "empty" and "cut short", which are the same to the JSON parser).  The recipe
texts are one model value per text.  A "list" command changes nothing and is left
out.  What becomes of the messages in `published` is `RecipeExchange`.

**The refinement** (`RefinesBook`) maps a file to the book it stands for: a whole
file to its recipes; a truncated file to the recipes the running command holds,
as long as it runs; an absent file, or one that the blocking pool is still to
fill, to no book; anything else to a lost one.  The changes happen at `Truncate`,
the answers at the responders' read.

## 5. NodeLoop

**State.** `loop` is what the main task is in (`start`, `select`, a UI client's
`handshake` or `session`), or how it ended: `left` by `z`, or at one of the
unwraps.  `listeners` is the Swarm's list, `listener_ids` the behaviour's
(`handler.rs:88`).  `lines` were typed and not read; `work` says whether anything
waits at the other branches.  `client`, `incoming`, `rx` and `closing` are the UI
client, the frames on their way, the queue between the session's two branches
(`web.rs:54`), and whether the session has read the connection's end.

| action | code |
|---|---|
| `StartListening` | `behaviour.rs:205-227`, the unwraps of `main.rs:121-127` |
| `NewListenAddr`, `RelayLost` | `handler.rs:83-107`, `237-256` |
| `Quit`, `Command`, `CommandPanic`, `EndOfInput` | `main.rs:253-349`, `400-406` |
| `DoWork` | the other branches, `main.rs:159-251` |
| `Turn`, `ServerPanic` | `web.rs:39-44` |
| `Accept`, `Handshake` | `main.rs:147-151`, `web.rs:51` |
| `ReadFrame`, `ReadEnd` | `web.rs:57-65` |
| `HandleCommand`, `SendPanic`, `RequestPanic`, `IgnoreJson`, `HandleText`, `TextPanic` | `web.rs:66-92`, `98-223` |
| `Type`, `Arrive`, `ClientConnects`, `ClientSends`, `ClientVanishes` | operator, network, browser |

Every other branch taken drops the future of `server.start()` and with it the
bound port, so a client whose connection waits there is cut off: that is `Turn`.  Every
turn binds and accepts anew, and either may fail (`ServerPanic`).

**Abstractions.** What commands and events do to the peer exchange and to the
store is in the other two modules; here they are told apart only by their effect
on the loop.  A listener is announced once (a wildcard listener announces several
addresses of one id).  A frame is a command that only asks, one that sets the
Swarm to work, other JSON, text that is no JSON, or bytes that are no text, at which
`to_text` panics.  A close is taken for its reason, so it is any of these but the last
(a reason is a string): without a reason it is no JSON and ends the session; with one
that is JSON, such as `0`, the session goes on and has nothing more to read
(`closing_json`).  A send to a client that does not read does not block.
`RelayLost` is any end of the relay's listener, before or after its announcement.

**Properties.** `NeverDeaf` (invariant): a running node has a listener unless its
relay took over.  `QuitLeaves` (action property): `z` leaves the loop unless the
relay took over.  Both say exactly when the code's relay mode gives up what other
nodes have: the exception is the code's, a node in relay-listen mode cannot be
left by `z` after the takeover, nor be reached when its relay is lost.
`CloseNotLost` (invariant): while the session runs, the close of a client, its reason
not being JSON, is the last of what waits for it, in the connection or in the queue
between the two branches, so that neither branch can lose it or be overtaken by it.
`SessionEnds` and `LoopServes` (liveness): a session ends once its client has closed so;
no branch starves unless the process ends or one client keeps the loop.  It can keep it
in four ways, which `LoopServes` lists because the code has them: it says nothing during
the handshake (`accept_async` has no timeout), it stays, it vanishes, or it closes with
JSON as its reason.

## 6. RecipeExchange

**State.** For each node: what mDNS has found (`discovered`, one record per address),
floodsub's `target_peers` (`view`), the addresses filed in Kademlia for it, the
subscriptions heard, the messages seen (`received`), the tasks that answer
(`responders`), the two channels, and what was printed (`heard`).  Between nodes:
`links`, the messages on the `wire`, and `posts`, all that was ever published.
`answerable` is history: who could answer what, and nothing has failed since.

| action | code |
|---|---|
| `Discovered`, `Expired` | `handler.rs:637-669` |
| `Disconnect` (`Lose`) | `main.rs:163-168`, `handler.rs:154-163` |
| `handle_list_recipes`, `handle_broadcast_recipe`, `BroadcastPanic` | `handlers.rs:29-62`, `105-122` |
| `HandleMessage` (`kind`, `addressed`, `asked`) | `main.rs:171-204` |
| `respond_with_public_recipes` | `handlers.rs:194-210` |
| `PublishResponse`, `PublishBroadcast` | `main.rs:236-251` |
| `publish`, `Connect`, `Break`, `Receive`, `Subscribed` | libp2p's floodsub, as the code uses it |

`kind` is the chain of three `serde_json::from_slice` attempts: a message is what
its fields allow first, and a response has every field of the other two.

**Abstractions.** A message is the set of its fields, its mode and its receiver; the
recipes in it are one value.  Each floodsub message travels on a substream of its
own, so the wire is a set and messages overtake each other.  Floodsub never sees two
posts as one: its sequence numbers are random.  The recipe file is `RecipeStore`'s;
here a read succeeds or, as a fault, does not.

**Properties.** `ViewFollowsDiscovery`: floodsub talks to exactly the nodes mDNS has
a record of.  `AnswersAreAsked`: every answer, in whatever task, channel or message
it is, answers a request of its receiver that meant the sender and had reached it.
`HeardIsMeant`: nothing is printed that is meant for another node, though every node
on the way handles it; as a response only the answer to the node's own request, as a
broadcast only what `b r` made for it.  `AnswersArrive` (liveness): a request that reached a node
which would then send to the asker is answered and printed, unless a record expires,
a connection is lost, a file cannot be read or a task ends.  `AnswersNotLost` is its
safety half: until it is printed, such an answer is with the node's task, in its
channel, or on its way straight to the asker.

The condition of the last one is the code's: floodsub passes on to the whole view,
but only to subscribers; an asker that is not yet subscribed, or not found by the
answering node, gets nothing, and nobody retries.

**The refinement** (`RefinesBoard`).  `RecipeBoard` has no networks, views, floods, tasks
or channels: nodes put notes up on one board.  A running node reads a note once or never;
a question that means it, it owes one answer, to the one who asked; of anything else it
tells its user if it is the receiver.  The map reads a post as the note that the chain of
parsers takes it for, so a step that publishes a response must put up a response.
Discovery, connections, subscriptions and second copies are steps in which nothing
happens.

## 7. NodesFile

**State.** `exists` and `file` are `data/nodes`; `pc`, `server`, `table` and `text`
are the processes started in one directory.  `last`, `saving` and `lost` are
history: which list was written last, which is being written, and whether one was
destroyed.

| action | code |
|---|---|
| `Start`, `Create`, `load_nodes_file` (`FirstLine`, `Entries`) | `main.rs:408-431` |
| `Exit` (`Text`, `get_known_nodes`, `get_external_addrs`), `Write`, `WriteCut` | `main.rs:354-391`, `behaviour.rs:229-255`, `utils.rs:5-45` |
| `Learn`, `remove_peer` | what a run does to the table |
| `Kill` | a kill or a panic, anywhere |

Text is a sequence of cells, two to a line (the id with its space; the addresses with
the line's end), because a reader of one line needs no more to tell a line cut short
from a whole one.  `Torn` is a cell cut inside.

What the model follows the code in: nothing locks the file; a first start looks
whether there is a file and then calls `File::create`, which empties one that was
written meanwhile; an exit that knows nobody leaves the old list; a node without a
public address is written with an empty list, which reads back as one empty
`Multiaddr`; only the first line is read; `write_all` of tokio's File returns before
the write, so its error branch never sees a full disk.

**Properties.** `LoadsLastList` (action property): what a start loads is one node of
the last list written, with the public addresses the writer knew, however exits
overlap.  `ListStays`: a list once written is there for the next start unless a kill,
a full disk or a first start destroyed it.  `StartParses`: only a full disk makes a
start panic at this file; the code then panics at every start until a server's exit
writes a new list.  The exceptions are the code's, and the histories are there to name
them exactly.

## 8. ApiSession

**State.** The five `static mut` globals of `common.rs:21-28`, each with the number of
the call that filled it; for every thread the access it makes next, its call's number
and configuration, and how its last call ended; the listeners opened; and what the
host offers (`boot_nodes.txt`, IPv6).

| action | code |
|---|---|
| `LoneRuntime`, `DefaultRuntime`, `load_bootnodes` | `common.rs:48-66`, `lib.rs:116-142` |
| `SetKey`, `init_runtime`, `SetConfig`, `SetSwarm`, `SetChannel`, `SetNetwork` | `common.rs:68-94`, `lib.rs:31-41` |
| `StartTest`, `StartBorrow`, `start_listening` | `common.rs:96-124`, `behaviour.rs:205-227` |
| `Consume` | `common.rs:126-133` |
| `List`, `Dial`, `Poll` | `common.rs:135-349` |

A call is a sequence of accesses to one global each, between which other threads' calls
run: the bindings in `api.rsh` may be called from any thread, and nothing locks.  Two
threads with a `&mut` to one global are undefined behaviour; the model gives each access
its place in an order, the most that a build can promise.  Callers are plain threads:
`block_on` inside a task panics by itself.  A panic ends the thread's calls and not the
process; in the stable profile (`panic = "abort"`) it ends the process, which is a
behaviour that stops there.  What the calls do to the Swarm is `PeerExchange`.

**Properties.** `SwarmBringsRuntime`: behind a swarm or a config that a call found there
is always the runtime, so the errors that ask for it there are never returned, and what
a caller meets instead is an unwrap.  `OneInitialise`: one initialise that runs undisturbed
makes all five globals its own, whatever failed or raced before.  `ListenersLive`: the
listeners of the current swarm live on the current runtime; a lone `init_runtime`, an
initialise that fails midway and two that overlap are what breaks this, and the only
things.  `DefaultNeedsBootNodes`: what `initialise_default` made listens only with a
`boot_nodes.txt` that parses; without the file the call succeeds and `start_network` ends
at the first boot node's unwrap.

## 9. Runs

| run | question | bounds | states |
|---|---|---|---|
| `Introductions` | three clients identify themselves in any order: who is introduced, and do they meet? | 3 clients at one server, 3 connections, each client's Identify to all, fair | 93K |
| `Feedback` | does what an introduction sets off, new connections and their Identify messages among it, come to an end? PeerExchange implements AddressBook | 3 clients in a chain, 4 connections, 3 pairs of nodes whose Identify is heard, fair | 87K |
| `Failures` | breaks, failed dials, time-outs, stops, restarts, every command, repeated Identify, circuits: also they implement AddressBook | 2 clients, one with a saved node and one dialling through relays, 3 connections, 2 stimuli | 365K |
| `Recipes` | unique ids, one writer, RecipeStore implements RecipeBook, channels drain | 2 starts, 3 commands, 2 requests, fair | 667K |
| `NodeLoop` | listeners, `z`, sessions and their close, starvation | 1 waiting line, 2 waiting frames, fair | 356K |
| `RecipeExchange` | answers, floods and local discovery; RecipeExchange implements RecipeBoard | 4 nodes, 3 of them local, one with 2 addresses, 1 command, 1 fault, fair | 298K |
| `NodesFile` | what is written is what is read | 2 processes, 3 exits, 1 full disk, 2 known entries | 1.2M |
| `ApiSession` | the globals under concurrent calls | 2 threads, 3 calls | 2.2M |
| `ReplyPanics`, `RelayPanics`, `Oversize`, `SessionPanics` | findings, below | the smallest that show them | |

**Why the bounds are enough.** In `PeerExchange` a handler involves its node, the
sender and at most one third party (an introduction), so three clients and a
server show every combination of roles; a stimulus is something that comes from
outside (a command, a tick, a break, a repeated Identify), and two of them are
enough for the second to meet the first one's messages at every stage of their
way.  In `Introductions` all three clients identify themselves to the server, in any
order and before, between and after the others' connections, so that any one of them may
be the one whose Identify makes the server introduce the other two, whose own then set
off nothing, or none may.  In `Feedback` client a knows s and, from its
last run, b; c comes to it; the Identify of s or of c makes a introduce b and c, which
dial each other, identify themselves and exchange Pings: the whole way round.  Whose
Identify is heard (`Introduces`) is bounded to the three pairs this takes; its `MaxLinks` of 6
is never reached.  In `Failures` the client that dials through relays learns of the other
over all of its ways, and over a circuit.  Its two clients cannot be introduced, which is
what the other two are for.  A second round of introductions, set off by an Identify of
the same peer that comes again, is in none of the three (it makes each of them
several times as large): of it the proofs speak, which hold for any stimuli.  In `RecipeStore`
two starts bring a known, a new and an anonymous user after a crash; three commands create, delete and create again, which is what
reuses an id; two requests make two responders overlap one rewrite.  `NodeLoop`
bounds only what waits at the same time: lines, frames and clients come without
end, and two waiting frames are the least in which their order matters; lines are taken
one by one and in no relation to each other, so one that waits is enough.
In `RecipeExchange` an answer passes a node it is not meant for as soon as asker and
answerer are two hops apart, which takes three local nodes in a row; the fourth, without
local discovery, is the one whose `b r` ends it; one command of any node (or request to
one node) meets one fault at every moment.  More commands only add messages that are
told apart by their index.  Its networks are trees, in which no second copy of a message
comes round: in a cycle the instance is out of TLC's reach with a fault, and that a copy
makes no second answer is left to the proofs (`AnsweredOnce`, `RefinesBoard`), which hold
in any network.  In `NodesFile` two processes are the fewest that can write
over each other; of three exits the third can follow two that overlapped.  In
`ApiSession` two threads and three calls give an initialise, a second beside it, and a
call that meets what they left.

**Deadlock.** Every configuration says `CHECK_DEADLOCK FALSE`, because every
system here may stop: processes end by `z` or at a panic, and where stimuli are
bounded the exchange comes to rest (`Quiescence` says that it must).  The counters that
bound `RecipeExchange`, `NodesFile` and `ApiSession` run out as well.

**Fairness.** `PeerExchange`: as long as something waits (a message on the wire or in an
inbox, a connection's event), some of it is taken: `WF_vars(Work)`.  The loop polls the
Swarm again after every turn, and libp2p delivers a message or reports its loss.  That
no node's work is passed over follows, since the work runs out; that it does is
`Quiescence`, no assumption.  Nobody is assumed to dial, to type or to fail.  It holds of
a node whose loop no UI client keeps; that clients can do so is `LoopServes`.  `RecipeStore`: the main task and the blocking pool's
write go on, and so do spawned responders, which the tokio runtime polls; the
operator need not type anything.  `NodeLoop`: `select!` starts at a random branch,
so one that is ready again and again is not passed over for ever: strong
fairness of the input branch and of the others, weak fairness of a session's two
branches, which stay ready.  Of clients nothing is assumed: one that connected may stay
silent in the handshake for ever, and need neither send nor close.  `RecipeExchange`: a connection that does not break
delivers (weak fairness of delivery at each node: the wire is emptied, and a connection's
break is one of the bounded faults), and each node's responders and channels get their
turn.  mDNS is not assumed to find anybody, nor anybody to connect: `AnswersArrive` speaks
of those who are connected.  `NodesFile` and `ApiSession` have no fairness and no liveness:
a program may stop calling at any time.

**Mutants.** PROJECT.json names for every property a plausible bug (a dropped
filter, a reset forgotten, an answer that is answered, a wrong id) with
which the same run finds it violated.  The mutated forms stand in the modules
before the definitions they replace and are used nowhere else.

## 10. Findings

| run | what the code does |
|---|---|
| `ReplyPanics` | `handler.rs:289`: answering a request whose connection has closed, or that has waited 30 s, meets an unwrap |
| `RelayPanics` | `handler.rs:960`: a server in dial mode, the default, loads a record and unwraps its first boot node, of which it has none; in listen mode `handler.rs:89` does so at its first listen address |
| `Oversize` | `protocol.rs:127`: records of any size are written, 2048 bytes are read, as a TODO in the code suspects |
| `SessionPanics` | `web.rs:113`: a UI client that closes behind a command can end the node |

A crash between the creation and the write of usercredentials makes every later start
panic (`constants.rs:152`).  No text of the repository says otherwise, so there is no run
for it: it is an end that `RecipeStore` has and `RefinesBook` allows for.

## 11. Proofs

All proofs hold for every value of the constants that the named assumptions allow
(`TLC` evaluates those on every run).

- `PeerExchangeProofs`: `TypeCorrect`, `NeverSelfTalk`, `AddressesAlwaysLeadHome`.
  Neither of the last two is inductive: tables are filled from messages and
  messages from tables, across nodes.  The invariant is the conjunction of
  `GoodTable` (a node's entry for itself is empty, every address leads to the peer
  it is filed under), `GoodLinks` (no connection of a node with itself) and
  `GoodMsgs` (the same of every record and Identify in flight, whose receiver is
  never listed in it), proved handler by handler.
- `PeerRecordProofs`: `RecordsStayPublic`, `IntroductionsStayMutual`,
  `DialersHoldRelayed`.  The invariant
  `SafeInv` adds to the one above that every message in flight is right: it lists only
  public addresses and no boot node (`ListsPublic`), both sides of an introduction are in
  the introducer's `requests` (`Noted`), and it is bound to a connection of its ends
  (`Bound`).  Connections, and `requests` while a process lives, only grow, so a message
  that was right stays right, and what is left to prove is each handler's sends.
  `NoSingles` (no node has introduced one peer only) is the same property's other half.
  `ExchangeRefinesBook`, `Spec => RefinesAddressBook`, needs on top of it (`BookInv`)
  that an Identify message is about its sender and nobody else, and a record never about
  its sender (`OwnNews`), and that a connection that is up joins two running nodes (`UpRuns`).  A handler that
  loads a record and sends introductions is then one reading of a letter, after which
  its node may tell others what it has now.
  `ExchangesAlwaysRunDown` counts the copies of each message before and after each
  handler, and sets apart the Identify messages that a connection brings first.
- `RecipeStoreProofs`: `TypeCorrect`, `OneWriterAlways`, `IdsStayUnique`.
  `OneWriter` needs to know that the pool's write belongs to the start and is over
  or the only one when a command runs; `UniqueIds` needs it of the files, of the
  copies in the running command and responders and of what waits in the channels,
  and that the new id is above the highest of a finite set.  `IndInv` joins
  `TypeOK`, `OneWriter`, `Files` and `Books`.
- `RecipeBookProofs`: `StoreRefinesBook`, `Spec => RefinesBook`.  To the invariant above
  it adds `Copied` (what a command is about to write is a change of what the file holds)
  and `Ended` (an ended process leaves no tasks and no messages), and then has one lemma
  per action: a step of the book, or nothing that the book sees.  The bulk is about bags:
  the messages in a channel counted as a bag (`QueuedAppend`, `QueuedTail`), so that a
  message on its way from a channel to the topic stays the same answer (`Moved`).
- `NodeLoopProofs`: `TypeCorrect`, `NeverDeafAlways`, `QuitAlwaysLeaves`, from one
  fact, `Reachable`: until the relay's address is announced a running node has all
  the listeners that `z` asks for; and `Clients`: a UI client is connected only
  during its session.  `ClosesArriveLast` rests on `CloseIsLast`: a close is nowhere but
  at the end of what waits, for a client sends nothing after it; a close with JSON as its
  reason is a state of its own, of which the theorem says nothing.
- `RecipeExchangeProofs`: `TypeCorrect`, `ViewIsDiscovery`, `OnlyTheAskedAnswer`,
  `PrintsWhatIsMeant`, `AnswersStay`, `AnswersOnce`, `ExchangeRefinesBoard`.  `AllOwed`: whatever is on its way to be an answer (a task, a
  message in a channel or on the topic) is owed to a request that has reached the node.
  `Kinds` is the lemma about the chain of parsers: each of the three messages is taken for
  what it is.  `TrackInv` follows an answer that is due: what reached the asker was printed
  by it, and what has not is still under way to a peer that stays a target.  `AnsweredOnce`
  says that a question has one place among tasks, channel and topic, because the filter
  lets a request make only one task (`PlacesOwed`: what has a place has been received).
  `BoardInv` adds `Joined`, that connections join running nodes, and then each step is a
  step of `RecipeBoard`: a task that hands its answer on does nothing, one that fails gives
  up, and the head of the channel goes up as the answer, to be owed no more, which is where
  `AnsweredOnce` is needed.
- `NodesFileProofs`: `TypeCorrect`, `ListsStay`, `StartsParse`, `StartsLoadTheLastList`.
  Until a disk is full the first line of the file is the first line of the last list
  written (`FileOK`), because every text begins with a whole line (lemma `Texts`) and is
  written over the beginning of whatever is there (lemma `Overlaid`).
- `ApiSessionProofs`: `TypeCorrect`, `RuntimeIsThere`, `GlobalsMatch`,
  `ListenersStayLive`, `DefaultIsBooted`.  `Found` says what the accesses before an access
  have found and no other thread can take back; `Numbered` keeps the numbers of calls
  apart; `Undisturbed` says how far an initialise with no rival has come in making the
  globals its own, and `Matched` what is left of that when none is under way.

**Only model-checked.** Liveness (`Quiescence`, `IntroducedMeet`, `Drains`,
`SessionEnds`, `LoopServes`, `AnswersArrive`), which is out of the prover's reach.
Everything else that the passing runs check is also proved, the safety halves of three
of these among it: `ExchangesRunDown` (no chain of messages feeds itself without a new
connection, for `Quiescence`), `CloseNotLost` (for `SessionEnds`) and `AnswersNotLost` (for
`AnswersArrive`).  What is left to fairness is that what waits is taken.

## 12. Not modelled

- Handlers that only log (relay server and client, DCUtR, ping, Kademlia).
- Rendezvous events: the behaviour is ignored by the Swarm and never polled, so only the
  queue of its commands is in a model.
- A dial that fails at every address, apart from the addresses it costs (`DialFails`):
  the handler logs it, and nothing in the code dials again.
- `main_sync.rs`: not a target of `Cargo.toml`; a variant of the main loop that handles
  each event in a fresh Runtime, with which the connection tasks of the event end.
- `_handle_connection_old` of the UI server, which nothing calls; build scripts.
- Kademlia's bucket size (20) and replacement: the runs stay below them.
- What a compiler may make of two `&mut` to one `static mut` (see ApiSession).
- `Drains`, `LoopServes` and `RefinesBook` allow a process to end at any of the code's
  unwraps; which of these ends can be met is said by the actions and the findings only.
- Further addresses of a listener, and a relay reservation that fails before its address
  is announced.
